---------------------------- MODULE MyJQLProofs ----------------------------
(***************************************************************************)
(* The map keeps its promises: what its callers asked for is what it        *)
(* answers, for every set of keys that compareptr tells apart.              *)
(*                                                                         *)
(* The index is sound for the order its records' keys have now.  A set or a *)
(* delete changes the records and with them the order, which the rows of    *)
(* the index must not notice.                                               *)
(***************************************************************************)
EXTENDS MyJQL, BTreeProofs, FunctionTheorems

-----------------------------------------------------------------------------
(* Sound trees under another order, and their rows.                         *)

(* Only the order of the rows that are there matters.                        *)
LEMMA SoundUnder ==
  ASSUME NEW c, NEW d, NEW t, NEW S, Sound(t, S, c), S \subseteq DOMAIN d,
         \A r, s \in S : c[r][s] < 0 <=> d[r][s] < 0
  PROVE  Sound(t, S, d)
<1>1. PICK H, K : Good(t, H, K, {}, c) /\ K[t.root] = S /\ SizedBut(t, H, NoNode, 0, 0) BY DEF Sound
<1> DEFINE D == DOMAIN t.node
           Q == DOMAIN d
<1>2. /\ t \in Trees(DOMAIN c) /\ H \in [D -> Nat] /\ K \in [D -> SUBSET DOMAIN c]
      /\ \A a \in D : K[a] \subseteq S
  BY <1>1 DEF Good, Typed, Rooted
<1>3. ASSUME NEW a \in D, H[a] > 0, NEW i \in 1 .. Len(t.node[a].row)
      PROVE  /\ Items(t.node[a], H[a], K, i) \subseteq S
             /\ t.node[a].row[i] \in Items(t.node[a], H[a], K, i)
             /\ Fresh(t.node[a], H[a], K, d, i)
  <2>1. Fresh(t.node[a], H[a], K, c, i) /\ K[a] = Keys(t.node[a], H[a], K)
    BY <1>1, <1>3 DEF Good, Used, NodeOK
  <2>2. Items(t.node[a], H[a], K, i) \subseteq S BY <2>1, <1>2 DEF Keys
  <2>3. t.node[a].row[i] \in Items(t.node[a], H[a], K, i) BY <2>1 DEF Fresh, Least
  <2>4. Fresh(t.node[a], H[a], K, d, i) BY <2>1, <2>2, <2>3 DEF Fresh, Least
  <2> QED BY <2>2, <2>3, <2>4
<1>4. ASSUME NEW a \in D PROVE t.node[a] \in Content(Q)
  <2>1. t.node[a] \in Content(DOMAIN c) BY <1>2, TreeType
  <2>2. CASE H[a] = 0
    <3>1. t.node[a] = Empty BY <2>2, <1>1 DEF Good, Freelist
    <3>2. <<>> \in Seq(Q) /\ <<>> \in Seq(Nat) BY EmptySeq
    <3> QED BY <3>1, <3>2 DEF Empty, Content
  <2>3. CASE H[a] # 0
    <3>1. H[a] > 0 BY <2>3, <1>2
    <3>2. \A i \in 1 .. Len(t.node[a].row) : t.node[a].row[i] \in Q BY <3>1, <1>3
    <3>3. t.node[a].row \in Seq(Q)
      <4> DEFINE row == t.node[a].row
      <4>1. row \in Seq(DOMAIN c) BY <2>1, ContentType
      <4>2. row = [i \in 1 .. Len(row) |-> row[i]] /\ Len(row) \in Nat BY <4>1, LenProperties
      <4>3. \A i \in 1 .. Len(row) : row[i] \in Q BY <3>2
      <4> HIDE DEF row, Q
      <4>4. row \in Seq(Q) BY <4>2, <4>3, IsASeq
      <4> QED BY <4>4 DEF row
    <3>4. t.node[a].child \in Seq(Nat) /\ t.node[a] = [row |-> t.node[a].row, child |-> t.node[a].child]
      BY <2>1, ContentType
    <3> QED BY <3>3, <3>4 DEF Content
  <2> QED BY <2>2, <2>3
<1>5. t \in Trees(Q)
  <2>1. t.node \in Seq(Content(DOMAIN c)) /\ t.root \in Nat /\ t.free \in Seq(Nat)
        /\ t = [node |-> t.node, root |-> t.root, free |-> t.free]
    BY <1>2 DEF Trees
  <2> DEFINE n == t.node
             C == Content(Q)
  <2>2. n = [i \in 1 .. Len(n) |-> n[i]] /\ Len(n) \in Nat /\ D = 1 .. Len(n) BY <2>1, LenProperties
  <2>3. \A i \in 1 .. Len(n) : n[i] \in C BY <1>4, <2>2
  <2> HIDE DEF n, C
  <2>4. n \in Seq(C) BY <2>2, <2>3, IsASeq
  <2> QED BY <2>1, <2>4 DEF n, C, Trees
<1>6. Typed(t, H, K, Q) BY <1>2, <1>5 DEF Typed
<1>7. Used(t, H, K, {}, d)
  <2> SUFFICES ASSUME NEW a \in D, H[a] > 0
               PROVE  /\ NodeOK(t.node[a], H[a], K[a], H, K, d)
                      /\ \A i \in 1 .. Len(t.node[a].row) : Fresh(t.node[a], H[a], K, d, i)
    BY DEF Used
  <2> DEFINE x == t.node[a]
  <2>1. NodeOK(x, H[a], K[a], H, K, c) BY <1>1 DEF Good, Used
  <2>2. Sorted(x, H[a], K, d)
    <3> SUFFICES ASSUME NEW i \in 1 .. Len(x.row), NEW k \in 1 .. Len(x.row), i < k
                 PROVE  Before(Items(x, H[a], K, i), Items(x, H[a], K, k), d)
      BY DEF Sorted
    <3>1. Before(Items(x, H[a], K, i), Items(x, H[a], K, k), c) BY <2>1 DEF NodeOK, Sorted
    <3>2. Items(x, H[a], K, i) \subseteq S /\ Items(x, H[a], K, k) \subseteq S BY <1>3
    <3> QED BY <3>1, <3>2 DEF Before
  <2> QED BY <2>1, <2>2, <1>3 DEF NodeOK
<1>8. Good(t, H, K, {}, d) BY <1>1, <1>6, <1>7 DEF Good
<1> QED BY <1>1, <1>8 DEF Sound

(* The rows of all nodes are those the tree holds, and the leaves have them. *)
LEMMA SoundRows ==
  ASSUME NEW c, IsOrder(c), NEW t, NEW S, Sound(t, S, c)
  PROVE  /\ \A a \in DOMAIN t.node : Range(t.node[a].row) \subseteq S
         /\ \A a \in DOMAIN t.node : \A i \in 1 .. Len(t.node[a].row) : t.node[a].row[i] \in S
         /\ \A a \in DOMAIN t.node : Size(t, a) <= 2 * DEGREE
         /\ UNION {Range(x.row) : x \in {y \in Range(t.node) : Leaf(y)}} = S
<1>1. PICK H, K : Good(t, H, K, {}, c) /\ K[t.root] = S /\ SizedBut(t, H, NoNode, 0, 0) BY DEF Sound
<1> DEFINE D == DOMAIN t.node
           L == UNION {Range(x.row) : x \in {y \in Range(t.node) : Leaf(y)}}
<1>2. /\ t \in Trees(DOMAIN c) /\ \A a \in D : K[a] \subseteq S /\ H[a] \in Nat /\ H[a] <= H[t.root]
      /\ t.root \in D
  BY <1>1 DEF Good, Typed, Rooted
<1>3. ASSUME NEW a \in D
      PROVE  Len(t.node[a].row) \in Nat /\ DOMAIN t.node[a].row = 1 .. Len(t.node[a].row)
  <2>1. t.node[a] \in Content(DOMAIN c) BY <1>2, TreeType
  <2> QED BY <2>1, ContentType
<1>4. ASSUME NEW a \in D, H[a] = 0 PROVE t.node[a] = Empty /\ Len(t.node[a].row) = 0
  <2>1. t.node[a] = Empty BY <1>4, <1>1 DEF Good, Freelist
  <2> QED BY <2>1 DEF Empty
<1>5. ASSUME NEW a \in D, H[a] > 0, NEW i \in 1 .. Len(t.node[a].row)
      PROVE  t.node[a].row[i] \in Items(t.node[a], H[a], K, i) /\ Items(t.node[a], H[a], K, i) \subseteq K[a]
  <2>1. Fresh(t.node[a], H[a], K, c, i) /\ K[a] = Keys(t.node[a], H[a], K)
    BY <1>1, <1>5 DEF Good, Used, NodeOK
  <2> QED BY <2>1 DEF Fresh, Least, Keys
<1>6. \A a \in D : \A i \in 1 .. Len(t.node[a].row) : t.node[a].row[i] \in S
  <2> SUFFICES ASSUME NEW a \in D, NEW i \in 1 .. Len(t.node[a].row) PROVE t.node[a].row[i] \in S OBVIOUS
  <2>1. H[a] # 0 BY <1>4
  <2>2. H[a] > 0 BY <2>1, <1>2
  <2> QED BY <2>2, <1>2, <1>5
<1>7. \A a \in D : Range(t.node[a].row) \subseteq S BY <1>3, <1>6 DEF Range
<1>8. ASSUME NEW a \in D PROVE Size(t, a) <= 2 * DEGREE
  <2>1. CASE H[a] = 0
    <3>1. Len(t.node[a].row) = 0 BY <2>1, <1>4
    <3> QED BY <3>1, DegreeAssumption DEF Size
  <2>2. CASE H[a] # 0
    <3>1. H[a] > 0 BY <2>2, <1>2
    <3>2. Within(t, H, a, 0, 0) BY <3>1, <1>1 DEF SizedBut
    <3> QED BY <3>2, <1>3, DegreeAssumption DEF Within, Size
  <2> QED BY <2>1, <2>2
<1>9. \A r : r \in L <=> \E a \in D : Leaf(t.node[a]) /\ r \in Range(t.node[a].row)
  <2>1. \A y : y \in Range(t.node) <=> \E a \in D : y = t.node[a] BY DEF Range
  <2>2. \A r : r \in L <=> \E x \in Range(t.node) : Leaf(x) /\ r \in Range(x.row) OBVIOUS
  <2> HIDE DEF L
  <2> QED BY <2>1, <2>2
<1>10. L \subseteq S BY <1>7, <1>9
<1> HIDE DEF L
<1> DEFINE T == {i \in Nat : \A a \in D : H[a] = i => K[a] \subseteq L}
<1>11. 1 \in T
  <2> SUFFICES ASSUME NEW a \in D, H[a] = 1, NEW r \in K[a] PROVE r \in L OBVIOUS
  <2>1. H[a] > 0 OBVIOUS
  <2>2. Leaf(t.node[a]) /\ NodeOK(t.node[a], H[a], K[a], H, K, c) BY <2>1, <1>1, UsedNode
  <2>3. PICK i \in 1 .. Len(t.node[a].row) : r \in Items(t.node[a], H[a], K, i) BY <2>2 DEF NodeOK, Keys
  <2>4. r = t.node[a].row[i] BY <2>3 DEF Items
  <2>5. r \in Range(t.node[a].row) BY <2>3, <2>4, <1>3 DEF Range
  <2> QED BY <2>2, <2>5, <1>9
<1>12. ASSUME NEW i \in 1 .. H[t.root], i # 1, i - 1 \in T PROVE i \in T
  <2>1. i \in Nat /\ i > 1 BY <1>2, <1>12
  <2> SUFFICES ASSUME NEW a \in D, H[a] = i, NEW r \in K[a] PROVE r \in L BY <2>1
  <2>2. H[a] > 1 /\ H[a] > 0 BY <2>1
  <2>3. NodeOK(t.node[a], H[a], K[a], H, K, c) BY <2>2, <1>1, UsedNode
  <2>4. PICK k \in 1 .. Len(t.node[a].row) : r \in Items(t.node[a], H[a], K, k) BY <2>3 DEF NodeOK, Keys
  <2>5. /\ t.node[a].child[k] \in D /\ H[t.node[a].child[k]] = i - 1
        /\ Items(t.node[a], H[a], K, k) = K[t.node[a].child[k]]
    BY <2>2, <2>4, <1>1, ChildNode
  <2>6. \A b \in D : H[b] = i - 1 => K[b] \subseteq L BY <1>12
  <2> QED BY <2>4, <2>5, <2>6
<1>13. H[t.root] \in Nat /\ H[t.root] > 0 BY <1>1, <1>2 DEF Good, Rooted
<1>14. \A i \in 1 .. H[t.root] : i \in T
  <2> HIDE DEF T
  <2> QED BY <1>11, <1>12, <1>13, UpTo
<1>15. S \subseteq L
  <2>1. H[t.root] \in 1 .. H[t.root] BY <1>13
  <2>2. H[t.root] \in T BY <2>1, <1>14
  <2> QED BY <2>2, <1>1, <1>2
<1> QED BY <1>6, <1>7, <1>8, <1>10, <1>15 DEF L

-----------------------------------------------------------------------------
(* The order of keys.                                                       *)

(* s and t differ first at i; s is t up to there.                           *)
FirstAt(s, t, i) ==
    /\ i \in 1 .. Len(s) /\ i \in 1 .. Len(t) /\ s[i] # t[i]
    /\ \A j \in 1 .. i - 1 : s[j] = t[j]
Prefix(s, t) == Len(s) <= Len(t) /\ \A j \in 1 .. Len(s) : s[j] = t[j]

Smaller(s, t) ==
    \/ Prefix(s, t) /\ Len(s) < Len(t)
    \/ \E i : FirstAt(s, t, i) /\ s[i] < t[i]

(* Two keys have a first place where they differ, or one is the other's      *)
(* beginning.                                                               *)
LEMMA Differences ==
  ASSUME NEW s \in Seq(Int), NEW t \in Seq(Int)
  PROVE  \/ Prefix(s, t) /\ Order(s, t) = IF Len(s) > Len(t) THEN 1 ELSE IF Len(s) < Len(t) THEN -1 ELSE 0
         \/ Prefix(t, s) /\ Order(s, t) = IF Len(s) > Len(t) THEN 1 ELSE IF Len(s) < Len(t) THEN -1 ELSE 0
         \/ \E i : FirstAt(s, t, i) /\ Order(s, t) = IF s[i] > t[i] THEN 1 ELSE IF s[i] < t[i] THEN -1 ELSE 0
<1> DEFINE differ == {i \in DOMAIN s \intersect DOMAIN t : s[i] # t[i]}
           i == CHOOSE x \in differ : \A j \in differ : x <= j
<1>1. Len(s) \in Nat /\ Len(t) \in Nat /\ DOMAIN s = 1 .. Len(s) /\ DOMAIN t = 1 .. Len(t) BY LenProperties
<1>2. Order(s, t) = IF differ = {} THEN IF Len(s) > Len(t) THEN 1 ELSE IF Len(s) < Len(t) THEN -1 ELSE 0
                    ELSE IF s[i] > t[i] THEN 1 ELSE IF s[i] < t[i] THEN -1 ELSE 0
  BY DEF Order
<1>3. \A j : j \in differ <=> j \in 1 .. Len(s) /\ j \in 1 .. Len(t) /\ s[j] # t[j] BY <1>1
<1>4. CASE differ = {}
  <2>1. \A j : j \in 1 .. Len(s) /\ j \in 1 .. Len(t) => s[j] = t[j] BY <1>3, <1>4
  <2>2. Order(s, t) = IF Len(s) > Len(t) THEN 1 ELSE IF Len(s) < Len(t) THEN -1 ELSE 0 BY <1>2, <1>4
  <2>3. CASE Len(s) <= Len(t)
    <3>1. \A j \in 1 .. Len(s) : j \in 1 .. Len(t) BY <2>3, <1>1
    <3>2. Prefix(s, t) BY <2>1, <2>3, <3>1 DEF Prefix
    <3> QED BY <3>2, <2>2
  <2>4. CASE Len(t) <= Len(s)
    <3>1. \A j \in 1 .. Len(t) : j \in 1 .. Len(s) BY <2>4, <1>1
    <3>2. Prefix(t, s) BY <2>1, <2>4, <3>1 DEF Prefix
    <3> QED BY <3>2, <2>2
  <2> QED BY <2>3, <2>4, <1>1
<1>5. CASE differ # {}
  <2>1. differ \in SUBSET Nat BY <1>1
  <2>2. PICK x \in differ : \A y \in differ : ~(<<y, x>> \in OpToRel(<, Nat))
    <3> HIDE DEF differ
    <3> QED BY <2>1, <1>5, NatLessThanWellFounded, WFMin
  <2>3. \A y \in differ : x <= y
    <3> SUFFICES ASSUME NEW y \in differ PROVE x <= y OBVIOUS
    <3>1. x \in Nat /\ y \in Nat BY <2>1
    <3>2. ~(y < x) BY <2>2, <3>1 DEF OpToRel
    <3> QED BY <3>1, <3>2
  <2>4. i \in differ /\ \A j \in differ : i <= j
    <3> HIDE DEF differ
    <3> QED BY <2>3
  <2> HIDE DEF i
  <2>5. i \in 1 .. Len(s) /\ i \in 1 .. Len(t) /\ s[i] # t[i] BY <2>4, <1>3
  <2>6. \A j \in 1 .. i - 1 : j \in 1 .. Len(s) /\ j \in 1 .. Len(t) /\ ~(i <= j)
    <3> SUFFICES ASSUME NEW j \in 1 .. i - 1 PROVE j \in 1 .. Len(s) /\ j \in 1 .. Len(t) /\ ~(i <= j) OBVIOUS
    <3>1. Len(s) \in Nat /\ Len(t) \in Nat BY <1>1
    <3> DEFINE p == Len(s)
               q == Len(t)
    <3>2. p \in Nat /\ q \in Nat /\ i \in 1 .. p /\ i \in 1 .. q BY <2>5, <3>1
    <3>3. j \in 1 .. p /\ j \in 1 .. q /\ ~(i <= j)
      <4> HIDE DEF p, q
      <4> QED BY <3>2
    <3> QED BY <3>3
  <2>7. \A j \in 1 .. i - 1 : s[j] = t[j] BY <2>4, <2>6, <1>3
  <2>8. FirstAt(s, t, i) BY <2>5, <2>7 DEF FirstAt
  <2>9. Order(s, t) = IF s[i] > t[i] THEN 1 ELSE IF s[i] < t[i] THEN -1 ELSE 0
    <3> HIDE DEF differ
    <3> QED BY <1>2, <1>5
  <2> QED BY <2>8, <2>9
<1> QED BY <1>4, <1>5

LEMMA PrefixFacts ==
  ASSUME NEW s \in Seq(Int), NEW t \in Seq(Int), Prefix(s, t)
  PROVE  /\ Len(s) \in Nat /\ Len(t) \in Nat /\ Len(s) <= Len(t)
         /\ \A i : ~FirstAt(s, t, i) /\ ~FirstAt(t, s, i)
         /\ Len(s) = Len(t) => s = t
<1>1. Len(s) \in Nat /\ Len(t) \in Nat /\ Len(s) <= Len(t) BY LenProperties DEF Prefix
<1>2. \A i \in 1 .. Len(s) : s[i] = t[i] BY DEF Prefix
<1>3. \A i : ~FirstAt(s, t, i) /\ ~FirstAt(t, s, i) BY <1>2 DEF FirstAt
<1>4. Len(s) = Len(t) => s = t BY <1>2, SeqEqual
<1> QED BY <1>1, <1>3, <1>4

LEMMA OneFirst ==
  ASSUME NEW s \in Seq(Int), NEW t \in Seq(Int), NEW i, NEW j, FirstAt(s, t, i), FirstAt(s, t, j)
  PROVE  i = j
<1>1. i \in Nat \ {0} /\ j \in Nat \ {0} BY LenProperties DEF FirstAt
<1>2. ~(i < j)
  <2> SUFFICES ASSUME i < j PROVE FALSE OBVIOUS
  <2>1. i \in 1 .. j - 1 BY <1>1
  <2> QED BY <2>1 DEF FirstAt
<1>3. ~(j < i)
  <2> SUFFICES ASSUME j < i PROVE FALSE OBVIOUS
  <2>1. j \in 1 .. i - 1 BY <1>1
  <2> QED BY <2>1 DEF FirstAt
<1> QED BY <1>1, <1>2, <1>3

(* Order is what Smaller says, and tells the same keys.                     *)
LEMMA OrderIs ==
  ASSUME NEW s \in Seq(Int), NEW t \in Seq(Int)
  PROVE  /\ Order(s, t) \in {-1, 0, 1}
         /\ Order(s, t) < 0 <=> Smaller(s, t)
         /\ Order(s, t) > 0 <=> Smaller(t, s)
         /\ Order(s, t) = 0 <=> s = t
<1>1. Len(s) \in Nat /\ Len(t) \in Nat BY LenProperties
<1>2. \A i : FirstAt(s, t, i) <=> FirstAt(t, s, i) BY DEF FirstAt
<1>3. CASE Prefix(s, t)
  <2>1. Len(s) <= Len(t) /\ (\A i : ~FirstAt(s, t, i) /\ ~FirstAt(t, s, i)) /\ (Len(s) = Len(t) => s = t)
    BY <1>3, PrefixFacts
  <2>2. Order(s, t) = IF Len(s) > Len(t) THEN 1 ELSE IF Len(s) < Len(t) THEN -1 ELSE 0 BY <2>1, Differences
  <2>3. Smaller(s, t) <=> Len(s) < Len(t) BY <1>3, <2>1 DEF Smaller
  <2>4. ~Smaller(t, s) BY <1>1, <2>1 DEF Smaller
  <2> QED BY <1>1, <2>1, <2>2, <2>3, <2>4
<1>4. CASE Prefix(t, s)
  <2>1. Len(t) <= Len(s) /\ (\A i : ~FirstAt(s, t, i) /\ ~FirstAt(t, s, i)) /\ (Len(t) = Len(s) => t = s)
    BY <1>4, PrefixFacts
  <2>2. Order(s, t) = IF Len(s) > Len(t) THEN 1 ELSE IF Len(s) < Len(t) THEN -1 ELSE 0 BY <2>1, Differences
  <2>3. Smaller(t, s) <=> Len(t) < Len(s) BY <1>4, <2>1 DEF Smaller
  <2>4. ~Smaller(s, t) BY <1>1, <2>1 DEF Smaller
  <2> QED BY <1>1, <2>1, <2>2, <2>3, <2>4
<1>5. ASSUME NEW i, FirstAt(s, t, i), Order(s, t) = IF s[i] > t[i] THEN 1 ELSE IF s[i] < t[i] THEN -1 ELSE 0
      PROVE  /\ Order(s, t) \in {-1, 0, 1}
             /\ Order(s, t) < 0 <=> Smaller(s, t)
             /\ Order(s, t) > 0 <=> Smaller(t, s)
             /\ Order(s, t) = 0 <=> s = t
  <2>1. s[i] \in Int /\ t[i] \in Int /\ s[i] # t[i] BY <1>5, ElementOfSeq DEF FirstAt
  <2>2. ~Prefix(s, t) /\ ~Prefix(t, s) BY <1>5, <1>2, PrefixFacts
  <2>3. \A j : FirstAt(s, t, j) => j = i BY <1>5, OneFirst
  <2>4. Smaller(s, t) <=> s[i] < t[i] BY <2>2, <2>3, <1>5 DEF Smaller
  <2>5. Smaller(t, s) <=> t[i] < s[i] BY <2>2, <2>3, <1>2, <1>5 DEF Smaller
  <2>6. s # t BY <2>1
  <2> QED BY <2>1, <2>4, <2>5, <2>6, <1>5
<1> QED BY <1>3, <1>4, <1>5, Differences

LEMMA SmallerTransitive ==
  ASSUME NEW s \in Seq(Int), NEW t \in Seq(Int), NEW u \in Seq(Int), Smaller(s, t), Smaller(t, u)
  PROVE  Smaller(s, u)
<1>1. Len(s) \in Nat /\ Len(t) \in Nat /\ Len(u) \in Nat BY LenProperties
<1>2. ASSUME Prefix(s, t), Len(s) < Len(t), Prefix(t, u), Len(t) < Len(u) PROVE Smaller(s, u)
  <2>1. Len(s) < Len(u) BY <1>1, <1>2
  <2>2. \A j \in 1 .. Len(s) : j \in 1 .. Len(t) BY <1>1, <1>2
  <2>3. Prefix(s, u) BY <1>1, <1>2, <2>1, <2>2 DEF Prefix
  <2> QED BY <2>1, <2>3 DEF Smaller
<1>3. ASSUME Prefix(s, t), Len(s) < Len(t), NEW j, FirstAt(t, u, j), t[j] < u[j] PROVE Smaller(s, u)
  <2>1. j \in Nat \ {0} /\ j <= Len(t) /\ j <= Len(u) BY <1>1, <1>3 DEF FirstAt
  <2>2. CASE j <= Len(s)
    <3>1. j \in 1 .. Len(s) BY <1>1, <2>1, <2>2
    <3>2. \A k \in 1 .. j - 1 : k \in 1 .. Len(s) BY <1>1, <2>1, <2>2
    <3>3. FirstAt(s, u, j) /\ s[j] < u[j] BY <3>1, <3>2, <1>3 DEF Prefix, FirstAt
    <3> QED BY <3>3 DEF Smaller
  <2>3. CASE j > Len(s)
    <3>1. \A k \in 1 .. Len(s) : k \in 1 .. j - 1 BY <1>1, <2>1, <2>3
    <3>2. Len(s) < Len(u) BY <1>1, <2>1, <2>3
    <3>3. Prefix(s, u) BY <1>1, <1>3, <3>1, <3>2 DEF Prefix, FirstAt
    <3> QED BY <3>2, <3>3 DEF Smaller
  <2> QED BY <1>1, <2>1, <2>2, <2>3
<1>4. ASSUME NEW i, FirstAt(s, t, i), s[i] < t[i], Prefix(t, u) PROVE Smaller(s, u)
  <2>1. i \in Nat \ {0} /\ i <= Len(s) /\ i <= Len(t) BY <1>1, <1>4 DEF FirstAt
  <2>2. Len(t) <= Len(u) BY <1>4 DEF Prefix
  <2>3. i \in 1 .. Len(t) /\ i \in 1 .. Len(u) BY <1>1, <2>1, <2>2
  <2>4. \A k \in 1 .. i - 1 : k \in 1 .. Len(t) BY <1>1, <2>1
  <2>5. FirstAt(s, u, i) /\ s[i] < u[i] BY <2>3, <2>4, <1>4 DEF Prefix, FirstAt
  <2> QED BY <2>5 DEF Smaller
<1>5. ASSUME NEW i, FirstAt(s, t, i), s[i] < t[i], NEW j, FirstAt(t, u, j), t[j] < u[j] PROVE Smaller(s, u)
  <2>1. i \in Nat \ {0} /\ j \in Nat \ {0} /\ i <= Len(s) /\ i <= Len(t) /\ j <= Len(t) /\ j <= Len(u)
    BY <1>1, <1>5 DEF FirstAt
  <2>2. s[i] \in Int /\ t[i] \in Int /\ t[j] \in Int /\ u[j] \in Int BY <1>5, ElementOfSeq DEF FirstAt
  <2>3. CASE i < j
    <3>0. i <= Len(u) BY <1>1, <2>1, <2>3
    <3>1. i \in 1 .. j - 1 /\ i \in 1 .. Len(s) /\ i \in 1 .. Len(u) BY <1>1, <2>1, <2>3, <3>0
    <3>2. \A k \in 1 .. i - 1 : k \in 1 .. j - 1 BY <2>1, <2>3
    <3>3. FirstAt(s, u, i) /\ s[i] < u[i] BY <3>1, <3>2, <1>5 DEF FirstAt
    <3> QED BY <3>3 DEF Smaller
  <2>4. CASE j < i
    <3>1. j \in 1 .. i - 1 /\ j \in 1 .. Len(s) /\ j \in 1 .. Len(u) BY <1>1, <2>1, <2>4
    <3>2. \A k \in 1 .. j - 1 : k \in 1 .. i - 1 BY <2>1, <2>4
    <3>3. FirstAt(s, u, j) /\ s[j] < u[j] BY <3>1, <3>2, <1>5 DEF FirstAt
    <3> QED BY <3>3 DEF Smaller
  <2>5. CASE i = j
    <3>1. s[i] < u[i] BY <2>2, <2>5, <1>5
    <3>2. s[i] # u[i] BY <2>2, <2>5, <3>1
    <3>3. FirstAt(s, u, i) BY <3>2, <2>5, <1>5 DEF FirstAt
    <3> QED BY <3>1, <3>3 DEF Smaller
  <2> QED BY <2>1, <2>3, <2>4, <2>5
<1> QED BY <1>2, <1>3, <1>4, <1>5 DEF Smaller

-----------------------------------------------------------------------------
(* compareptr.                                                              *)

(* f is what the rounds of compareptr come to.                              *)
Rounds(s, t, f) ==
    f = [m \in 0 .. Len(s) |->
            IF m = 0 THEN [used |-> 0, result |-> 0] ELSE ComparePtrRound(s, t, f[m - 1], m)]

Outcome(s, t, end) == IF end.result = 0 /\ HasMore(end, t) THEN -1 ELSE end.result

(* It is enough to say what the rounds come to.                             *)
LEMMA ComparePtrBy ==
  ASSUME NEW s, Len(s) \in Nat, NEW t, NEW g, Rounds(s, t, g)
  PROVE  ComparePtr(s, t) = Outcome(s, t, g[Len(s)])
<1> DEFINE f == CHOOSE f : Rounds(s, t, f)
<1>1. Rounds(s, t, f) OBVIOUS
<1>2. ComparePtr(s, t) = Outcome(s, t, f[Len(s)]) BY Zenon DEF ComparePtr, Rounds, Outcome
<1> HIDE DEF f
<1> DEFINE S == {m \in Nat : m \in 0 .. Len(s) => f[m] = g[m]}
<1>3. S = Nat
  <2>1. S \in SUBSET Nat OBVIOUS
  <2>2. 0 \in S
    <3>1. 0 \in 0 .. Len(s) OBVIOUS
    <3> QED BY <3>1, <1>1 DEF Rounds
  <2>3. ASSUME NEW m \in S PROVE m + 1 \in S
    <3> SUFFICES ASSUME m + 1 \in 0 .. Len(s) PROVE f[m + 1] = g[m + 1] OBVIOUS
    <3>1. m \in 0 .. Len(s) /\ (m + 1) - 1 = m /\ m + 1 # 0 OBVIOUS
    <3>2. f[m] = g[m] BY <3>1
    <3>3. f[m + 1] = ComparePtrRound(s, t, f[m], m + 1) BY <3>1, <1>1 DEF Rounds
    <3>4. g[m + 1] = ComparePtrRound(s, t, g[m], m + 1) BY <3>1 DEF Rounds
    <3> QED BY <3>2, <3>3, <3>4
  <2> HIDE DEF S
  <2> QED BY <2>1, <2>2, <2>3, SetInduction
<1>4. Len(s) \in S /\ Len(s) \in 0 .. Len(s) BY <1>3
<1>5. f[Len(s)] = g[Len(s)] BY <1>4
<1> QED BY <1>2, <1>5

(* Where it starts and what each round makes of it says what it is.          *)
LEMMA RoundByRound ==
  ASSUME NEW s, Len(s) \in Nat, NEW t, NEW g, g = [m \in 0 .. Len(s) |-> g[m]],
         g[0] = [used |-> 0, result |-> 0],
         \A m \in 1 .. Len(s) : g[m] = ComparePtrRound(s, t, g[m - 1], m)
  PROVE  Rounds(s, t, g)
<1> DEFINE F(m) == IF m = 0 THEN [used |-> 0, result |-> 0] ELSE ComparePtrRound(s, t, g[m - 1], m)
<1>1. \A m \in 0 .. Len(s) : m = 0 \/ m \in 1 .. Len(s) OBVIOUS
<1>2. \A m \in 0 .. Len(s) : g[m] = F(m)
  <2> TAKE m \in 0 .. Len(s)
  <2>1. CASE m = 0 BY <2>1
  <2>2. CASE m # 0
    <3>1. m \in 1 .. Len(s) BY <1>1, <2>2
    <3> QED BY <3>1, <2>2
  <2> QED BY <2>1, <2>2
<1> HIDE DEF F
<1>3. g = [m \in 0 .. Len(s) |-> F(m)] BY <1>2
<1> QED BY <1>3 DEF Rounds, F

(* A round where stored goes on, and one where it has ended.                *)
LEMMA RoundIs ==
  ASSUME NEW s, NEW t, NEW u, NEW m \in Nat, m > 1 => s[m] # 0
  PROVE  LET c == [used |-> u, result |-> 0]
         IN  /\ u < Len(t) => ComparePtrRound(s, t, c, m) =
                   [used |-> u + 1, result |-> IF s[m] > t[u + 1] THEN 1 ELSE IF s[m] < t[u + 1] THEN -1 ELSE 0]
             /\ ~(u < Len(t)) => ComparePtrRound(s, t, c, m) =
                   [used |-> u, result |-> IF m < Len(s) THEN 1 ELSE 0]
BY DEF ComparePtrRound, HasMore

LEMMA RoundDone ==
  ASSUME NEW s, NEW t, NEW u, NEW r, r # 0, NEW m
  PROVE  ComparePtrRound(s, t, [used |-> u, result |-> r], m) = [used |-> u, result |-> r]
BY DEF ComparePtrRound

(* compareptr tells keys apart as comparerow orders them.                   *)
THEOREM ComparePtrIsOrder ==
  ASSUME NEW keys, keys \subseteq Seq(Int) \ {<<>>}, KeysApart(keys), NEW s \in keys, NEW t \in keys
  PROVE  ComparePtr(s, t) = Order(s, t)
<1>1. /\ s \in Seq(Int) /\ t \in Seq(Int) /\ Len(s) \in Nat /\ Len(t) \in Nat
      /\ \A i \in 1 .. Len(s) : s[i] \in Int
      /\ \A i \in 1 .. Len(t) : t[i] \in Int
  BY LenProperties, ElementOfSeq
<1>2. /\ \A i \in 2 .. Len(s) : s[i] # 0
      /\ Len(s) = Len(t) + 1 => \E i \in 1 .. Len(t) : s[i] # t[i]
  BY DEF KeysApart
<1>3. \A m \in 1 .. Len(s) : m \in Nat /\ (m > 1 => s[m] # 0)
  <2> SUFFICES ASSUME NEW m \in 1 .. Len(s) PROVE m \in Nat /\ (m > 1 => s[m] # 0) OBVIOUS
  <2>1. m > 1 => m \in 2 .. Len(s) BY <1>1
  <2> QED BY <2>1, <1>2
<1> DEFINE At(u, r) == [used |-> u, result |-> r]
           sign(x, y) == IF x > y THEN 1 ELSE IF x < y THEN -1 ELSE 0
<1>4. ASSUME NEW m \in 1 .. Len(s), NEW u
      PROVE  /\ u < Len(t) => ComparePtrRound(s, t, At(u, 0), m) = At(u + 1, sign(s[m], t[u + 1]))
             /\ ~(u < Len(t)) => ComparePtrRound(s, t, At(u, 0), m) = At(u, IF m < Len(s) THEN 1 ELSE 0)
  BY <1>3, RoundIs
<1>5. ASSUME NEW u, NEW m PROVE /\ ComparePtrRound(s, t, At(u, 1), m) = At(u, 1)
                                /\ ComparePtrRound(s, t, At(u, -1), m) = At(u, -1)
  <2>1. 1 # 0 /\ -1 # 0 OBVIOUS
  <2> QED BY <2>1, RoundDone
<1> HIDE DEF At
(* They differ.                                                             *)
<1>6. ASSUME NEW i, FirstAt(s, t, i), Order(s, t) = sign(s[i], t[i])
      PROVE  ComparePtr(s, t) = Order(s, t)
  <2> DEFINE g == [m \in 0 .. Len(s) |-> IF m < i THEN At(m, 0) ELSE At(i, sign(s[i], t[i]))]
  <2>1. i \in 1 .. Len(s) /\ i \in 1 .. Len(t) /\ s[i] # t[i] /\ \A j \in 1 .. i - 1 : s[j] = t[j]
    BY <1>6 DEF FirstAt
  <2>2. s[i] \in Int /\ t[i] \in Int BY <2>1, <1>1
  <2>3. sign(s[i], t[i]) = 1 \/ sign(s[i], t[i]) = -1 BY <2>1, <2>2
  <2>4. ASSUME NEW m \in 1 .. Len(s) PROVE g[m] = ComparePtrRound(s, t, g[m - 1], m)
    <3>1. m - 1 \in 0 .. Len(s) /\ m \in 0 .. Len(s) /\ (m - 1) + 1 = m /\ m \in Int /\ i \in Int BY <1>1, <2>1
    <3>2. CASE m < i
      <4>1. m - 1 < i /\ m - 1 < Len(t) /\ m \in 1 .. i - 1 /\ m \in 1 .. Len(t) BY <3>1, <3>2, <2>1, <1>1
      <4>2. s[m] = t[m] /\ s[m] \in Int BY <4>1, <2>1, <1>1
      <4>3. sign(s[m], t[m]) = 0 BY <4>2
      <4>4. ComparePtrRound(s, t, At(m - 1, 0), m) = At(m, 0) BY <4>1, <4>3, <3>1, <1>4
      <4>5. g[m] = At(m, 0) /\ g[m - 1] = At(m - 1, 0) BY <4>1, <3>1, <3>2
      <4> QED BY <4>4, <4>5
    <3>3. CASE m = i
      <4>1. m - 1 < i /\ m - 1 < Len(t) BY <3>1, <3>3, <2>1, <1>1
      <4>2. ComparePtrRound(s, t, At(m - 1, 0), m) = At(m, sign(s[m], t[m])) BY <4>1, <3>1, <1>4
      <4>3. g[m - 1] = At(m - 1, 0) BY <4>1, <3>1
      <4>4. ~(m < i) BY <3>1, <3>3
      <4>5. g[m] = At(i, sign(s[i], t[i])) BY <4>4, <3>1
      <4> QED BY <4>2, <4>3, <4>5, <3>3
    <3>4. CASE m > i
      <4>1. ~(m < i) /\ ~(m - 1 < i) BY <3>1, <3>4
      <4>2. g[m] = At(i, sign(s[i], t[i])) BY <4>1, <3>1
      <4>3. g[m - 1] = At(i, sign(s[i], t[i])) BY <4>1, <3>1
      <4> HIDE DEF sign
      <4> QED BY <4>2, <4>3, <2>3, <1>5
    <3> QED BY <3>1, <3>2, <3>3, <3>4
  <2>5. g[0] = At(0, 0)
    <3>1. 0 \in 0 .. Len(s) /\ 0 < i BY <1>1, <2>1
    <3> QED BY <3>1
  <2>6. g[Len(s)] = At(i, sign(s[i], t[i]))
    <3>1. Len(s) \in 0 .. Len(s) /\ ~(Len(s) < i) BY <1>1, <2>1
    <3> QED BY <3>1
  <2>7. Rounds(s, t, g)
    <3>1. g = [m \in 0 .. Len(s) |-> g[m]] OBVIOUS
    <3>2. g[0] = [used |-> 0, result |-> 0] BY <2>4, <2>5 DEF At
    <3> HIDE DEF g
    <3> QED BY <3>1, <3>2, <1>1, <2>4, <2>5, RoundByRound
  <2> HIDE DEF g
  <2>8. ComparePtr(s, t) = Outcome(s, t, At(i, sign(s[i], t[i]))) BY <2>6, <2>7, <1>1, ComparePtrBy
  <2> HIDE DEF sign
  <2>9. At(i, sign(s[i], t[i])).result = sign(s[i], t[i]) BY DEF At
  <2>10. sign(s[i], t[i]) # 0 BY <2>3
  <2> QED BY <2>8, <2>9, <2>10, <1>6 DEF Outcome
(* s is the beginning of t.                                                 *)
<1>7. ASSUME Prefix(s, t), Order(s, t) = sign(Len(s), Len(t))
      PROVE  ComparePtr(s, t) = Order(s, t)
  <2> DEFINE g == [m \in 0 .. Len(s) |-> At(m, 0)]
  <2>1. Len(s) <= Len(t) /\ \A j \in 1 .. Len(s) : s[j] = t[j] BY <1>7 DEF Prefix
  <2>2. ASSUME NEW m \in 1 .. Len(s) PROVE g[m] = ComparePtrRound(s, t, g[m - 1], m)
    <3>1. m - 1 \in 0 .. Len(s) /\ m \in 0 .. Len(s) /\ (m - 1) + 1 = m /\ m - 1 < Len(t) BY <1>1, <2>1
    <3>2. s[m] = t[m] /\ s[m] \in Int BY <2>1, <1>1
    <3>3. sign(s[m], t[m]) = 0 BY <3>2
    <3>4. ComparePtrRound(s, t, At(m - 1, 0), m) = At(m, 0) BY <3>1, <3>3, <1>4
    <3> QED BY <3>1, <3>4
  <2>3. g[0] = At(0, 0) /\ g[Len(s)] = At(Len(s), 0)
    <3>1. 0 \in 0 .. Len(s) /\ Len(s) \in 0 .. Len(s) BY <1>1
    <3> QED BY <3>1
  <2>4. Rounds(s, t, g)
    <3>1. g = [m \in 0 .. Len(s) |-> g[m]] OBVIOUS
    <3>2. g[0] = [used |-> 0, result |-> 0] BY <2>2, <2>3 DEF At
    <3> HIDE DEF g
    <3> QED BY <3>1, <3>2, <1>1, <2>2, <2>3, RoundByRound
  <2> HIDE DEF g
  <2>5. ComparePtr(s, t) = Outcome(s, t, At(Len(s), 0)) BY <2>3, <2>4, <1>1, ComparePtrBy
  <2>6. Outcome(s, t, At(Len(s), 0)) = IF Len(s) < Len(t) THEN -1 ELSE 0 BY DEF Outcome, HasMore, At
  <2>7. sign(Len(s), Len(t)) = IF Len(s) < Len(t) THEN -1 ELSE 0 BY <2>1, <1>1
  <2> QED BY <2>5, <2>6, <2>7, <1>7
(* t is the beginning of s, and ends two characters earlier at least.        *)
<1>8. ASSUME Prefix(t, s), Len(t) < Len(s), Order(s, t) = sign(Len(s), Len(t))
      PROVE  ComparePtr(s, t) = Order(s, t)
  <2> DEFINE n == Len(t)
             g == [m \in 0 .. Len(s) |-> IF m <= n THEN At(m, 0) ELSE At(n, 1)]
  <2>1. n <= Len(s) /\ \A j \in 1 .. n : t[j] = s[j] BY <1>8 DEF Prefix
  <2>2. n + 1 < Len(s) /\ n \in Nat
    <3>1. Len(s) # n + 1 BY <1>2, <2>1
    <3> QED BY <3>1, <1>1, <1>8
  <2>3. ASSUME NEW m \in 1 .. Len(s) PROVE g[m] = ComparePtrRound(s, t, g[m - 1], m)
    <3>1. m - 1 \in 0 .. Len(s) /\ m \in 0 .. Len(s) /\ (m - 1) + 1 = m /\ m \in Int BY <1>1
    <3>2. CASE m <= n
      <4>1. m - 1 < n /\ m - 1 <= n /\ m \in 1 .. n BY <3>1, <3>2, <2>2
      <4>2. s[m] = t[m] /\ s[m] \in Int BY <4>1, <2>1, <1>1
      <4>3. sign(s[m], t[m]) = 0 BY <4>2
      <4>4. ComparePtrRound(s, t, At(m - 1, 0), m) = At(m, 0) BY <4>1, <4>3, <3>1, <1>4
      <4>5. g[m] = At(m, 0) /\ g[m - 1] = At(m - 1, 0) BY <4>1, <3>1, <3>2
      <4> QED BY <4>4, <4>5
    <3>3. CASE m = n + 1
      <4>1. m - 1 = n /\ ~(n < n) /\ m - 1 <= n /\ ~(m <= n) /\ m < Len(s) BY <3>1, <3>3, <2>2
      <4>2. ComparePtrRound(s, t, At(n, 0), m) = At(n, 1) BY <4>1, <1>4
      <4>3. g[m - 1] = At(n, 0) BY <4>1, <3>1
      <4>4. g[m] = At(n, 1) BY <4>1, <3>1
      <4> QED BY <4>2, <4>3, <4>4
    <3>4. CASE m > n + 1
      <4>1. ~(m <= n) /\ ~(m - 1 <= n) BY <3>1, <3>4, <2>2
      <4>2. g[m] = At(n, 1) /\ g[m - 1] = At(n, 1) BY <4>1, <3>1
      <4> QED BY <4>2, <1>5
    <3> QED BY <3>1, <3>2, <3>3, <3>4, <2>2
  <2>4. g[0] = At(0, 0) /\ g[Len(s)] = At(n, 1)
    <3>1. 0 \in 0 .. Len(s) /\ Len(s) \in 0 .. Len(s) /\ 0 <= n /\ ~(Len(s) <= n) BY <1>1, <2>2
    <3> QED BY <3>1
  <2>5. Rounds(s, t, g)
    <3>1. g = [m \in 0 .. Len(s) |-> g[m]] OBVIOUS
    <3>2. g[0] = [used |-> 0, result |-> 0] BY <2>3, <2>4 DEF At
    <3> HIDE DEF g
    <3> QED BY <3>1, <3>2, <1>1, <2>3, <2>4, RoundByRound
  <2> HIDE DEF g
  <2>6. ComparePtr(s, t) = Outcome(s, t, At(n, 1)) BY <2>4, <2>5, <1>1, ComparePtrBy
  <2>7. Outcome(s, t, At(n, 1)) = 1 BY DEF Outcome, At
  <2>8. sign(Len(s), Len(t)) = 1 BY <1>1, <1>8
  <2> QED BY <2>6, <2>7, <2>8, <1>8
<1>9. Prefix(t, s) /\ ~(Len(t) < Len(s)) => Prefix(s, t)
  <2> SUFFICES ASSUME Prefix(t, s), ~(Len(t) < Len(s)) PROVE Prefix(s, t) OBVIOUS
  <2>1. Len(t) = Len(s) BY <1>1 DEF Prefix
  <2> QED BY <2>1, <1>1 DEF Prefix
<1> HIDE DEF sign
<1>10. \/ Prefix(s, t) /\ Order(s, t) = sign(Len(s), Len(t))
       \/ Prefix(t, s) /\ Order(s, t) = sign(Len(s), Len(t))
       \/ \E i : FirstAt(s, t, i) /\ Order(s, t) = sign(s[i], t[i])
  BY <1>1, Differences DEF sign
<1> QED BY <1>6, <1>7, <1>8, <1>9, <1>10

(* Rows with different keys are ordered by them.                             *)
Ordering(A, key) == [a \in A |-> [b \in A |-> Order(key[a], key[b])]]

LEMMA OrderingIsOrder ==
  ASSUME NEW A, NoRid \notin A, NEW key \in [A -> Seq(Int)], \A a, b \in A : key[a] = key[b] => a = b
  PROVE  IsOrder(Ordering(A, key)) /\ DOMAIN Ordering(A, key) = A
<1> DEFINE c == Ordering(A, key)
<1>1. DOMAIN c = A /\ \A a, b \in A : c[a][b] = Order(key[a], key[b]) BY DEF Ordering
<1> HIDE DEF c
<1>2. \A a \in A : key[a] \in Seq(Int) OBVIOUS
<1>3. ASSUME NEW a \in A, NEW b \in A
      PROVE  /\ c[a][b] \in Int
             /\ c[a][b] = 0 <=> a = b
             /\ c[a][b] < 0 <=> c[b][a] > 0
             /\ c[a][b] < 0 <=> Smaller(key[a], key[b])
  <2> DEFINE s == key[a]
             t == key[b]
  <2>1. s \in Seq(Int) /\ t \in Seq(Int) /\ c[a][b] = Order(s, t) /\ c[b][a] = Order(t, s) /\ (s = t <=> a = b)
    BY <1>1, <1>2
  <2> HIDE DEF s, t
  <2>2. /\ Order(s, t) \in {-1, 0, 1} /\ (Order(s, t) < 0 <=> Smaller(s, t)) /\ (Order(s, t) = 0 <=> s = t)
    BY <2>1, OrderIs
  <2>3. Order(t, s) > 0 <=> Smaller(s, t) BY <2>1, OrderIs
  <2> QED BY <2>1, <2>2, <2>3 DEF s, t
<1>4. ASSUME NEW a \in A, NEW b \in A, NEW d \in A, c[a][b] < 0, c[b][d] < 0 PROVE c[a][d] < 0
  <2>1. Smaller(key[a], key[b]) /\ Smaller(key[b], key[d]) BY <1>3, <1>4
  <2>2. Smaller(key[a], key[d]) BY <2>1, <1>2, SmallerTransitive
  <2> QED BY <2>2, <1>3
<1>5. /\ \A a, b \in A : c[a][b] \in Int
      /\ \A a, b \in A : c[a][b] = 0 <=> a = b
      /\ \A a, b \in A : c[a][b] < 0 <=> c[b][a] > 0
  BY <1>3
<1>6. \A a, b, d \in A : c[a][b] < 0 /\ c[b][d] < 0 => c[a][d] < 0 BY <1>4
<1>7. IsOrder(c)
  <2> DEFINE R == DOMAIN c
  <2>1. R = A BY <1>1
  <2> QED BY <2>1, <1>5, <1>6, Zenon DEF IsOrder
<1> QED BY <1>1, <1>7 DEF c

-----------------------------------------------------------------------------
(* The files.                                                               *)

Sids(A) == {<<a, "key">> : a \in A} \union {<<a, "value">> : a \in A}

(* The records A, with the keys k and the values v.                          *)
Description(d, A, k, v) ==
    /\ A \subseteq RecordRID /\ k \in [A -> Key] /\ v \in [A -> Value]
    /\ \A a, b \in A : k[a] = k[b] => a = b
    /\ d = [tree |-> d.tree, records |-> d.records, strings |-> d.strings]
    /\ d.records = [a \in A |-> [key |-> <<a, "key">>, value |-> <<a, "value">>]]
    /\ d.strings = [x \in Sids(A) |-> d.strings[x]]
    /\ \A a \in A : d.strings[<<a, "key">>] = k[a] /\ d.strings[<<a, "value">>] = v[a]
    /\ Sound(d.tree, A, Ordering(A, k))

LEMMA Described ==
  ASSUME NEW d, NEW A, NEW k, NEW v, Description(d, A, k, v)
  PROVE  /\ DOMAIN d.records = A /\ DOMAIN d.strings = Sids(A)
         /\ \A a \in A : /\ d.records[a].key = <<a, "key">> /\ d.records[a].value = <<a, "value">>
                         /\ StoredKey(d, a) = k[a] /\ d.strings[d.records[a].value] = v[a]
                         /\ k[a] \in Key /\ v[a] \in Value /\ k[a] \in Seq(Int) /\ a \in RecordRID
         /\ CompareRow(d) = Ordering(A, k)
         /\ IsOrder(Ordering(A, k)) /\ DOMAIN Ordering(A, k) = A
         /\ NoRid \notin A
<1>1. DOMAIN d.records = A /\ DOMAIN d.strings = Sids(A) BY DEF Description
<1>2. \A a \in A : d.records[a].key = <<a, "key">> /\ d.records[a].value = <<a, "value">> BY DEF Description
<1>3. \A a \in A : StoredKey(d, a) = k[a] /\ d.strings[d.records[a].value] = v[a]
  BY <1>2 DEF Description, StoredKey
<1>4. \A a \in A : k[a] \in Key /\ v[a] \in Value /\ k[a] \in Seq(Int) /\ a \in RecordRID
  BY MyJQLAssumption DEF Description
<1>5. CompareRow(d) = Ordering(A, k) BY <1>1, <1>3 DEF CompareRow, Ordering
<1>6. NoRid \notin A BY MyJQLAssumption DEF Description
<1>7. k \in [A -> Seq(Int)] BY <1>4 DEF Description
<1>8. \A a, b \in A : k[a] = k[b] => a = b BY DEF Description
<1>9. IsOrder(Ordering(A, k)) /\ DOMAIN Ordering(A, k) = A BY <1>6, <1>7, <1>8, OrderingIsOrder
<1> QED BY <1>1, <1>2, <1>3, <1>4, <1>5, <1>6, <1>9

(* A row that has no record yet.                                            *)
LEMMA Newcomer ==
  ASSUME NEW A
  PROVE  \E p : p \notin A /\ p # NoRid
<1> DEFINE B == A \union {NoRid}
           p == {x \in B : x \notin x}
<1>1. p \notin B
  <2> SUFFICES ASSUME p \in B PROVE FALSE OBVIOUS
  <2>1. p \in p <=> p \notin p BY Zenon
  <2> QED BY <2>1
<1> QED BY <1>1

(* The search of a key finds its record, and none where there is none.      *)
LEMMA FindIs ==
  ASSUME KeysApart(Key), NEW d, NEW A, NEW k, NEW v, Description(d, A, k, v), NEW key \in Key
  PROVE  /\ (\E a \in A : k[a] = key) => Find(d, key) \in A /\ k[Find(d, key)] = key
         /\ (\A a \in A : k[a] # key) => Find(d, key) = NoRid
<1> DEFINE sign == [rid \in DOMAIN d.records |-> ComparePtr(key, StoredKey(d, rid))]
<1>1. /\ DOMAIN d.records = A /\ \A a \in A : StoredKey(d, a) = k[a] /\ k[a] \in Key /\ k[a] \in Seq(Int)
      /\ NoRid \notin A
  BY Described
<1>2. Find(d, key) = Search(d.tree, sign) BY DEF Find
<1>3. \A a \in A : sign[a] = Order(key, k[a]) BY <1>1, MyJQLAssumption, ComparePtrIsOrder
<1> HIDE DEF sign
<1>4. key \in Seq(Int) BY MyJQLAssumption
<1>5. \E p : (p \in A /\ k[p] = key) \/ (p \notin A /\ p # NoRid /\ \A a \in A : k[a] # key)
  <2>1. CASE \E a \in A : k[a] = key BY <2>1
  <2>2. CASE \A a \in A : k[a] # key BY <2>2, Newcomer
  <2> QED BY <2>1, <2>2
<1>6. PICK p : (p \in A /\ k[p] = key) \/ (p \notin A /\ p # NoRid /\ \A a \in A : k[a] # key) BY <1>5
<1> DEFINE B == A \union {p}
           g == [b \in B |-> IF b = p THEN key ELSE k[b]]
           c == Ordering(B, g)
<1>7. IsOrder(c) /\ DOMAIN c = B
  <2>1. NoRid \notin B BY <1>1, <1>6
  <2>2. g \in [B -> Seq(Int)] BY <1>1, <1>4
  <2>3. ASSUME NEW a \in B, NEW b \in B, g[a] = g[b] PROVE a = b
    <3>1. \A x, y \in A : k[x] = k[y] => x = y BY DEF Description
    <3> QED BY <3>1, <2>3, <1>6
  <2> HIDE DEF B, g
  <2> QED BY <2>1, <2>2, <2>3, OrderingIsOrder
<1>8. \A a \in A : g[a] = k[a] BY <1>6
<1>9. p \in B /\ g[p] = key /\ A \subseteq B OBVIOUS
<1>10. \A a, b \in B : c[a][b] = Order(g[a], g[b])
  <2> HIDE DEF B, g
  <2> QED BY DEF Ordering
<1> HIDE DEF B, g, c
<1>11. Sound(d.tree, A, c)
  <2> DEFINE e == Ordering(A, k)
  <2>1. Sound(d.tree, A, e) BY DEF Description
  <2>2. \A a, b \in A : e[a][b] = Order(k[a], k[b]) BY DEF Ordering
  <2> HIDE DEF e
  <2>3. \A a, b \in A : c[a][b] = e[a][b] BY <2>2, <1>8, <1>9, <1>10
  <2>4. \A a, b \in A : e[a][b] < 0 <=> c[a][b] < 0 BY <2>3
  <2>5. A \subseteq DOMAIN c BY <1>7, <1>9
  <2> QED BY <2>1, <2>4, <2>5, SoundUnder
<1>12. Agree(d.tree, sign, c[p])
  <2>1. \A a \in DOMAIN d.tree.node : \A i \in 1 .. Len(d.tree.node[a].row) : d.tree.node[a].row[i] \in A
    BY <1>7, <1>11, SoundRows
  <2>2. \A a \in A : sign[a] = c[p][a] BY <1>3, <1>8, <1>9, <1>10
  <2> QED BY <2>1, <2>2 DEF Agree, SignsAgree
<1>13. Search(d.tree, sign) = IF p \in A THEN p ELSE NoRid
  <2>1. p \in DOMAIN c BY <1>7, <1>9
  <2> DEFINE t == d.tree
  <2>2. Sound(t, A, c) /\ Agree(t, sign, c[p]) BY <1>11, <1>12
  <2> HIDE DEF t
  <2>3. Search(t, sign) = IF p \in A THEN p ELSE NoRid BY <2>1, <2>2, <1>7, SearchIs
  <2> QED BY <2>3 DEF t
<1>14. CASE p \in A BY <1>2, <1>6, <1>13, <1>14
<1>15. CASE p \notin A BY <1>2, <1>6, <1>13, <1>15
<1> QED BY <1>14, <1>15

Minus(f, a) == [x \in DOMAIN f \ {a} |-> f[x]]
Plus(f, a, y) == [x \in DOMAIN f \union {a} |-> IF x = a THEN y ELSE f[x]]

(* A record out of the index and the tables.                                *)
LEMMA ErasedIs ==
  ASSUME NEW d, NEW A, NEW k, NEW v, Description(d, A, k, v), NEW rid \in A
  PROVE  Description(Erased(d, rid), A \ {rid}, Minus(k, rid), Minus(v, rid))
<1> DEFINE e == Erased(d, rid)
           B == A \ {rid}
           m == Minus(k, rid)
           w == Minus(v, rid)
<1>1. /\ e.tree = Delete(d.tree, CompareRow(d), rid)
      /\ e.records = Without(d.records, {rid})
      /\ e.strings = Without(d.strings, {d.records[rid].key, d.records[rid].value})
      /\ e = [tree |-> e.tree, records |-> e.records, strings |-> e.strings]
  BY DEF Erased
<1> HIDE DEF e
<1>2. DOMAIN k = A /\ DOMAIN v = A /\ A \subseteq RecordRID BY DEF Description
<1>3. m \in [B -> Key] /\ w \in [B -> Value] BY <1>2 DEF Minus, Description
<1>4. \A a \in B : m[a] = k[a] /\ w[a] = v[a] BY <1>2 DEF Minus
<1> HIDE DEF m, w
<1>5. \A a, b \in B : m[a] = m[b] => a = b BY <1>4 DEF Description
<1>6. e.records = [a \in B |-> [key |-> <<a, "key">>, value |-> <<a, "value">>]]
  BY <1>1 DEF Description, Without
<1>7. /\ d.records[rid].key = <<rid, "key">> /\ d.records[rid].value = <<rid, "value">>
      /\ DOMAIN d.strings = Sids(A)
      /\ CompareRow(d) = Ordering(A, k) /\ IsOrder(Ordering(A, k)) /\ DOMAIN Ordering(A, k) = A
  BY Described
<1>8. Sids(A) \ {<<rid, "key">>, <<rid, "value">>} = Sids(B)
  <2>1. \A A2 : \A x : x \in Sids(A2) <=> \E a \in A2 : x = <<a, "key">> \/ x = <<a, "value">>
    <3> SUFFICES ASSUME NEW A2, NEW x PROVE x \in Sids(A2) <=> \E a \in A2 : x = <<a, "key">> \/ x = <<a, "value">>
      OBVIOUS
    <3>1. x \in Sids(A2) <=> (\E a \in A2 : x = <<a, "key">>) \/ (\E a \in A2 : x = <<a, "value">>) BY DEF Sids
    <3> QED BY <3>1
  <2>2. ASSUME NEW x PROVE x \in Sids(A) \ {<<rid, "key">>, <<rid, "value">>} <=> x \in Sids(B)
    <3>1. ASSUME x \in Sids(B) PROVE x \in Sids(A) /\ x # <<rid, "key">> /\ x # <<rid, "value">>
      <4>1. PICK a \in B : x = <<a, "key">> \/ x = <<a, "value">> BY <2>1, <3>1
      <4>2. a \in A /\ a # rid OBVIOUS
      <4>3. x \in Sids(A) BY <4>1, <4>2, <2>1
      <4> QED BY <4>1, <4>2, <4>3
    <3>2. ASSUME x \in Sids(A), x # <<rid, "key">>, x # <<rid, "value">> PROVE x \in Sids(B)
      <4>1. PICK a \in A : x = <<a, "key">> \/ x = <<a, "value">> BY <2>1, <3>2
      <4>2. a # rid BY <4>1, <3>2
      <4> QED BY <4>1, <4>2, <2>1
    <3> QED BY <3>1, <3>2
  <2> QED BY <2>2
<1>9. e.strings = [x \in Sids(B) |-> d.strings[x]] BY <1>1, <1>7, <1>8 DEF Without
<1>10. \A a \in B : <<a, "key">> \in Sids(B) /\ <<a, "value">> \in Sids(B) BY DEF Sids
<1>11. e.strings = [x \in Sids(B) |-> e.strings[x]] BY <1>9
<1>12. \A a \in B : e.strings[<<a, "key">>] = m[a] /\ e.strings[<<a, "value">>] = w[a]
  <2>1. \A a \in B : d.strings[<<a, "key">>] = k[a] /\ d.strings[<<a, "value">>] = v[a] BY DEF Description
  <2>2. \A x \in Sids(B) : e.strings[x] = d.strings[x] BY <1>9
  <2> QED BY <2>1, <2>2, <1>4, <1>10
<1>13. Sound(e.tree, B, Ordering(B, m))
  <2> DEFINE c == Ordering(A, k)
             f == Ordering(B, m)
             t == d.tree
             u == e.tree
  <2>1. Sound(t, A, c) /\ IsOrder(c) /\ DOMAIN c = A BY <1>7 DEF Description
  <2>2. u = Delete(t, c, rid) BY <1>1, <1>7
  <2>3. \A a, b \in A : c[a][b] = Order(k[a], k[b]) BY DEF Ordering
  <2>4. DOMAIN f = B /\ \A a, b \in B : f[a][b] = Order(m[a], m[b]) BY DEF Ordering
  <2> HIDE DEF c, f, t, u
  <2>5. Sound(u, A \ {rid}, c) BY <2>1, <2>2, DeleteGood
  <2>6. \A a, b \in B : c[a][b] < 0 <=> f[a][b] < 0 BY <2>3, <2>4, <1>4
  <2>7. B \subseteq DOMAIN f BY <2>4
  <2>8. Sound(u, B, f)
    <3>1. Sound(u, B, c) BY <2>5
    <3> HIDE DEF B
    <3> QED BY <3>1, <2>6, <2>7, SoundUnder
  <2> QED BY <2>8 DEF u, f
<1> QED BY <1>1, <1>2, <1>3, <1>5, <1>6, <1>11, <1>12, <1>13 DEF Description, e, m, w

(* A record into the tables and the index.                                  *)
LEMMA WrittenIs ==
  ASSUME NEW d, NEW A, NEW k, NEW v, Description(d, A, k, v), NEW rid \in RecordRID \ A,
         NEW key \in Key, NEW value \in Value, \A a \in A : k[a] # key
  PROVE  Description(Written(d, rid, key, value), A \union {rid}, Plus(k, rid, key), Plus(v, rid, value))
<1> DEFINE recs == [x \in DOMAIN d.records \union {rid} |->
                       IF x = rid THEN [key |-> <<rid, "key">>, value |-> <<rid, "value">>] ELSE d.records[x]]
           strs == [x \in DOMAIN d.strings \union {<<rid, "key">>, <<rid, "value">>} |->
                       CASE x = <<rid, "key">>   -> key
                         [] x = <<rid, "value">> -> value
                         [] OTHER                -> d.strings[x]]
           new == [d EXCEPT !.records = recs, !.strings = strs]
           e == Written(d, rid, key, value)
           B == A \union {rid}
           m == Plus(k, rid, key)
           w == Plus(v, rid, value)
<1>1. e = [new EXCEPT !.tree = Insert(@, CompareRow(new), rid)] BY DEF Written
<1>2. d = [tree |-> d.tree, records |-> d.records, strings |-> d.strings] BY DEF Description
<1>3. /\ new = [tree |-> new.tree, records |-> new.records, strings |-> new.strings]
      /\ new.tree = d.tree /\ new.records = recs /\ new.strings = strs
  <2> HIDE DEF recs, strs
  <2>1. d \in [tree : {d.tree}, records : {d.records}, strings : {d.strings}] BY <1>2
  <2>2. new \in [tree : {d.tree}, records : {recs}, strings : {strs}] BY <2>1
  <2> HIDE DEF new
  <2> QED BY <2>2
<1> HIDE DEF new, e
<1>4. /\ e = [tree |-> e.tree, records |-> e.records, strings |-> e.strings]
      /\ e.tree = Insert(new.tree, CompareRow(new), rid) /\ e.records = new.records /\ e.strings = new.strings
  BY <1>1, <1>3
<1>5. DOMAIN k = A /\ DOMAIN v = A /\ B \subseteq RecordRID BY DEF Description
<1>6. m \in [B -> Key] /\ w \in [B -> Value]
  <2>1. k \in [A -> Key] /\ v \in [A -> Value] BY DEF Description
  <2> QED BY <2>1 DEF Plus
<1>7. (\A a \in A : m[a] = k[a] /\ w[a] = v[a]) /\ m[rid] = key /\ w[rid] = value BY <1>5 DEF Plus
<1> HIDE DEF m, w
<1>8. \A a, b \in B : m[a] = m[b] => a = b BY <1>7 DEF Description
<1>9. /\ DOMAIN d.records = A /\ DOMAIN d.strings = Sids(A)
      /\ IsOrder(Ordering(A, k)) /\ DOMAIN Ordering(A, k) = A /\ NoRid \notin A
  BY Described
<1>10. new.records = [a \in B |-> [key |-> <<a, "key">>, value |-> <<a, "value">>]]
  <2>1. d.records = [a \in A |-> [key |-> <<a, "key">>, value |-> <<a, "value">>]] BY DEF Description
  <2>2. recs = [x \in B |-> IF x = rid THEN [key |-> <<rid, "key">>, value |-> <<rid, "value">>] ELSE d.records[x]]
    BY <1>9
  <2>3. \A x \in A : d.records[x] = [key |-> <<x, "key">>, value |-> <<x, "value">>] BY <2>1
  <2> QED BY <2>2, <2>3, <1>3
<1>11. Sids(A) \union {<<rid, "key">>, <<rid, "value">>} = Sids(B) BY DEF Sids
<1>12. DOMAIN new.strings = Sids(B) BY <1>3, <1>9, <1>11
<1>13. new.strings = [x \in Sids(B) |-> new.strings[x]] BY <1>3, <1>12
<1>14. \A a \in B : new.strings[<<a, "key">>] = m[a] /\ new.strings[<<a, "value">>] = w[a]
  <2>1. \A a \in A : d.strings[<<a, "key">>] = k[a] /\ d.strings[<<a, "value">>] = v[a] BY DEF Description
  <2>2. \A a \in B : <<a, "key">> \in Sids(B) /\ <<a, "value">> \in Sids(B) BY DEF Sids
  <2>3. \A x \in Sids(B) : new.strings[x] = CASE x = <<rid, "key">>   -> key
                                             [] x = <<rid, "value">> -> value
                                             [] OTHER                -> d.strings[x]
    BY <1>3, <1>9, <1>11
  <2>4. new.strings[<<rid, "key">>] = key /\ new.strings[<<rid, "value">>] = value BY <2>2, <2>3
  <2>5. ASSUME NEW a \in A
        PROVE  new.strings[<<a, "key">>] = d.strings[<<a, "key">>] /\ new.strings[<<a, "value">>] = d.strings[<<a, "value">>]
    <3>1. a # rid OBVIOUS
    <3>2. <<a, "key">> \in Sids(B) /\ <<a, "value">> \in Sids(B) BY <2>2
    <3>3. <<a, "key">> # <<rid, "key">> /\ <<a, "key">> # <<rid, "value">> BY <3>1
    <3>4. <<a, "value">> # <<rid, "key">> /\ <<a, "value">> # <<rid, "value">> BY <3>1
    <3> QED BY <2>3, <3>2, <3>3, <3>4
  <2> QED BY <2>1, <2>4, <2>5, <1>7
<1>15. CompareRow(new) = Ordering(B, m)
  <2>1. DOMAIN new.records = B BY <1>10
  <2>2. \A a \in B : StoredKey(new, a) = m[a] BY <1>10, <1>14 DEF StoredKey
  <2> QED BY <2>1, <2>2 DEF CompareRow, Ordering
<1>16. Sound(e.tree, B, Ordering(B, m))
  <2> DEFINE c == Ordering(A, k)
             f == Ordering(B, m)
             t == d.tree
             u == e.tree
  <2>1. Sound(t, A, c) BY DEF Description
  <2>2. u = Insert(t, f, rid) BY <1>3, <1>4, <1>15
  <2>3. \A a, b \in A : c[a][b] = Order(k[a], k[b]) BY DEF Ordering
  <2>4. \A a, b \in B : f[a][b] = Order(m[a], m[b]) BY DEF Ordering
  <2>5. IsOrder(f) /\ DOMAIN f = B
    <3>1. NoRid \notin B BY MyJQLAssumption, <1>9
    <3>2. m \in [B -> Seq(Int)] BY <1>6, MyJQLAssumption
    <3> HIDE DEF B
    <3> QED BY <3>1, <3>2, <1>8, OrderingIsOrder
  <2> HIDE DEF c, f, t, u
  <2>6. \A a, b \in A : c[a][b] < 0 <=> f[a][b] < 0
    <3>1. \A a, b \in A : a \in B /\ b \in B OBVIOUS
    <3> QED BY <3>1, <2>3, <2>4, <1>7
  <2>7. A \subseteq DOMAIN f /\ rid \in DOMAIN f BY <2>5
  <2>8. Sound(t, A, f) BY <2>1, <2>6, <2>7, SoundUnder
  <2>9. Sound(u, A \union {rid}, f) BY <2>2, <2>5, <2>7, <2>8, InsertGood
  <2> QED BY <2>9 DEF u, f
<1> QED
  <2>1. e.strings = [x \in Sids(B) |-> e.strings[x]] BY <1>4, <1>13
  <2> QED BY <2>1, <1>4, <1>5, <1>6, <1>8, <1>10, <1>14, <1>16 DEF Description, e, m, w

-----------------------------------------------------------------------------
(* The inductive invariant: the files hold records with different keys, and  *)
(* the same keys and values as the callers' map.                             *)

Recalls(q, A, k, v) ==
    /\ DOMAIN q = {k[a] : a \in A}
    /\ \A a \in A : q[k[a]] = v[a]

MyJQLIInv == \E A, k, v : Description(db, A, k, v) /\ Recalls(dict, A, k, v)

LEMMA InitAlike == MyJQLInit => MyJQLIInv
<1> SUFFICES ASSUME MyJQLInit PROVE MyJQLIInv OBVIOUS
<1> DEFINE A == {}
           k == [a \in A |-> {}]
           c == Ordering(A, k)
<1>1. A \subseteq RecordRID /\ k \in [A -> Key] /\ k \in [A -> Value] /\ k \in [A -> Seq(Int)] /\ NoRid \notin A OBVIOUS
<1>2. /\ db = [tree |-> InitTree, records |-> db.records, strings |-> db.strings]
      /\ db.tree = InitTree /\ db.records = [x \in {} |-> <<>>] /\ db.strings = [x \in {} |-> <<>>]
      /\ DOMAIN dict = {}
  BY DEF MyJQLInit
<1>3. Sids(A) = {} BY DEF Sids
<1>4. IsOrder(c)
  <2> HIDE DEF A, k
  <2>1. \A a, b \in A : k[a] = k[b] => a = b BY DEF A
  <2> QED BY <2>1, <1>1, OrderingIsOrder
<1>5. Sound(InitTree, A, c)
  <2> HIDE DEF c
  <2> QED BY <1>4, InitSound
<1>6. db.records = [a \in A |-> [key |-> <<a, "key">>, value |-> <<a, "value">>]] BY <1>2
<1>7. db.strings = [x \in Sids(A) |-> db.strings[x]] BY <1>2, <1>3
<1>8. Description(db, A, k, k) BY <1>1, <1>2, <1>5, <1>6, <1>7 DEF Description
<1>9. Recalls(dict, A, k, k) BY <1>2 DEF Recalls
<1> QED BY <1>8, <1>9 DEF MyJQLIInv

(* What is left of the files and of the map without a key.                   *)
LEMMA KeptIs ==
  ASSUME KeysApart(Key), NEW d, NEW q, NEW A, NEW k, NEW v, Description(d, A, k, v), Recalls(q, A, k, v),
         NEW key \in Key, NEW rid, rid = Find(d, key), NEW kept, kept = IF rid = NoRid THEN d ELSE Erased(d, rid)
  PROVE  \E B, m, w : /\ Description(kept, B, m, w)
                      /\ Recalls(Without(q, {key}), B, m, w)
                      /\ \A b \in B : m[b] # key
<1>1. NoRid \notin A BY Described
<1>2. DOMAIN Without(q, {key}) = DOMAIN q \ {key} /\ \A x \in DOMAIN q \ {key} : Without(q, {key})[x] = q[x]
  BY DEF Without
<1>3. CASE \A a \in A : k[a] # key
  <2>1. kept = d BY <1>3, FindIs
  <2>2. Recalls(Without(q, {key}), A, k, v) BY <1>2, <1>3 DEF Recalls
  <2> QED BY <2>1, <2>2, <1>3
<1>4. CASE \E a \in A : k[a] = key
  <2>1. rid \in A /\ k[rid] = key BY <1>4, FindIs
  <2>2. kept = Erased(d, rid) BY <2>1, <1>1
  <2> DEFINE B == A \ {rid}
             m == Minus(k, rid)
             w == Minus(v, rid)
  <2>3. Description(kept, B, m, w) BY <2>1, <2>2, ErasedIs
  <2>4. \A b \in B : m[b] = k[b] /\ w[b] = v[b] BY DEF Minus, Description
  <2>5. \A b \in B : k[b] # key BY <2>1 DEF Description
  <2>6. \A b \in B : m[b] # key BY <2>4, <2>5
  <2>7. Recalls(Without(q, {key}), B, m, w)
    <3>1. DOMAIN q = {k[a] : a \in A} /\ \A a \in A : q[k[a]] = v[a] BY DEF Recalls
    <3>2. {m[b] : b \in B} = {k[b] : b \in B} BY <2>4
    <3>3. {k[b] : b \in B} = DOMAIN q \ {key} BY <3>1, <2>1, <2>5
    <3>4. \A b \in B : Without(q, {key})[m[b]] = w[b]
      <4> SUFFICES ASSUME NEW b \in B PROVE Without(q, {key})[m[b]] = w[b] OBVIOUS
      <4>1. m[b] = k[b] /\ w[b] = v[b] /\ k[b] \in DOMAIN q \ {key} BY <2>4, <3>3
      <4> QED BY <4>1, <3>1, <1>2
    <3> HIDE DEF B, m, w
    <3> QED BY <3>2, <3>3, <3>4, <1>2 DEF Recalls
  <2> QED BY <2>3, <2>6, <2>7
<1> QED BY <1>3, <1>4

(* myjql_set and myjql_del keep the files and the map alike.                 *)
THEOREM Agreement ==
  ASSUME KeysApart(Key)
  PROVE  MyJQLSpec => []MyJQLIInv
<1>1. MyJQLIInv /\ [MyJQLNext]_MyJQLVars => MyJQLIInv'
  <2> SUFFICES ASSUME MyJQLIInv, [MyJQLNext]_MyJQLVars PROVE MyJQLIInv' OBVIOUS
  <2>1. PICK A, k, v : Description(db, A, k, v) /\ Recalls(dict, A, k, v) BY DEF MyJQLIInv
  <2>2. ASSUME NEW key \in Key, NEW value \in Value, MyJQLSet(key, value) PROVE MyJQLIInv'
    <3> DEFINE rid == Find(db, key)
               kept == IF rid = NoRid THEN db ELSE Erased(db, rid)
    <3>1. PICK B, m, w : /\ Description(kept, B, m, w)
                         /\ Recalls(Without(dict, {key}), B, m, w)
                         /\ \A b \in B : m[b] # key
      <4>1. kept = IF rid = NoRid THEN db ELSE Erased(db, rid) OBVIOUS
      <4>2. rid = Find(db, key) OBVIOUS
      <4> HIDE DEF rid, kept
      <4> QED BY <4>1, <4>2, <2>1, KeptIs
    <3>2. PICK new \in RecordRID \ DOMAIN kept.records : db' = Written(kept, new, key, value)
      BY <2>2 DEF MyJQLSet
    <3>3. dict' = [x \in DOMAIN dict \union {key} |-> IF x = key THEN value ELSE dict[x]]
      BY <2>2 DEF MyJQLSet
    <3> HIDE DEF kept
    <3>4. DOMAIN kept.records = B BY <3>1, Described
    <3> DEFINE C == B \union {new}
               n == Plus(m, new, key)
               y == Plus(w, new, value)
    <3>5. Description(db', C, n, y)
      <4>1. new \in RecordRID \ B BY <3>2, <3>4
      <4> QED BY <4>1, <3>1, <3>2, WrittenIs
    <3>6. Recalls(dict', C, n, y)
      <4>1. DOMAIN m = B /\ DOMAIN w = B /\ new \notin B BY <3>1, <3>2, <3>4 DEF Description
      <4>2. (\A b \in B : n[b] = m[b] /\ y[b] = w[b]) /\ n[new] = key /\ y[new] = value BY <4>1 DEF Plus
      <4>3. DOMAIN dict \ {key} = {m[b] : b \in B} /\ \A b \in B : Without(dict, {key})[m[b]] = w[b]
        BY <3>1 DEF Recalls, Without
      <4>4. \A x \in DOMAIN dict \ {key} : Without(dict, {key})[x] = dict[x] BY DEF Without
      <4> HIDE DEF n, y
      <4>5. {n[b] : b \in C} = {m[b] : b \in B} \union {key} BY <4>2
      <4>6. DOMAIN dict' = {n[b] : b \in C} BY <3>3, <4>3, <4>5
      <4>7. \A b \in B : dict'[n[b]] = y[b]
        <5> SUFFICES ASSUME NEW b \in B PROVE dict'[n[b]] = y[b] OBVIOUS
        <5>1. n[b] = m[b] /\ y[b] = w[b] /\ m[b] # key /\ m[b] \in DOMAIN dict \ {key} BY <3>1, <4>2, <4>3
        <5>2. dict[m[b]] = w[b] BY <5>1, <4>3, <4>4
        <5> QED BY <5>1, <5>2, <3>3
      <4>8. dict'[n[new]] = y[new] BY <3>3, <4>2
      <4> QED BY <4>6, <4>7, <4>8 DEF Recalls
    <3> QED BY <3>5, <3>6 DEF MyJQLIInv
  <2>3. ASSUME NEW key \in Key, MyJQLDel(key) PROVE MyJQLIInv'
    <3> DEFINE rid == Find(db, key)
               kept == IF rid = NoRid THEN db ELSE Erased(db, rid)
    <3>1. db' = kept /\ dict' = Without(dict, {key}) BY <2>3 DEF MyJQLDel
    <3>2. PICK B, m, w : Description(kept, B, m, w) /\ Recalls(Without(dict, {key}), B, m, w)
      <4>1. kept = IF rid = NoRid THEN db ELSE Erased(db, rid) OBVIOUS
      <4>2. rid = Find(db, key) OBVIOUS
      <4> HIDE DEF rid, kept
      <4> QED BY <4>1, <4>2, <2>1, KeptIs
    <3> HIDE DEF kept
    <3> QED BY <3>1, <3>2 DEF MyJQLIInv
  <2>4. CASE UNCHANGED MyJQLVars BY <2>1, <2>4 DEF MyJQLVars, MyJQLIInv
  <2> QED BY <2>2, <2>3, <2>4 DEF MyJQLNext
<1> QED BY <1>1, InitAlike, PTL DEF MyJQLSpec

(* Tables hold keys and values, and nodes fit their pages.                   *)
THEOREM MyJQLTypeCorrect ==
  ASSUME KeysApart(Key)
  PROVE  MyJQLSpec => []MyJQLTypeOK
<1>1. MyJQLIInv => MyJQLTypeOK
  <2> SUFFICES ASSUME MyJQLIInv PROVE MyJQLTypeOK OBVIOUS
  <2>1. PICK A, k, v : Description(db, A, k, v) BY DEF MyJQLIInv
  <2>2. /\ DOMAIN db.records = A
        /\ \A a \in A : /\ StoredKey(db, a) = k[a] /\ db.strings[db.records[a].value] = v[a]
                        /\ k[a] \in Key /\ v[a] \in Value /\ a \in RecordRID
        /\ IsOrder(Ordering(A, k))
    BY <2>1, Described
  <2>3. \A a \in DOMAIN db.tree.node : Size(db.tree, a) <= 2 * DEGREE
    <3> DEFINE c == Ordering(A, k)
               t == db.tree
    <3>1. Sound(t, A, c) /\ IsOrder(c) BY <2>1, <2>2 DEF Description
    <3> HIDE DEF c, t
    <3>2. \A a \in DOMAIN t.node : Size(t, a) <= 2 * DEGREE BY <3>1, SoundRows
    <3> QED BY <3>2 DEF t
  <2> QED BY <2>2, <2>3 DEF MyJQLTypeOK
<1> QED BY <1>1, Agreement, PTL

(* myjql_get answers what was last set and not deleted.                      *)
THEOREM GetCorrect ==
  ASSUME KeysApart(Key)
  PROVE  MyJQLSpec => []GetAnswers
<1>1. MyJQLIInv => GetAnswers
  <2> SUFFICES ASSUME MyJQLIInv, NEW key \in Key
               PROVE  Get(db, key) = IF key \in DOMAIN dict THEN dict[key] ELSE Missing
    BY DEF GetAnswers
  <2>1. PICK A, k, v : Description(db, A, k, v) /\ Recalls(dict, A, k, v) BY DEF MyJQLIInv
  <2>2. /\ \A a \in A : db.strings[db.records[a].value] = v[a]
        /\ NoRid \notin A
    BY <2>1, Described
  <2>3. DOMAIN dict = {k[a] : a \in A} /\ \A a \in A : dict[k[a]] = v[a] BY <2>1 DEF Recalls
  <2> DEFINE rid == Find(db, key)
  <2>4. Get(db, key) = IF rid = NoRid THEN Missing ELSE db.strings[db.records[rid].value] BY DEF Get
  <2>5. /\ (\E a \in A : k[a] = key) => rid \in A /\ k[rid] = key
        /\ (\A a \in A : k[a] # key) => rid = NoRid
    BY <2>1, FindIs
  <2> HIDE DEF rid
  <2>6. CASE \E a \in A : k[a] = key
    <3>1. rid \in A /\ k[rid] = key /\ rid # NoRid BY <2>2, <2>5, <2>6
    <3>2. key \in DOMAIN dict /\ dict[key] = v[rid] BY <2>3, <3>1
    <3> QED BY <2>2, <2>4, <3>1, <3>2
  <2>7. CASE \A a \in A : k[a] # key
    <3>1. key \notin DOMAIN dict BY <2>3, <2>7
    <3> QED BY <2>4, <2>5, <2>7, <3>1
  <2> QED BY <2>6, <2>7
<1> QED BY <1>1, Agreement, PTL

(* Every row of the index names a live record.                               *)
THEOREM RowsLive ==
  ASSUME KeysApart(Key)
  PROVE  MyJQLSpec => []RowsAlive
<1>1. MyJQLIInv => RowsAlive
  <2> SUFFICES ASSUME MyJQLIInv PROVE RowsAlive OBVIOUS
  <2>1. PICK A, k, v : Description(db, A, k, v) BY DEF MyJQLIInv
  <2>2. DOMAIN db.records = A /\ IsOrder(Ordering(A, k)) BY <2>1, Described
  <2>3. \A a \in DOMAIN db.tree.node : Range(db.tree.node[a].row) \subseteq A
    <3> DEFINE c == Ordering(A, k)
               t == db.tree
    <3>1. Sound(t, A, c) /\ IsOrder(c) BY <2>1, <2>2 DEF Description
    <3> HIDE DEF c, t
    <3>2. \A a \in DOMAIN t.node : Range(t.node[a].row) \subseteq A BY <3>1, SoundRows
    <3> QED BY <3>2 DEF t
  <2> QED BY <2>2, <2>3 DEF RowsAlive, Rows
<1> QED BY <1>1, Agreement, PTL

(* Two strings for each record, and no others.                               *)
LEMMA TwoEach ==
  ASSUME NEW A, IsFiniteSet(A)
  PROVE  Cardinality(Sids(A)) = 2 * Cardinality(A)
<1> DEFINE P == {<<a, "key">> : a \in A}
           Q == {<<a, "value">> : a \in A}
           f == [a \in A |-> <<a, "key">>]
           g == [a \in A |-> <<a, "value">>]
<1>1. f \in Bijection(A, P) BY Fun_IsBij, Zenon
<1>2. g \in Bijection(A, Q) BY Fun_IsBij, Zenon
<1>3. IsFiniteSet(P) /\ IsFiniteSet(Q) /\ Cardinality(P) = Cardinality(A) /\ Cardinality(Q) = Cardinality(A)
  <2> HIDE DEF P, Q, f, g
  <2>1. ExistsBijection(A, P) /\ ExistsBijection(A, Q) BY <1>1, <1>2 DEF ExistsBijection
  <2>2. IsFiniteSet(P) /\ Cardinality(P) = Cardinality(A) BY <2>1, FS_Bijection
  <2>3. IsFiniteSet(Q) /\ Cardinality(Q) = Cardinality(A) BY <2>1, FS_Bijection
  <2> QED BY <2>2, <2>3
<1>4. P \intersect Q = {}
  <2> SUFFICES ASSUME NEW x, x \in P, x \in Q PROVE FALSE OBVIOUS
  <2>1. PICK a \in A : x = <<a, "key">> OBVIOUS
  <2>2. PICK b \in A : x = <<b, "value">> OBVIOUS
  <2> QED BY <2>1, <2>2
<1>5. Cardinality(P \intersect Q) = 0 BY <1>4, FS_EmptySet
<1>6. Cardinality(A) \in Nat BY FS_CardinalityType
<1>7. Cardinality(P \union Q) = Cardinality(P) + Cardinality(Q) - Cardinality(P \intersect Q)
  <2> HIDE DEF P, Q
  <2> QED BY <1>3, FS_Union
<1>8. Sids(A) = P \union Q BY DEF Sids
<1> HIDE DEF P, Q
<1> QED BY <1>3, <1>5, <1>6, <1>7, <1>8

(* A record is in a leaf, and a string belongs to a record.                  *)
THEOREM NothingLeaks ==
  ASSUME KeysApart(Key)
  PROVE  MyJQLSpec => []NothingLeaked
<1>1. MyJQLIInv => NothingLeaked
  <2> SUFFICES ASSUME MyJQLIInv PROVE NothingLeaked OBVIOUS
  <2>1. PICK A, k, v : Description(db, A, k, v) BY DEF MyJQLIInv
  <2>2. /\ DOMAIN db.records = A /\ DOMAIN db.strings = Sids(A) /\ IsOrder(Ordering(A, k))
        /\ \A a \in A : db.records[a].key = <<a, "key">> /\ db.records[a].value = <<a, "value">> /\ a \in RecordRID
    BY <2>1, Described
  <2>3. LeafRows = A
    <3> DEFINE c == Ordering(A, k)
               t == db.tree
    <3>1. Sound(t, A, c) /\ IsOrder(c) BY <2>1, <2>2 DEF Description
    <3> HIDE DEF c, t
    <3>2. UNION {Range(x.row) : x \in {y \in Range(t.node) : Leaf(y)}} = A BY <3>1, SoundRows
    <3> QED BY <3>2 DEF t, LeafRows
  <2>4. DOMAIN db.strings = UNION {{db.records[r].key, db.records[r].value} : r \in DOMAIN db.records}
    <3>1. \A x : x \in Sids(A) <=> \E a \in A : x \in {db.records[a].key, db.records[a].value}
      <4> SUFFICES ASSUME NEW x PROVE x \in Sids(A) <=> \E a \in A : x \in {db.records[a].key, db.records[a].value}
        OBVIOUS
      <4>1. x \in Sids(A) <=> (\E a \in A : x = <<a, "key">>) \/ (\E a \in A : x = <<a, "value">>) BY DEF Sids
      <4> QED BY <4>1, <2>2
    <3> QED BY <3>1, <2>2
  <2>5. IsFiniteSet(A)
    <3>1. A \subseteq RecordRID BY <2>2
    <3> QED BY <3>1, MyJQLAssumption, FS_Subset
  <2>6. Cardinality(DOMAIN db.strings) = 2 * Cardinality(DOMAIN db.records) BY <2>2, <2>5, TwoEach
  <2> QED BY <2>2, <2>3, <2>4, <2>6 DEF NothingLeaked
<1> QED BY <1>1, Agreement, PTL
=============================================================================
