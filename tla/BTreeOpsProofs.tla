---------------------------- MODULE BTreeOpsProofs ----------------------------
(***************************************************************************)
(* What the functions of b_tree.c do to a sound tree, for every degree and  *)
(* every order of the rows.                                                 *)
(*                                                                         *)
(* A tree is described by two functions on its nodes that the file does not *)
(* hold: H, the height of a node (1 for a leaf, 0 for a free node), and K,  *)
(* the rows of the leaves below it.  Between the repairs of an insertion or *)
(* a deletion some rows of fathers are out of date: X are their places.     *)
(***************************************************************************)
EXTENDS BTreeOps, SequenceTheorems, WellFoundedInduction, TLAPS

-----------------------------------------------------------------------------
(* Induction over numbers, stated for sets: to show something of every      *)
(* number, collect the numbers it holds of.                                 *)

(* A set of numbers with 0 and with the successor of each is all of them.   *)
LEMMA SetInduction ==
  ASSUME NEW S \in SUBSET Nat, 0 \in S, \A n \in S : n + 1 \in S
  PROVE  S = Nat
<1> SUFFICES ASSUME Nat \ S # {} PROVE FALSE
  OBVIOUS
<1>1. PICK x \in Nat \ S : \A y \in Nat \ S : ~(<<y, x>> \in OpToRel(<, Nat))
  <2>1. Nat \ S \subseteq Nat OBVIOUS
  <2> QED BY <2>1, NatLessThanWellFounded, WFMin, Zenon
<1>2. x # 0 OBVIOUS
<1>3. x - 1 \in Nat /\ x - 1 < x BY <1>2
<1>4. x - 1 \in S BY <1>1, <1>3 DEF OpToRel
<1>5. x - 1 + 1 = x OBVIOUS
<1> QED BY <1>4, <1>5

(* The same from 1 to a bound.                                              *)
LEMMA UpTo ==
  ASSUME NEW N \in Nat, NEW S, 1 \in S,
         \A n \in 1 .. N : n # 1 /\ n - 1 \in S => n \in S
  PROVE  \A n \in 1 .. N : n \in S
<1> DEFINE T == {k \in Nat : k + 1 \in 1 .. N => k + 1 \in S}
<1>1. T = Nat
  <2>1. T \in SUBSET Nat OBVIOUS
  <2>2. 0 \in T OBVIOUS
  <2>3. ASSUME NEW n \in T PROVE n + 1 \in T
    <3> SUFFICES ASSUME n + 2 \in 1 .. N PROVE n + 2 \in S OBVIOUS
    <3>1. n \in Nat /\ n + 1 \in 1 .. N /\ n + 2 # 1 /\ (n + 2) - 1 = n + 1 OBVIOUS
    <3>2. n + 1 \in S BY <3>1
    <3> QED BY <3>1, <3>2
  <2> HIDE DEF T
  <2> QED BY <2>1, <2>2, <2>3, SetInduction
<1>2. ASSUME NEW n \in 1 .. N PROVE n \in S
  <2>1. n - 1 \in Nat /\ (n - 1) + 1 = n OBVIOUS
  <2>2. n - 1 \in T BY <1>1, <2>1
  <2> QED BY <2>1, <2>2
<1> QED BY <1>2

-----------------------------------------------------------------------------
(* Orders of rows.                                                          *)

(* A comparison callback orders the rows it is defined for.                 *)
IsOrder(cmp) ==
    LET R == DOMAIN cmp
    IN  /\ NoRid \notin R
        /\ \A a, b \in R : cmp[a][b] \in Int
        /\ \A a, b \in R : cmp[a][b] = 0 <=> a = b
        /\ \A a, b \in R : cmp[a][b] < 0 <=> cmp[b][a] > 0
        /\ \A a, b, c \in R : cmp[a][b] < 0 /\ cmp[b][c] < 0 => cmp[a][c] < 0

Before(A, B, cmp) == \A a \in A, b \in B : cmp[a][b] < 0

Least(r, A, cmp) == r \in A /\ \A a \in A : a = r \/ cmp[r][a] < 0

-----------------------------------------------------------------------------
(* Sound trees.                                                             *)

Content(R) == [row : Seq(R), child : Seq(Nat)]

Trees(R) == [node : Seq(Content(R)), root : Nat, free : Seq(Nat)]

(* The children of a node of height h are one level below it.               *)
Layer(x, h, H) ==
    IF h = 1 THEN x.child = <<>>
    ELSE /\ Len(x.child) = Len(x.row)
         /\ \A i \in 1 .. Len(x.row) : x.child[i] \in DOMAIN H /\ H[x.child[i]] = h - 1

(* The rows below the i-th child, or the i-th row of a leaf.                *)
Items(x, h, K, i) == IF h = 1 THEN {x.row[i]} ELSE K[x.child[i]]

Keys(x, h, K) == UNION {Items(x, h, K, i) : i \in 1 .. Len(x.row)}

Sorted(x, h, K, cmp) ==
    \A i, k \in 1 .. Len(x.row) : i < k => Before(Items(x, h, K, i), Items(x, h, K, k), cmp)

Fresh(x, h, K, cmp, i) == Least(x.row[i], Items(x, h, K, i), cmp)

(* A node of height h with the rows S below it.                             *)
NodeOK(x, h, S, H, K, cmp) ==
    /\ Layer(x, h, H)
    /\ Sorted(x, h, K, cmp)
    /\ S = Keys(x, h, K)

Typed(t, H, K, R) ==
    /\ t \in Trees(R)
    /\ H \in [DOMAIN t.node -> Nat]
    /\ K \in [DOMAIN t.node -> SUBSET R]

(* The free list holds the nodes of height 0, once, and they are empty.     *)
Freelist(t, H) ==
    /\ \A i \in 1 .. Len(t.free) : t.free[i] \in DOMAIN t.node /\ H[t.free[i]] = 0
    /\ \A i, k \in 1 .. Len(t.free) : t.free[i] = t.free[k] => i = k
    /\ \A a \in DOMAIN t.node : H[a] = 0 =>
          t.node[a] = Empty /\ \E i \in 1 .. Len(t.free) : t.free[i] = a

(* Everything is below the root.                                            *)
Rooted(t, H, K) ==
    /\ t.root \in DOMAIN t.node
    /\ H[t.root] > 0
    /\ \A a \in DOMAIN t.node : H[a] <= H[t.root] /\ K[a] \subseteq K[t.root]

Used(t, H, K, X, cmp) ==
    \A a \in DOMAIN t.node : H[a] > 0 =>
        /\ NodeOK(t.node[a], H[a], K[a], H, K, cmp)
        /\ \A i \in 1 .. Len(t.node[a].row) : <<a, i>> \in X \/ Fresh(t.node[a], H[a], K, cmp, i)

(* Nodes of one height have different rows below them, ...                  *)
Apart(t, H, K) ==
    \A a, b \in DOMAIN t.node : a # b /\ H[a] = H[b] => K[a] \intersect K[b] = {}

(* ... and some, and a father, if they are not the root.                    *)
HasFather(t, H, c) ==
    \E a \in DOMAIN t.node : H[a] = H[c] + 1 /\ \E i \in 1 .. Len(t.node[a].row) : t.node[a].child[i] = c
Kin(t, H, K) ==
    \A c \in DOMAIN t.node : c # t.root /\ H[c] > 0 => K[c] # {} /\ HasFather(t, H, c)

Good(t, H, K, X, cmp) ==
    /\ Typed(t, H, K, DOMAIN cmp)
    /\ Freelist(t, H)
    /\ Rooted(t, H, K)
    /\ Used(t, H, K, X, cmp)
    /\ Apart(t, H, K)
    /\ Kin(t, H, K)

-----------------------------------------------------------------------------
(* Contents of nodes.                                                       *)

(* One after the other.                                                     *)
Cat(x, y) == [row |-> x.row \o y.row, child |-> x.child \o y.child]

AllFresh(x, h, K, cmp) == \A i \in 1 .. Len(x.row) : Fresh(x, h, K, cmp, i)

LEMMA ContentType ==
  ASSUME NEW R, NEW x \in Content(R)
  PROVE  /\ x.row \in Seq(R) /\ x.child \in Seq(Nat)
         /\ Len(x.row) \in Nat /\ Len(x.child) \in Nat
         /\ DOMAIN x.row = 1 .. Len(x.row) /\ DOMAIN x.child = 1 .. Len(x.child)
         /\ x = [row |-> x.row, child |-> x.child]
         /\ \A i \in 1 .. Len(x.row) : x.row[i] \in R
<1>1. x.row \in Seq(R) /\ x.child \in Seq(Nat) /\ x = [row |-> x.row, child |-> x.child] BY DEF Content
<1> QED BY <1>1, LenProperties, ElementOfSeq

(* z is x and y, or what x has from m to n.                                 *)
Glued(z, x, y, h, K) ==
    /\ Len(z.row) = Len(x.row) + Len(y.row)
    /\ \A i \in 1 .. Len(x.row) : z.row[i] = x.row[i] /\ Items(z, h, K, i) = Items(x, h, K, i)
    /\ \A i \in 1 .. Len(y.row) : /\ z.row[Len(x.row) + i] = y.row[i]
                                  /\ Items(z, h, K, Len(x.row) + i) = Items(y, h, K, i)
Sliced(z, x, m, n, h, K) ==
    /\ Len(z.row) = n - m + 1
    /\ \A i \in 1 .. n - m + 1 : /\ m + i - 1 \in 1 .. Len(x.row)
                                 /\ z.row[i] = x.row[m + i - 1]
                                 /\ Items(z, h, K, i) = Items(x, h, K, m + i - 1)

LEMMA CatItems ==
  ASSUME NEW R, NEW x \in Content(R), NEW y \in Content(R), NEW h \in Nat, NEW H, NEW K,
         Layer(x, h, H), Layer(y, h, H)
  PROVE  /\ Cat(x, y) \in Content(R)
         /\ Layer(Cat(x, y), h, H)
         /\ Glued(Cat(x, y), x, y, h, K)
<1> DEFINE z == Cat(x, y)
           m == Len(x.row)
           n == Len(y.row)
<1>0. /\ x.row \in Seq(R) /\ x.child \in Seq(Nat) /\ m \in Nat
      /\ y.row \in Seq(R) /\ y.child \in Seq(Nat) /\ n \in Nat
  BY ContentType
<1>1. z.row = x.row \o y.row /\ z.child = x.child \o y.child /\ z = [row |-> z.row, child |-> z.child]
  BY DEF Cat
<1> HIDE DEF z
<1>2. /\ z.row \in Seq(R) /\ Len(z.row) = m + n
      /\ \A i \in 1 .. m + n : z.row[i] = IF i <= m THEN x.row[i] ELSE y.row[i - m]
  <2>1. /\ x.row \o y.row \in Seq(R) /\ Len(x.row \o y.row) = Len(x.row) + Len(y.row)
        /\ \A i \in 1 .. Len(x.row) + Len(y.row) :
              (x.row \o y.row)[i] = IF i <= Len(x.row) THEN x.row[i] ELSE y.row[i - Len(x.row)]
    BY <1>0, ConcatProperties
  <2> QED BY <1>1, <2>1
<1>3. /\ z.child \in Seq(Nat) /\ Len(z.child) = Len(x.child) + Len(y.child)
      /\ \A i \in 1 .. Len(x.child) + Len(y.child) :
             z.child[i] = IF i <= Len(x.child) THEN x.child[i] ELSE y.child[i - Len(x.child)]
  <2>1. /\ x.child \o y.child \in Seq(Nat) /\ Len(x.child \o y.child) = Len(x.child) + Len(y.child)
        /\ \A i \in 1 .. Len(x.child) + Len(y.child) :
              (x.child \o y.child)[i] = IF i <= Len(x.child) THEN x.child[i] ELSE y.child[i - Len(x.child)]
    BY <1>0, ConcatProperties
  <2> QED BY <1>1, <2>1
<1>4. z \in Content(R) BY <1>1, <1>2, <1>3 DEF Content
<1>5. h # 1 => Len(x.child) = m /\ Len(y.child) = n BY DEF Layer
<1>6. h = 1 => z.child = <<>>
  <2>1. h = 1 => x.child = <<>> /\ y.child = <<>> BY DEF Layer
  <2> QED BY <1>0, <1>1, <2>1, ConcatEmptySeq
<1> HIDE DEF m, n
<1>7. \A i \in 1 .. m : i \in 1 .. m + n /\ i <= m BY <1>0
<1>9. \A i \in 1 .. m : z.row[i] = x.row[i] /\ (h # 1 => z.child[i] = x.child[i])
  BY <1>2, <1>3, <1>5, <1>7
<1>10. \A i \in 1 .. n : z.row[m + i] = y.row[i] /\ (h # 1 => z.child[m + i] = y.child[i])
  <2> SUFFICES ASSUME NEW i \in 1 .. n
               PROVE  z.row[m + i] = y.row[i] /\ (h # 1 => z.child[m + i] = y.child[i])
    OBVIOUS
  <2> DEFINE k == m + i
  <2>1. k \in 1 .. m + n /\ ~(k <= m) /\ k - m = i BY <1>0
  <2> HIDE DEF k
  <2>2. z.row[k] = y.row[i] BY <1>2, <2>1
  <2>3. h # 1 => z.child[k] = y.child[i] BY <1>3, <1>5, <2>1
  <2> QED BY <2>2, <2>3 DEF k
<1>11. Layer(z, h, H)
  <2>1. CASE h = 1 BY <2>1, <1>6 DEF Layer
  <2>2. CASE h # 1
    <3>1. Len(z.child) = Len(z.row) BY <2>2, <1>2, <1>3, <1>5
    <3>2. \A i \in 1 .. m : x.child[i] \in DOMAIN H /\ H[x.child[i]] = h - 1 BY <2>2 DEF Layer, m
    <3>3. \A i \in 1 .. n : y.child[i] \in DOMAIN H /\ H[y.child[i]] = h - 1 BY <2>2 DEF Layer, n
    <3>4. ASSUME NEW i \in 1 .. Len(z.row) PROVE z.child[i] \in DOMAIN H /\ H[z.child[i]] = h - 1
      <4>1. i \in 1 .. m \/ (i - m \in 1 .. n /\ i = m + (i - m)) BY <1>0, <1>2
      <4>2. CASE i \in 1 .. m BY <4>2, <2>2, <1>9, <3>2
      <4>3. CASE i - m \in 1 .. n /\ i = m + (i - m)
        <5> DEFINE k == i - m
        <5>1. k \in 1 .. n /\ i = m + k BY <4>3
        <5> HIDE DEF k
        <5> QED BY <5>1, <2>2, <1>10, <3>3
      <4> QED BY <4>1, <4>2, <4>3
    <3> QED BY <2>2, <3>1, <3>4 DEF Layer
  <2> QED BY <2>1, <2>2
<1>12. \A i \in 1 .. m : Items(z, h, K, i) = Items(x, h, K, i) BY <1>9 DEF Items
<1>13. \A i \in 1 .. n : Items(z, h, K, m + i) = Items(y, h, K, i) BY <1>10 DEF Items
<1>14. Glued(z, x, y, h, K) BY <1>2, <1>9, <1>10, <1>12, <1>13 DEF Glued, m, n
<1> QED BY <1>4, <1>11, <1>14 DEF z

(* A part of a node.                                                        *)
LEMMA PartItems ==
  ASSUME NEW R, NEW x \in Content(R), NEW h \in Nat, NEW H, NEW K, Layer(x, h, H),
         NEW m \in Nat \ {0}, NEW n \in 0 .. Len(x.row), m <= n + 1
  PROVE  /\ Part(x, m, n) \in Content(R)
         /\ Layer(Part(x, m, n), h, H)
         /\ Sliced(Part(x, m, n), x, m, n, h, K)
<1> DEFINE z == Part(x, m, n)
<1>0. x.row \in Seq(R) /\ x.child \in Seq(Nat) /\ Len(x.row) \in Nat /\ n \in Nat
  BY ContentType
<1>1. z.row = SubSeq(x.row, m, n) /\ z.child = (IF x.child = <<>> THEN <<>> ELSE SubSeq(x.child, m, n))
      /\ z = [row |-> z.row, child |-> z.child]
  BY DEF Part, Leaf
<1>2. \A i \in 1 .. n - m + 1 : m + i - 1 \in 1 .. Len(x.row) BY <1>0
<1>3. \A i \in m .. n : i \in 1 .. Len(x.row) BY <1>0
<1>4. /\ z.row \in Seq(R) /\ Len(z.row) = n - m + 1
      /\ \A i \in 1 .. n - m + 1 : z.row[i] = x.row[m + i - 1]
  <2>1. \A i \in m .. n : x.row[i] \in R BY <1>3, ContentType
  <2>2. (IF m <= n THEN n - m + 1 ELSE 0) = n - m + 1 BY <1>0
  <2>3. m \in Int /\ n \in Int BY <1>0
  <2> QED BY <1>1, <2>1, <2>2, <2>3, SubSeqProperties
<1>5. x.child = <<>> => Len(x.child) = 0 BY EmptySeq
<1>6. CASE h = 1
  <2>1. x.child = <<>> BY <1>6 DEF Layer
  <2>2. z.child = <<>> BY <1>1, <2>1
  <2>3. z \in Content(R) BY <1>1, <1>4, <2>2, EmptySeq DEF Content
  <2>4. Layer(z, h, H) BY <1>6, <2>2 DEF Layer
  <2>5. Sliced(z, x, m, n, h, K) BY <1>2, <1>4, <1>6 DEF Items, Sliced
  <2> QED BY <2>3, <2>4, <2>5
<1>7. CASE h # 1
  <2>1. Len(x.child) = Len(x.row)
        /\ \A i \in 1 .. Len(x.row) : x.child[i] \in DOMAIN H /\ H[x.child[i]] = h - 1
    BY <1>7 DEF Layer
  <2>2. /\ z.child \in Seq(Nat) /\ Len(z.child) = n - m + 1
        /\ \A i \in 1 .. n - m + 1 : z.child[i] = x.child[m + i - 1]
    <3>1. CASE x.child = <<>>
      <4>1. z.child = <<>> /\ Len(x.row) = 0 BY <1>1, <1>5, <2>1, <3>1
      <4>2. n - m + 1 = 0 BY <4>1, <1>0
      <4> QED BY <4>1, <4>2, EmptySeq
    <3>2. CASE x.child # <<>>
      <4>1. \A i \in m .. n : x.child[i] \in Nat BY <1>0, <1>3, <2>1, ElementOfSeq
      <4>2. (IF m <= n THEN n - m + 1 ELSE 0) = n - m + 1 BY <1>0
      <4>3. m \in Int /\ n \in Int BY <1>0
      <4> QED BY <1>1, <3>2, <4>1, <4>2, <4>3, SubSeqProperties
    <3> QED BY <3>1, <3>2
  <2>3. z \in Content(R) BY <1>1, <1>4, <2>2 DEF Content
  <2> HIDE DEF z
  <2>4. Layer(z, h, H)
    <3>1. Len(z.child) = Len(z.row) BY <1>4, <2>2
    <3>2. ASSUME NEW i \in 1 .. Len(z.row) PROVE z.child[i] \in DOMAIN H /\ H[z.child[i]] = h - 1
      <4>1. i \in 1 .. n - m + 1 BY <1>4
      <4> DEFINE k == m + i - 1
      <4>2. k \in 1 .. Len(x.row) /\ z.child[i] = x.child[k] BY <1>2, <2>2, <4>1
      <4> HIDE DEF k
      <4> QED BY <2>1, <4>2
    <3> QED BY <1>7, <3>1, <3>2 DEF Layer
  <2>5. \A i \in 1 .. n - m + 1 : Items(z, h, K, i) = Items(x, h, K, m + i - 1)
    BY <1>7, <2>2 DEF Items
  <2>6. Sliced(z, x, m, n, h, K) BY <1>2, <1>4, <2>5 DEF Sliced
  <2> QED BY <2>3, <2>4, <2>6 DEF z
<1> QED BY <1>6, <1>7

(* A position in one of two parts.                                          *)
LEMMA Sides ==
  ASSUME NEW m \in Nat, NEW n \in Nat, NEW i \in 1 .. m + n
  PROVE  i \in 1 .. m \/ \E k \in 1 .. n : i = m + k
<1>1. CASE i <= m BY <1>1
<1>2. CASE ~(i <= m)
  <2>1. i - m \in 1 .. n /\ i = m + (i - m) BY <1>2
  <2> QED BY <2>1
<1> QED BY <1>1, <1>2

(* Two sorted contents, one behind the other.                               *)
LEMMA CatNode ==
  ASSUME NEW R, NEW x \in Content(R), NEW y \in Content(R), NEW h \in Nat,
         NEW H, NEW K, NEW S, NEW T, NEW cmp,
         NodeOK(x, h, S, H, K, cmp), NodeOK(y, h, T, H, K, cmp), Before(S, T, cmp)
  PROVE  /\ Cat(x, y) \in Content(R)
         /\ Glued(Cat(x, y), x, y, h, K)
         /\ NodeOK(Cat(x, y), h, S \union T, H, K, cmp)
         /\ AllFresh(x, h, K, cmp) /\ AllFresh(y, h, K, cmp) => AllFresh(Cat(x, y), h, K, cmp)
<1> DEFINE z == Cat(x, y)
           m == Len(x.row)
           n == Len(y.row)
           I(i) == Items(z, h, K, i)
<1>0. m \in Nat /\ n \in Nat BY ContentType
<1>1. Layer(x, h, H) /\ Layer(y, h, H) BY DEF NodeOK
<1>2. /\ z \in Content(R) /\ Len(z.row) = m + n /\ Layer(z, h, H)
      /\ \A i \in 1 .. m : z.row[i] = x.row[i] /\ I(i) = Items(x, h, K, i)
      /\ \A i \in 1 .. n : z.row[m + i] = y.row[i] /\ I(m + i) = Items(y, h, K, i)
  <2>1. z \in Content(R) /\ Layer(z, h, H) /\ Glued(z, x, y, h, K) BY <1>1, CatItems
  <2> HIDE DEF z
  <2> QED BY <2>1 DEF Glued
<1>2a. Glued(z, x, y, h, K) BY <1>1, CatItems
<1> HIDE DEF z
<1>3. /\ S = UNION {Items(x, h, K, i) : i \in 1 .. m} /\ Sorted(x, h, K, cmp)
      /\ T = UNION {Items(y, h, K, i) : i \in 1 .. n} /\ Sorted(y, h, K, cmp)
  BY DEF NodeOK, Keys
<1>3a. /\ \A i, k \in 1 .. m : i < k => Before(Items(x, h, K, i), Items(x, h, K, k), cmp)
       /\ \A i, k \in 1 .. n : i < k => Before(Items(y, h, K, i), Items(y, h, K, k), cmp)
  BY <1>3 DEF Sorted
<1> HIDE DEF m, n, I
<1>4. Keys(z, h, K) = S \union T
  <2>1. \A i \in 1 .. m : i \in 1 .. m + n BY <1>0
  <2>2. \A i \in 1 .. n : m + i \in 1 .. m + n BY <1>0
  <2>3. Keys(z, h, K) = UNION {I(i) : i \in 1 .. m + n} BY <1>2 DEF Keys, I
  <2>4. ASSUME NEW r \in S \union T PROVE r \in UNION {I(i) : i \in 1 .. m + n}
    <3>1. CASE r \in S
      <4>1. PICK i \in 1 .. m : r \in Items(x, h, K, i) BY <1>3, <3>1
      <4> QED BY <1>2, <2>1, <4>1
    <3>2. CASE r \in T
      <4>1. PICK i \in 1 .. n : r \in Items(y, h, K, i) BY <1>3, <3>2
      <4>2. r \in I(m + i) BY <1>2, <4>1
      <4> QED BY <2>2, <4>2
    <3> QED BY <3>1, <3>2
  <2>5. ASSUME NEW i \in 1 .. m + n PROVE I(i) \subseteq S \union T
    <3>1. CASE i \in 1 .. m BY <1>2, <1>3, <3>1
    <3>2. CASE \E k \in 1 .. n : i = m + k BY <1>2, <1>3, <3>2
    <3> QED BY <1>0, <3>1, <3>2, Sides
  <2> QED BY <2>3, <2>4, <2>5
<1>5. Sorted(z, h, K, cmp)
  <2> SUFFICES ASSUME NEW i \in 1 .. m + n, NEW k \in 1 .. m + n, i < k
               PROVE  Before(I(i), I(k), cmp)
    BY <1>2 DEF Sorted, I
  <2>1. CASE i \in 1 .. m /\ k \in 1 .. m
    <3>1. Before(Items(x, h, K, i), Items(x, h, K, k), cmp) BY <1>3a, <2>1
    <3> QED BY <1>2, <2>1, <3>1
  <2>2. CASE i \in 1 .. m /\ \E j \in 1 .. n : k = m + j
    <3>1. I(i) \subseteq S BY <1>2, <1>3, <2>2
    <3>2. I(k) \subseteq T BY <1>2, <1>3, <2>2
    <3> QED BY <3>1, <3>2 DEF Before
  <2>3. CASE (\E j \in 1 .. n : i = m + j) /\ \E j \in 1 .. n : k = m + j
    <3>1. PICK a \in 1 .. n : i = m + a BY <2>3
    <3>2. PICK b \in 1 .. n : k = m + b BY <2>3
    <3>3. a < b BY <1>0, <3>1, <3>2
    <3>4. Before(Items(y, h, K, a), Items(y, h, K, b), cmp) BY <1>3a, <3>3
    <3> QED BY <1>2, <3>1, <3>2, <3>4
  <2>4. ~(i \notin 1 .. m /\ k \in 1 .. m) BY <1>0
  <2> QED BY <1>0, <2>1, <2>2, <2>3, <2>4, Sides
<1>6. NodeOK(z, h, S \union T, H, K, cmp) BY <1>2, <1>4, <1>5 DEF NodeOK
<1>7. ASSUME AllFresh(x, h, K, cmp), AllFresh(y, h, K, cmp) PROVE AllFresh(z, h, K, cmp)
  <2> SUFFICES ASSUME NEW i \in 1 .. m + n PROVE Least(z.row[i], I(i), cmp)
    BY <1>2 DEF AllFresh, Fresh, I
  <2>0. /\ \A k \in 1 .. m : Least(x.row[k], Items(x, h, K, k), cmp)
        /\ \A k \in 1 .. n : Least(y.row[k], Items(y, h, K, k), cmp)
    BY <1>7 DEF AllFresh, Fresh, m, n
  <2>1. CASE i \in 1 .. m BY <1>2, <2>0, <2>1
  <2>2. CASE \E k \in 1 .. n : i = m + k BY <1>2, <2>0, <2>2
  <2> QED BY <1>0, <2>1, <2>2, Sides
<1> QED BY <1>2, <1>2a, <1>6, <1>7 DEF z

(* A part of a sorted content is sorted, and a later one is behind it.      *)
LEMMA PartNode ==
  ASSUME NEW R, NEW x \in Content(R), NEW h \in Nat,
         NEW H, NEW K, NEW S, NEW cmp, NodeOK(x, h, S, H, K, cmp),
         NEW m \in Nat \ {0}, NEW n \in 0 .. Len(x.row), m <= n + 1
  PROVE  /\ Part(x, m, n) \in Content(R)
         /\ Sliced(Part(x, m, n), x, m, n, h, K)
         /\ NodeOK(Part(x, m, n), h, Keys(Part(x, m, n), h, K), H, K, cmp)
         /\ Keys(Part(x, m, n), h, K) = UNION {Items(x, h, K, i) : i \in m .. n}
         /\ AllFresh(x, h, K, cmp) => AllFresh(Part(x, m, n), h, K, cmp)
<1> DEFINE z == Part(x, m, n)
           I(i) == Items(z, h, K, i)
           l == n - m + 1
<1>0. Len(x.row) \in Nat /\ n \in Nat /\ l \in Nat BY ContentType
<1>1. Layer(x, h, H) BY DEF NodeOK
<1>2. /\ z \in Content(R) /\ Len(z.row) = l /\ Layer(z, h, H)
      /\ \A i \in 1 .. l : /\ m + i - 1 \in 1 .. Len(x.row)
                           /\ z.row[i] = x.row[m + i - 1]
                           /\ I(i) = Items(x, h, K, m + i - 1)
  <2>1. z \in Content(R) /\ Layer(z, h, H) /\ Sliced(z, x, m, n, h, K) BY <1>1, PartItems
  <2> HIDE DEF z
  <2> QED BY <2>1 DEF Sliced
<1>2a. Sliced(z, x, m, n, h, K) BY <1>1, PartItems
<1>3. \A i, k \in 1 .. Len(x.row) : i < k => Before(Items(x, h, K, i), Items(x, h, K, k), cmp)
  BY DEF NodeOK, Sorted
<1> HIDE DEF z
<1>4. Sorted(z, h, K, cmp)
  <2> SUFFICES ASSUME NEW i \in 1 .. l, NEW k \in 1 .. l, i < k
               PROVE  Before(I(i), I(k), cmp)
    BY <1>2 DEF Sorted
  <2> DEFINE a == m + i - 1
             b == m + k - 1
  <2>1. a < b BY <1>0
  <2>2. a \in 1 .. Len(x.row) /\ b \in 1 .. Len(x.row) BY <1>2
  <2>3. I(i) = Items(x, h, K, a) /\ I(k) = Items(x, h, K, b) BY <1>2
  <2> HIDE DEF a, b
  <2> QED BY <1>3, <2>1, <2>2, <2>3
<1>5. Keys(z, h, K) = UNION {Items(x, h, K, i) : i \in m .. n}
  <2>1. \A i \in 1 .. l : m + i - 1 \in m .. n BY <1>0
  <2>2. ASSUME NEW i \in m .. n PROVE \E k \in 1 .. l : i = m + k - 1
    <3>1. i - m + 1 \in 1 .. l /\ i = m + (i - m + 1) - 1 BY <1>0
    <3> QED BY <3>1
  <2>3. Keys(z, h, K) = UNION {I(i) : i \in 1 .. l} BY <1>2 DEF Keys
  <2> HIDE DEF l
  <2>4. ASSUME NEW i \in 1 .. l PROVE I(i) \subseteq UNION {Items(x, h, K, k) : k \in m .. n}
    BY <1>2, <2>1
  <2>5. ASSUME NEW i \in m .. n PROVE Items(x, h, K, i) \subseteq UNION {I(k) : k \in 1 .. l}
    <3>1. PICK k \in 1 .. l : i = m + k - 1 BY <2>2
    <3>2. I(k) = Items(x, h, K, i) BY <1>2, <3>1
    <3> HIDE DEF I
    <3> QED BY <3>2
  <2> HIDE DEF I
  <2> QED BY <2>3, <2>4, <2>5
<1>6. ASSUME AllFresh(x, h, K, cmp) PROVE AllFresh(z, h, K, cmp)
  <2>1. \A i \in 1 .. Len(x.row) : Least(x.row[i], Items(x, h, K, i), cmp) BY <1>6 DEF AllFresh, Fresh
  <2>2. \A i \in 1 .. l : Least(z.row[i], I(i), cmp) BY <1>2, <2>1
  <2> QED BY <1>2, <2>2 DEF AllFresh, Fresh
<1> QED BY <1>2, <1>2a, <1>4, <1>5, <1>6 DEF z, NodeOK

(* A content cut in two.                                                    *)
LEMMA CutNode ==
  ASSUME NEW R, NEW x \in Content(R), NEW h \in Nat,
         NEW H, NEW K, NEW S, NEW cmp, NodeOK(x, h, S, H, K, cmp),
         NEW m \in 0 .. Len(x.row)
  PROVE  /\ S = Keys(Part(x, 1, m), h, K) \union Keys(Part(x, m + 1, Len(x.row)), h, K)
         /\ Before(Keys(Part(x, 1, m), h, K), Keys(Part(x, m + 1, Len(x.row)), h, K), cmp)
<1> DEFINE n == Len(x.row)
           A == UNION {Items(x, h, K, i) : i \in 1 .. m}
           B == UNION {Items(x, h, K, i) : i \in m + 1 .. n}
<1>0. n \in Nat /\ m \in Nat /\ m <= n BY ContentType
<1>1. Keys(Part(x, 1, m), h, K) = A
  <2>1. 1 \in Nat \ {0} /\ 1 <= m + 1 BY <1>0
  <2> QED BY <2>1, PartNode
<1>2. Keys(Part(x, m + 1, n), h, K) = B
  <2>1. m + 1 \in Nat \ {0} /\ m + 1 <= n + 1 /\ n \in 0 .. n BY <1>0
  <2>2. Keys(Part(x, m + 1, Len(x.row)), h, K) = UNION {Items(x, h, K, i) : i \in m + 1 .. Len(x.row)}
    BY <2>1, PartNode
  <2> QED BY <2>2
<1>3. S = UNION {Items(x, h, K, i) : i \in 1 .. n} BY DEF NodeOK, Keys
<1>4. \A i, k \in 1 .. n : i < k => Before(Items(x, h, K, i), Items(x, h, K, k), cmp)
  BY DEF NodeOK, Sorted
<1>5. \A i \in 1 .. n : i \in 1 .. m \/ i \in m + 1 .. n BY <1>0
<1>6. /\ \A i \in 1 .. m : i \in 1 .. n
      /\ \A k \in m + 1 .. n : k \in 1 .. n
      /\ \A i \in 1 .. m, k \in m + 1 .. n : i < k
  BY <1>0
<1> HIDE DEF n
<1>7. S = A \union B BY <1>3, <1>5, <1>6
<1>8. Before(A, B, cmp)
  <2> SUFFICES ASSUME NEW a \in A, NEW b \in B PROVE cmp[a][b] < 0 BY DEF Before
  <2>1. PICK i \in 1 .. m : a \in Items(x, h, K, i) OBVIOUS
  <2>2. PICK k \in m + 1 .. n : b \in Items(x, h, K, k) OBVIOUS
  <2>3. Before(Items(x, h, K, i), Items(x, h, K, k), cmp) BY <1>4, <1>6
  <2> QED BY <2>1, <2>2, <2>3 DEF Before
<1> HIDE DEF A, B
<1> QED BY <1>1, <1>2, <1>7, <1>8 DEF n

-----------------------------------------------------------------------------
(* What follows from soundness.                                             *)

LEMMA BeforeApart ==
  ASSUME NEW cmp, IsOrder(cmp), NEW A \in SUBSET DOMAIN cmp, NEW B \in SUBSET DOMAIN cmp,
         Before(A, B, cmp)
  PROVE  A \intersect B = {}
<1> SUFFICES ASSUME NEW r \in A \intersect B PROVE FALSE OBVIOUS
<1>1. cmp[r][r] < 0 BY DEF Before
<1>2. cmp[r][r] = 0 BY DEF IsOrder
<1> QED BY <1>1, <1>2

(* The first row of a node is the least below it.                           *)
LEMMA FirstLeast ==
  ASSUME NEW x, NEW h, NEW S, NEW H, NEW K, NEW cmp, NodeOK(x, h, S, H, K, cmp),
         Len(x.row) \in Nat \ {0}, Fresh(x, h, K, cmp, 1)
  PROVE  Least(x.row[1], S, cmp)
<1>1. 1 \in 1 .. Len(x.row) OBVIOUS
<1>2. S = UNION {Items(x, h, K, i) : i \in 1 .. Len(x.row)} BY DEF NodeOK, Keys
<1>3. x.row[1] \in Items(x, h, K, 1) /\ \A a \in Items(x, h, K, 1) : a = x.row[1] \/ cmp[x.row[1]][a] < 0
  BY DEF Fresh, Least
<1>4. x.row[1] \in S BY <1>1, <1>2, <1>3
<1>5. ASSUME NEW a \in S PROVE a = x.row[1] \/ cmp[x.row[1]][a] < 0
  <2>1. PICK i \in 1 .. Len(x.row) : a \in Items(x, h, K, i) BY <1>2
  <2>2. CASE i = 1 BY <1>3, <2>1, <2>2
  <2>3. CASE i # 1
    <3>1. 1 < i BY <2>3
    <3>2. Before(Items(x, h, K, 1), Items(x, h, K, i), cmp) BY <1>1, <3>1 DEF NodeOK, Sorted
    <3> QED BY <1>3, <2>1, <3>2 DEF Before
  <2> QED BY <2>2, <2>3
<1> QED BY <1>4, <1>5 DEF Least

(* A node is as it was if its children are.                                 *)
Kept(x, h, H, G, K, J) ==
    h # 1 => \A i \in 1 .. Len(x.row) :
        /\ x.child[i] \in DOMAIN G /\ G[x.child[i]] = H[x.child[i]]
        /\ J[x.child[i]] = K[x.child[i]]

SameItems(x, h, K, J) == \A i \in 1 .. Len(x.row) : Items(x, h, J, i) = Items(x, h, K, i)

LEMMA NodeFrame ==
  ASSUME NEW x, NEW h \in Nat, NEW S, NEW H, NEW K, NEW G, NEW J, NEW cmp,
         NodeOK(x, h, S, H, K, cmp), Kept(x, h, H, G, K, J)
  PROVE  /\ NodeOK(x, h, S, G, J, cmp)
         /\ SameItems(x, h, K, J)
<1>1. \A i \in 1 .. Len(x.row) : Items(x, h, J, i) = Items(x, h, K, i) BY DEF Items, Kept
<1>2. Layer(x, h, H) /\ Sorted(x, h, K, cmp) /\ S = Keys(x, h, K) BY DEF NodeOK
<1>3. Layer(x, h, G) BY <1>2 DEF Layer, Kept
<1>4. Sorted(x, h, J, cmp) BY <1>1, <1>2 DEF Sorted
<1>5. Keys(x, h, J) = Keys(x, h, K)
  <2>1. {Items(x, h, J, i) : i \in 1 .. Len(x.row)} = {Items(x, h, K, i) : i \in 1 .. Len(x.row)}
    BY <1>1
  <2> QED BY <2>1 DEF Keys
<1> QED BY <1>1, <1>2, <1>3, <1>4, <1>5 DEF NodeOK, SameItems

(* A node in use.                                                           *)
LEMMA UsedNode ==
  ASSUME NEW t, NEW H, NEW K, NEW X, NEW cmp, Good(t, H, K, X, cmp),
         NEW a \in DOMAIN t.node, H[a] > 0
  PROVE  /\ t.node[a] \in Content(DOMAIN cmp)
         /\ H[a] \in Nat /\ K[a] \subseteq DOMAIN cmp
         /\ Len(t.node[a].row) \in Nat
         /\ NodeOK(t.node[a], H[a], K[a], H, K, cmp)
         /\ a # t.root => K[a] # {} /\ Len(t.node[a].row) \in Nat \ {0}
         /\ H[a] = 1 => Leaf(t.node[a])
         /\ H[a] > 1 /\ Len(t.node[a].row) > 0 => ~Leaf(t.node[a])
<1>1. t.node \in Seq(Content(DOMAIN cmp)) /\ H[a] \in Nat /\ K[a] \subseteq DOMAIN cmp
  BY DEF Good, Typed, Trees
<1>2. t.node[a] \in Content(DOMAIN cmp)
  <2>1. a \in 1 .. Len(t.node) BY <1>1, LenProperties
  <2> QED BY <1>1, <2>1, ElementOfSeq
<1>3. Len(t.node[a].row) \in Nat BY <1>2, ContentType
<1>4. NodeOK(t.node[a], H[a], K[a], H, K, cmp) BY DEF Good, Used
<1>5. ASSUME a # t.root PROVE K[a] # {} /\ Len(t.node[a].row) \in Nat \ {0}
  <2>1. K[a] # {} BY <1>5 DEF Good, Kin
  <2>2. K[a] = UNION {Items(t.node[a], H[a], K, i) : i \in 1 .. Len(t.node[a].row)}
    BY <1>4 DEF NodeOK, Keys
  <2>3. 1 .. Len(t.node[a].row) # {} BY <2>1, <2>2
  <2> QED BY <1>3, <2>1, <2>3
<1>6. Layer(t.node[a], H[a], H) BY <1>4 DEF NodeOK
<1>7. H[a] = 1 => Leaf(t.node[a]) BY <1>6 DEF Layer, Leaf
<1>8. ASSUME H[a] > 1, Len(t.node[a].row) > 0 PROVE ~Leaf(t.node[a])
  <2>1. Len(t.node[a].child) = Len(t.node[a].row) BY <1>1, <1>6, <1>8 DEF Layer
  <2>2. t.node[a].child # <<>> BY <2>1, <1>8, EmptySeq
  <2> QED BY <2>2 DEF Leaf
<1> QED BY <1>1, <1>2, <1>3, <1>4, <1>5, <1>7, <1>8

(* A child of a node in use.                                                *)
LEMMA ChildNode ==
  ASSUME NEW t, NEW H, NEW K, NEW X, NEW cmp, Good(t, H, K, X, cmp),
         NEW a \in DOMAIN t.node, H[a] > 1, NEW i \in 1 .. Len(t.node[a].row)
  PROVE  /\ t.node[a].child[i] \in DOMAIN t.node
         /\ H[t.node[a].child[i]] = H[a] - 1
         /\ H[t.node[a].child[i]] > 0
         /\ t.node[a].child[i] # t.root
         /\ t.node[a].child[i] # a
         /\ K[t.node[a].child[i]] \subseteq K[a]
         /\ K[t.node[a].child[i]] # {}
         /\ Items(t.node[a], H[a], K, i) = K[t.node[a].child[i]]
         /\ Child(t, a, i) = t.node[a].child[i]
<1> DEFINE x == t.node[a]
           c == t.node[a].child[i]
<1>0. H[a] \in Nat /\ H[a] > 0 BY DEF Good, Typed
<1>1. H[a] \in Nat /\ NodeOK(x, H[a], K[a], H, K, cmp) BY <1>0, UsedNode
<1>2. Layer(x, H[a], H) /\ K[a] = UNION {Items(x, H[a], K, k) : k \in 1 .. Len(x.row)}
  BY <1>1 DEF NodeOK, Keys
<1>3. DOMAIN H = DOMAIN t.node BY DEF Good, Typed
<1>4. c \in DOMAIN t.node /\ H[c] = H[a] - 1 BY <1>1, <1>2, <1>3 DEF Layer
<1>5. H[c] > 0 BY <1>1, <1>4
<1>6. H[t.root] \in Nat /\ H[a] <= H[t.root] BY DEF Good, Rooted, Typed
<1>7. c # t.root /\ c # a BY <1>1, <1>4, <1>6
<1>8. Items(x, H[a], K, i) = K[c] BY <1>1 DEF Items
<1>9. K[c] \subseteq K[a] BY <1>2, <1>8
<1>10. K[c] # {} BY <1>4, <1>5, <1>7, UsedNode
<1> QED BY <1>4, <1>5, <1>7, <1>8, <1>9, <1>10 DEF Child

(* A node is the child of one node, and there once.                         *)
LEMMA OneFather ==
  ASSUME NEW t, NEW H, NEW K, NEW X, NEW cmp, IsOrder(cmp), Good(t, H, K, X, cmp),
         NEW a \in DOMAIN t.node, H[a] > 1, NEW i \in 1 .. Len(t.node[a].row),
         NEW b \in DOMAIN t.node, H[b] > 1, NEW k \in 1 .. Len(t.node[b].row),
         t.node[a].child[i] = t.node[b].child[k]
  PROVE  a = b /\ i = k
<1> DEFINE c == t.node[a].child[i]
<1>1. /\ c \in DOMAIN t.node /\ H[c] = H[a] - 1 /\ K[c] \subseteq K[a] /\ K[c] # {}
      /\ Items(t.node[a], H[a], K, i) = K[c]
  BY ChildNode
<1>2. /\ H[c] = H[b] - 1 /\ K[c] \subseteq K[b]
      /\ Items(t.node[b], H[b], K, k) = K[c]
  BY ChildNode
<1>0. H[a] \in Nat /\ H[a] > 0 /\ H[b] \in Nat BY DEF Good, Typed
<1>3. H[a] \in Nat /\ H[b] \in Nat /\ K[a] \subseteq DOMAIN cmp BY <1>0, UsedNode
<1>4. a = b
  <2>1. H[a] = H[b] BY <1>1, <1>2, <1>3
  <2> QED BY <1>1, <1>2, <2>1 DEF Good, Apart
<1>5. ASSUME i # k PROVE FALSE
  <2>1. NodeOK(t.node[a], H[a], K[a], H, K, cmp) /\ Len(t.node[a].row) \in Nat BY <1>0, UsedNode
  <2>2. i < k \/ k < i BY <1>4, <1>5, <2>1
  <2>3. Before(K[c], K[c], cmp) BY <1>1, <1>2, <1>4, <2>1, <2>2 DEF NodeOK, Sorted
  <2>4. K[c] \in SUBSET DOMAIN cmp BY <1>1, <1>3
  <2>5. K[c] \intersect K[c] = {} BY <2>3, <2>4, BeforeApart
  <2> QED BY <1>1, <2>5
<1> QED BY <1>4, <1>5

-----------------------------------------------------------------------------
(* Repairs below one father.                                                *)

(* From t to u the nodes outside S keep what they have.                     *)
Outside(t, u, H, G, K, J, S) ==
    /\ DOMAIN t.node \subseteq DOMAIN u.node
    /\ \A a \in DOMAIN u.node \ S :
          a \in DOMAIN t.node /\ u.node[a] = t.node[a] /\ G[a] = H[a] /\ J[a] = K[a]

IsChild(t, a, c) == \E i \in 1 .. Len(t.node[a].row) : t.node[a].child[i] = c

(* The nodes M, children of f or free, share out anew what those of them    *)
(* that are children of f have.                                             *)
Regrouped(t, u, H, G, K, J, f, M, Y, cmp) ==
    /\ Typed(u, G, J, DOMAIN cmp)
    /\ Freelist(u, G)
    /\ u.root = t.root
    /\ f \in DOMAIN t.node /\ H[f] > 1 /\ G[f] = H[f] /\ J[f] = K[f]
    /\ M \subseteq DOMAIN u.node /\ f \notin M
    /\ Outside(t, u, H, G, K, J, M \union {f})
    /\ \A c \in M : /\ c \in DOMAIN t.node /\ H[c] > 0 => IsChild(t, f, c)
                    /\ G[c] = 0 => J[c] = {}
                    /\ G[c] > 0 => /\ G[c] = H[f] - 1 /\ J[c] # {}
                                   /\ IsChild(u, f, c)
                                   /\ NodeOK(u.node[c], H[f] - 1, J[c], H, K, cmp)
                                   /\ AllFresh(u.node[c], H[f] - 1, K, cmp)
    /\ NodeOK(u.node[f], H[f], K[f], G, J, cmp)
    /\ \A i \in 1 .. Len(u.node[f].row) : <<f, i>> \in Y \/ Fresh(u.node[f], H[f], J, cmp, i)
    /\ \A c \in DOMAIN t.node : IsChild(t, f, c) => G[c] = 0 \/ IsChild(u, f, c)
    /\ \A c \in M \intersect DOMAIN t.node, d \in DOMAIN t.node : H[c] > 1 /\ IsChild(t, c, d) =>
          \E b \in M : G[b] = H[c] /\ IsChild(u, b, d)

LEMMA Regroup ==
  ASSUME NEW t, NEW u, NEW H, NEW G, NEW K, NEW J, NEW X, NEW Y, NEW cmp, NEW f, NEW M,
         IsOrder(cmp), Good(t, H, K, X, cmp), Regrouped(t, u, H, G, K, J, f, M, Y, cmp),
         \A a \in DOMAIN t.node, i \in Nat : a # f /\ <<a, i>> \in X => <<a, i>> \in Y
  PROVE  Good(u, G, J, Y, cmp)
<1> DEFINE N == DOMAIN t.node
           N1 == DOMAIN u.node
           h == H[f]
<1>1. /\ f \in N /\ h > 1 /\ G[f] = h /\ J[f] = K[f] /\ u.root = t.root
      /\ M \subseteq N1 /\ f \notin M /\ N \subseteq N1
      /\ Typed(u, G, J, DOMAIN cmp) /\ Freelist(u, G)
  BY DEF Regrouped, Outside
<1>2. \A a \in N1 \ (M \union {f}) : a \in N /\ u.node[a] = t.node[a] /\ G[a] = H[a] /\ J[a] = K[a]
  BY DEF Regrouped, Outside
<1>3. /\ \A c \in M : c \in N /\ H[c] > 0 => IsChild(t, f, c)
      /\ \A c \in M : G[c] = 0 => J[c] = {}
      /\ \A c \in M : G[c] > 0 => /\ G[c] = h - 1 /\ J[c] # {} /\ IsChild(u, f, c)
                                  /\ NodeOK(u.node[c], h - 1, J[c], H, K, cmp)
                                  /\ AllFresh(u.node[c], h - 1, K, cmp)
  BY DEF Regrouped
<1>4. /\ NodeOK(u.node[f], h, K[f], G, J, cmp)
      /\ \A i \in 1 .. Len(u.node[f].row) : <<f, i>> \in Y \/ Fresh(u.node[f], h, J, cmp, i)
  BY DEF Regrouped
<1>5. /\ \A c \in N : IsChild(t, f, c) => G[c] = 0 \/ IsChild(u, f, c)
      /\ \A c \in M \intersect N, d \in N : H[c] > 1 /\ IsChild(t, c, d) =>
            \E b \in M : G[b] = H[c] /\ IsChild(u, b, d)
  BY DEF Regrouped
<1>6. /\ \A a \in N : H[a] \in Nat /\ K[a] \subseteq DOMAIN cmp
      /\ DOMAIN H = N
  BY DEF Good, Typed
<1>7. /\ \A a \in N1 : G[a] \in Nat /\ J[a] \subseteq DOMAIN cmp
      /\ DOMAIN G = N1
  BY <1>1 DEF Typed
<1>8. /\ t.root \in N /\ H[t.root] > 0
      /\ \A a \in N : H[a] <= H[t.root] /\ K[a] \subseteq K[t.root]
  BY DEF Good, Rooted
<1> HIDE DEF N, N1, h
<1>9. h \in Nat BY <1>1, <1>6 DEF h
<1>10. ASSUME NEW c \in M, c \in N, H[c] > 0 PROVE H[c] = h - 1 /\ c # t.root /\ K[c] \subseteq K[f]
  <2>1. PICK i \in 1 .. Len(t.node[f].row) : t.node[f].child[i] = c BY <1>3, <1>10 DEF IsChild
  <2> QED BY <2>1, <1>1, ChildNode DEF N, h
<1>11. t.root \notin M BY <1>8, <1>10
<1>12. G[t.root] = H[t.root] /\ J[t.root] = K[t.root]
  BY <1>1, <1>2, <1>8, <1>11 DEF h
<1>13. ASSUME NEW c \in M, G[c] > 0 PROVE J[c] \subseteq K[f]
  <2>1. PICK i \in 1 .. Len(u.node[f].row) : u.node[f].child[i] = c BY <1>3, <1>13 DEF IsChild
  <2>2. Items(u.node[f], h, J, i) = J[c] BY <2>1, <1>1, <1>9 DEF Items
  <2>3. K[f] = UNION {Items(u.node[f], h, J, k) : k \in 1 .. Len(u.node[f].row)}
    BY <1>4 DEF NodeOK, Keys
  <2> QED BY <2>2, <2>3
<1>14. ASSUME NEW a \in N1 \ (M \union {f}), H[a] > 1, NEW i \in 1 .. Len(t.node[a].row)
       PROVE  LET c == t.node[a].child[i]
              IN  c \in N /\ c \notin M /\ G[c] = H[c] /\ J[c] = K[c]
  <2> DEFINE c == t.node[a].child[i]
  <2>0. a \in N BY <1>2
  <2>1. c \in N /\ H[c] = H[a] - 1 /\ H[c] > 0 BY <2>0, <1>14, ChildNode DEF N
  <2>2. c \notin M
    <3> SUFFICES ASSUME c \in M PROVE FALSE OBVIOUS
    <3>1. IsChild(t, f, c) BY <2>1, <1>3
    <3>2. PICK k \in 1 .. Len(t.node[f].row) : t.node[f].child[k] = c BY <3>1 DEF IsChild
    <3>3. a = f BY <2>0, <3>2, <1>1, <1>14, OneFather DEF N, h
    <3> QED BY <3>3
  <2> HIDE DEF c
  <2>3. c \in N1 BY <2>1, <1>1
  <2>4. G[c] = H[c] /\ J[c] = K[c]
    <3>1. CASE c = f BY <3>1, <1>1 DEF h
    <3>2. CASE c # f BY <3>2, <1>2, <2>2, <2>3
    <3> QED BY <3>1, <3>2
  <2> QED BY <2>1, <2>2, <2>4 DEF c
<1>15. Rooted(u, G, J)
  <2>1. ASSUME NEW a \in N1 PROVE G[a] <= G[t.root] /\ J[a] \subseteq J[t.root]
    <3>1. CASE a = f BY <3>1, <1>1, <1>8, <1>12 DEF h
    <3>2. CASE a \in N1 \ (M \union {f}) BY <3>2, <1>2, <1>8, <1>12
    <3>3. CASE a \in M /\ G[a] = 0 BY <3>3, <1>3, <1>6, <1>8, <1>12
    <3>4. CASE a \in M /\ G[a] # 0
      <4>1. G[a] > 0 BY <3>4, <1>7
      <4>2. G[a] = h - 1 BY <1>3, <3>4, <4>1
      <4>3. J[a] \subseteq K[f] BY <1>13, <3>4, <4>1
      <4>4. h <= H[t.root] /\ K[f] \subseteq K[t.root] BY <1>1, <1>8 DEF h
      <4>5. H[t.root] \in Nat BY <1>6, <1>8
      <4> QED BY <4>2, <4>3, <4>4, <4>5, <1>9, <1>12
    <3> QED BY <3>1, <3>2, <3>3, <3>4
  <2>2. t.root \in N1 /\ G[t.root] > 0 BY <1>1, <1>8, <1>12
  <2> QED BY <1>1, <2>1, <2>2 DEF Rooted, N1
<1>16. ASSUME NEW a \in N1, G[a] > 0
       PROVE  /\ NodeOK(u.node[a], G[a], J[a], G, J, cmp)
              /\ \A i \in 1 .. Len(u.node[a].row) : <<a, i>> \in Y \/ Fresh(u.node[a], G[a], J, cmp, i)
  <2>1. CASE a = f BY <2>1, <1>1, <1>4
  <2>2. CASE a \in M
    <3>1. /\ G[a] = h - 1 /\ NodeOK(u.node[a], h - 1, J[a], H, K, cmp)
          /\ AllFresh(u.node[a], h - 1, K, cmp)
      BY <1>3, <1>16, <2>2
    <3>2. h - 1 \in Nat BY <1>1, <1>9
    <3>3. ASSUME h - 1 # 1, NEW i \in 1 .. Len(u.node[a].row)
          PROVE  LET d == u.node[a].child[i]
                 IN  d \in DOMAIN G /\ G[d] = H[d] /\ J[d] = K[d]
      <4> DEFINE d == u.node[a].child[i]
      <4>1. d \in N /\ H[d] = h - 1 - 1 BY <3>1, <3>3, <1>6 DEF NodeOK, Layer
      <4> HIDE DEF d
      <4>2. H[d] > 0 /\ H[d] # h - 1 /\ H[d] # h BY <4>1, <1>1, <1>9, <3>3
      <4>3. d \notin M BY <1>10, <4>1, <4>2
      <4>4. d # f BY <4>2 DEF h
      <4>5. d \in N1 \ (M \union {f}) BY <4>1, <4>3, <4>4, <1>1
      <4>6. d \in DOMAIN G /\ G[d] = H[d] /\ J[d] = K[d] BY <1>2, <1>7, <4>5
      <4> QED BY <4>6 DEF d
    <3>4. /\ NodeOK(u.node[a], h - 1, J[a], G, J, cmp)
          /\ SameItems(u.node[a], h - 1, K, J)
      <4> DEFINE g == h - 1
      <4>1. g \in Nat /\ NodeOK(u.node[a], g, J[a], H, K, cmp) BY <3>1, <3>2
      <4>2. Kept(u.node[a], g, H, G, K, J) BY <3>3 DEF Kept
      <4> HIDE DEF g
      <4>3. /\ NodeOK(u.node[a], g, J[a], G, J, cmp)
            /\ SameItems(u.node[a], g, K, J)
        BY <4>1, <4>2, NodeFrame
      <4> QED BY <4>3 DEF g
    <3>5. \A i \in 1 .. Len(u.node[a].row) : Fresh(u.node[a], h - 1, J, cmp, i)
      BY <3>1, <3>4 DEF AllFresh, Fresh, SameItems
    <3> QED BY <3>1, <3>4, <3>5
  <2>3. CASE a \in N1 \ (M \union {f})
    <3>1. a \in N /\ u.node[a] = t.node[a] /\ G[a] = H[a] /\ J[a] = K[a] BY <1>2, <2>3
    <3>2. H[a] \in Nat /\ H[a] > 0 BY <1>6, <1>16, <3>1
    <3>3. /\ NodeOK(t.node[a], H[a], K[a], H, K, cmp)
          /\ \A i \in 1 .. Len(t.node[a].row) : <<a, i>> \in X \/ Fresh(t.node[a], H[a], K, cmp, i)
      BY <3>1, <3>2 DEF Good, Used, N
    <3>4. Kept(t.node[a], H[a], H, G, K, J)
      <4> SUFFICES ASSUME H[a] # 1, NEW i \in 1 .. Len(t.node[a].row)
                   PROVE  /\ t.node[a].child[i] \in DOMAIN G
                          /\ G[t.node[a].child[i]] = H[t.node[a].child[i]]
                          /\ J[t.node[a].child[i]] = K[t.node[a].child[i]]
        BY DEF Kept
      <4>1. H[a] > 1 BY <3>2
      <4> QED BY <4>1, <1>1, <1>7, <1>14, <2>3
    <3>5. /\ NodeOK(t.node[a], H[a], K[a], G, J, cmp)
          /\ SameItems(t.node[a], H[a], K, J)
      BY <3>2, <3>3, <3>4, NodeFrame
    <3>6. ASSUME NEW i \in 1 .. Len(t.node[a].row)
          PROVE  <<a, i>> \in Y \/ Fresh(t.node[a], H[a], J, cmp, i)
      <4>1. CASE <<a, i>> \in X BY <4>1, <3>1, <2>3 DEF N
      <4>2. CASE Fresh(t.node[a], H[a], K, cmp, i) BY <4>2, <3>5 DEF Fresh, SameItems
      <4> QED BY <3>3, <4>1, <4>2
    <3> QED BY <3>1, <3>5, <3>6
  <2> QED BY <2>1, <2>2, <2>3
<1>17. Used(u, G, J, Y, cmp) BY <1>16 DEF Used, N1
<1>18. Apart(u, G, J)
  <2>1. ASSUME NEW a \in M, NEW b \in M, a # b, G[a] > 0, G[b] > 0 PROVE J[a] \intersect J[b] = {}
    <3>1. PICK i \in 1 .. Len(u.node[f].row) : u.node[f].child[i] = a BY <1>3, <2>1 DEF IsChild
    <3>2. PICK k \in 1 .. Len(u.node[f].row) : u.node[f].child[k] = b BY <1>3, <2>1 DEF IsChild
    <3>3. Items(u.node[f], h, J, i) = J[a] /\ Items(u.node[f], h, J, k) = J[b]
      BY <3>1, <3>2, <1>1, <1>9 DEF Items
    <3>4. i # k BY <3>1, <3>2, <2>1
    <3>5. Len(u.node[f].row) \in Nat
      <4>1. u.node \in Seq(Content(DOMAIN cmp)) /\ f \in N1 BY <1>1 DEF Typed, Trees
      <4>2. f \in 1 .. Len(u.node) BY <4>1, LenProperties DEF N1
      <4>3. u.node[f] \in Content(DOMAIN cmp) BY <4>1, <4>2, ElementOfSeq
      <4> QED BY <4>3, ContentType
    <3>6. Before(J[a], J[b], cmp) \/ Before(J[b], J[a], cmp)
      <4>1. i < k \/ k < i BY <3>4, <3>5
      <4> QED BY <4>1, <3>3, <1>4 DEF NodeOK, Sorted
    <3>7. J[a] \in SUBSET DOMAIN cmp /\ J[b] \in SUBSET DOMAIN cmp BY <1>1, <1>7
    <3> QED BY <3>6, <3>7, BeforeApart
  <2>2. ASSUME NEW a \in M, NEW b \in N1 \ (M \union {f}), G[a] > 0, G[b] = G[a]
        PROVE  J[a] \intersect J[b] = {}
    <3>1. b \in N /\ G[b] = H[b] /\ J[b] = K[b] BY <1>2
    <3>2. J[a] \subseteq K[f] /\ G[a] = h - 1 BY <1>3, <1>13, <2>2
    <3>3. b # t.root
      <4>1. h <= H[t.root] /\ H[t.root] \in Nat BY <1>1, <1>6, <1>8 DEF h
      <4>2. H[b] = h - 1 BY <2>2, <3>1, <3>2
      <4> QED BY <4>1, <4>2, <1>9
    <3>4. PICK g \in N : H[g] = H[b] + 1 /\ IsChild(t, g, b)
      BY <2>2, <3>1, <3>3 DEF Good, Kin, HasFather, IsChild, N
    <3>5. H[g] = h
      <4>1. H[b] = h - 1 BY <2>2, <3>1, <3>2
      <4>2. H[g] = h - 1 + 1 BY <3>4, <4>1
      <4> QED BY <4>2, <1>9
    <3>6. CASE g = f
      <4>1. IsChild(u, f, b) BY <1>5, <2>2, <3>1, <3>4, <3>6
      <4>2. PICK i \in 1 .. Len(u.node[f].row) : u.node[f].child[i] = a BY <1>3, <2>2 DEF IsChild
      <4>3. PICK k \in 1 .. Len(u.node[f].row) : u.node[f].child[k] = b BY <4>1 DEF IsChild
      <4>4. Items(u.node[f], h, J, i) = J[a] /\ Items(u.node[f], h, J, k) = J[b]
        BY <4>2, <4>3, <1>1, <1>9 DEF Items
      <4>5. i # k BY <4>2, <4>3, <2>2
      <4>6. Len(u.node[f].row) \in Nat
        <5>1. u.node \in Seq(Content(DOMAIN cmp)) /\ f \in N1 BY <1>1 DEF Typed, Trees
        <5>2. f \in 1 .. Len(u.node) BY <5>1, LenProperties DEF N1
        <5>3. u.node[f] \in Content(DOMAIN cmp) BY <5>1, <5>2, ElementOfSeq
        <5> QED BY <5>3, ContentType
      <4>7. Before(J[a], J[b], cmp) \/ Before(J[b], J[a], cmp)
        <5>1. i < k \/ k < i BY <4>5, <4>6
        <5> QED BY <5>1, <4>4, <1>4 DEF NodeOK, Sorted
      <4>8. J[a] \in SUBSET DOMAIN cmp /\ J[b] \in SUBSET DOMAIN cmp BY <1>1, <1>7
      <4> QED BY <4>7, <4>8, BeforeApart
    <3>7. CASE g # f
      <4>1. K[g] \intersect K[f] = {} BY <3>4, <3>5, <3>7, <1>1 DEF Good, Apart, N, h
      <4>2. PICK i \in 1 .. Len(t.node[g].row) : t.node[g].child[i] = b BY <3>4 DEF IsChild
      <4>3. H[g] > 1 BY <3>5, <1>1
      <4>4. K[b] \subseteq K[g] BY <3>4, <4>2, <4>3, ChildNode DEF N
      <4> QED BY <3>1, <3>2, <4>1, <4>4
    <3> QED BY <3>6, <3>7
  <2>3. ASSUME NEW a \in N1 \ M, NEW b \in N1 \ M, a # b, G[a] = G[b] PROVE J[a] \intersect J[b] = {}
    <3>1. \A c \in N1 \ M : c \in N /\ G[c] = H[c] /\ J[c] = K[c] BY <1>1, <1>2 DEF h
    <3> QED BY <3>1, <2>3 DEF Good, Apart, N
  <2>4. \A c \in M : c # f /\ G[c] # h
    <3> SUFFICES ASSUME NEW c \in M PROVE c # f /\ G[c] # h OBVIOUS
    <3>1. CASE G[c] = 0 BY <3>1, <1>1
    <3>2. CASE G[c] # 0
      <4>1. G[c] > 0 BY <3>2, <1>1, <1>7
      <4> QED BY <4>1, <1>1, <1>3, <1>9
    <3> QED BY <3>1, <3>2
  <2>5. ASSUME NEW a \in M, NEW b \in N1, a # b, G[a] = G[b] PROVE J[a] \intersect J[b] = {}
    <3>1. CASE G[a] = 0 BY <3>1, <1>3
    <3>2. CASE G[a] # 0
      <4>1. G[a] > 0 /\ G[b] > 0 BY <3>2, <2>5, <1>1, <1>7
      <4>2. b # f BY <2>4, <2>5, <1>1
      <4> QED BY <4>1, <4>2, <2>1, <2>2, <2>5
    <3> QED BY <3>1, <3>2
  <2>6. ASSUME NEW a \in N1, NEW b \in N1, a # b, G[a] = G[b] PROVE J[a] \intersect J[b] = {}
    <3>1. CASE a \in M BY <2>5, <2>6, <3>1
    <3>2. CASE b \in M
      <4>1. J[b] \intersect J[a] = {} BY <2>5, <2>6, <3>2
      <4> QED BY <4>1
    <3>3. CASE a \notin M /\ b \notin M BY <2>3, <2>6, <3>3
    <3> QED BY <3>1, <3>2, <3>3
  <2> QED BY <2>6 DEF Apart, N1
<1>19. ASSUME NEW c \in N1, c # t.root, G[c] > 0 PROVE J[c] # {} /\ HasFather(u, G, c)
  <2> SUFFICES J[c] # {} /\ \E a \in N1 : G[a] = G[c] + 1 /\ IsChild(u, a, c)
    BY DEF HasFather, IsChild, N1
  <2>1. CASE c \in M
    <3>1. J[c] # {} /\ G[c] = h - 1 /\ IsChild(u, f, c) BY <1>3, <1>19, <2>1
    <3>2. f \in N1 /\ G[f] = G[c] + 1 BY <3>1, <1>1, <1>9
    <3> QED BY <3>1, <3>2
  <2>2. CASE c \notin M
    <3>1. c \in N /\ G[c] = H[c] /\ J[c] = K[c] BY <1>1, <1>2, <2>2 DEF h
    <3>2. K[c] # {} /\ \E a \in N : H[a] = H[c] + 1 /\ IsChild(t, a, c)
      BY <1>19, <3>1 DEF Good, Kin, HasFather, IsChild, N
    <3>3. PICK a \in N : H[a] = H[c] + 1 /\ IsChild(t, a, c) BY <3>2
    <3>4. CASE a = f
      <4>1. IsChild(u, f, c) BY <1>5, <1>19, <3>1, <3>3, <3>4
      <4>2. f \in N1 /\ G[f] = G[c] + 1 BY <3>1, <3>3, <3>4, <1>1 DEF h
      <4> QED BY <3>1, <3>2, <4>1, <4>2
    <3>5. CASE a \in M
      <4>1. H[a] > 1 BY <3>1, <3>3, <1>6, <1>19
      <4>2. PICK b \in M : G[b] = H[a] /\ IsChild(u, b, c) BY <1>5, <3>1, <3>3, <3>5, <4>1
      <4> QED BY <3>1, <3>2, <3>3, <4>2, <1>1
    <3>6. CASE a \notin M /\ a # f
      <4>1. a \in N1 /\ u.node[a] = t.node[a] /\ G[a] = H[a] BY <1>1, <1>2, <3>6
      <4>2. IsChild(u, a, c) BY <3>3, <4>1 DEF IsChild
      <4> QED BY <3>1, <3>2, <3>3, <4>1, <4>2
    <3> QED BY <3>4, <3>5, <3>6
  <2> QED BY <2>1, <2>2
<1>20. Kin(u, G, J) BY <1>1, <1>19 DEF Kin, N1
<1> QED BY <1>1, <1>15, <1>17, <1>18, <1>20 DEF Good

-----------------------------------------------------------------------------
(* Rows put into sequences and taken out.                                   *)

(* s is r with e put in at i; at the other positions, moved up behind i.    *)
LEMMA Inserted ==
  ASSUME NEW R, NEW s \in Seq(R), NEW e \in R, NEW i \in 1 .. Len(s) + 1
  PROVE  /\ InsertAt(s, i, e) \in Seq(R)
         /\ Len(InsertAt(s, i, e)) = Len(s) + 1
         /\ InsertAt(s, i, e)[i] = e
         /\ \A k \in 1 .. Len(s) : k < i => InsertAt(s, i, e)[k] = s[k]
         /\ \A k \in 1 .. Len(s) : k >= i => InsertAt(s, i, e)[k + 1] = s[k]
<1> DEFINE n == Len(s)
           a == SubSeq(s, 1, i - 1)
           b == SubSeq(s, i, n)
<1>0. n \in Nat /\ i \in Int /\ i - 1 \in Int BY LenProperties
<1>1. \A k \in 1 .. n : s[k] \in R BY ElementOfSeq
<1>2. a \in Seq(R) /\ Len(a) = i - 1 /\ \A k \in 1 .. i - 1 : a[k] = s[k]
  <2>1. \A k \in 1 .. i - 1 : s[k] \in R BY <1>0, <1>1
  <2>2. 1 \in Int OBVIOUS
  <2>3. /\ SubSeq(s, 1, i - 1) \in Seq(R)
        /\ Len(SubSeq(s, 1, i - 1)) = IF 1 <= i - 1 THEN i - 1 - 1 + 1 ELSE 0
        /\ \A k \in 1 .. i - 1 - 1 + 1 : SubSeq(s, 1, i - 1)[k] = s[1 + k - 1]
    BY <1>0, <2>1, <2>2, SubSeqProperties
  <2>4. (IF 1 <= i - 1 THEN i - 1 - 1 + 1 ELSE 0) = i - 1 /\ i - 1 - 1 + 1 = i - 1 BY <1>0
  <2>5. \A k \in 1 .. i - 1 : 1 + k - 1 = k BY <1>0
  <2> QED BY <2>3, <2>4, <2>5
<1>3. b \in Seq(R) /\ Len(b) = n - i + 1 /\ \A k \in 1 .. n - i + 1 : b[k] = s[i + k - 1]
  <2>1. \A k \in i .. n : s[k] \in R BY <1>0, <1>1
  <2>3. /\ SubSeq(s, i, n) \in Seq(R)
        /\ Len(SubSeq(s, i, n)) = IF i <= n THEN n - i + 1 ELSE 0
        /\ \A k \in 1 .. n - i + 1 : SubSeq(s, i, n)[k] = s[i + k - 1]
    BY <1>0, <2>1, SubSeqProperties
  <2>4. (IF i <= n THEN n - i + 1 ELSE 0) = n - i + 1 BY <1>0
  <2> QED BY <2>3, <2>4
<1> HIDE DEF a, b
<1> DEFINE c == a \o <<e>>
           z == c \o b
<1>4. <<e>> \in Seq(R) /\ Len(<<e>>) = 1 /\ <<e>>[1] = e OBVIOUS
<1>5. c \in Seq(R) /\ Len(c) = i /\ c[i] = e /\ \A k \in 1 .. i - 1 : c[k] = s[k]
  <2>1. /\ a \o <<e>> \in Seq(R) /\ Len(a \o <<e>>) = Len(a) + Len(<<e>>)
        /\ \A k \in 1 .. Len(a) + Len(<<e>>) :
              (a \o <<e>>)[k] = IF k <= Len(a) THEN a[k] ELSE <<e>>[k - Len(a)]
    BY <1>2, <1>4, ConcatProperties
  <2>2. Len(a) + Len(<<e>>) = i BY <1>0, <1>2, <1>4
  <2>3. c \in Seq(R) /\ Len(c) = i /\ \A k \in 1 .. i : c[k] = IF k <= i - 1 THEN a[k] ELSE <<e>>[k - (i - 1)]
    BY <2>1, <2>2, <1>2
  <2> HIDE DEF c
  <2>4. i \in 1 .. i /\ ~(i <= i - 1) /\ i - (i - 1) = 1 BY <1>0
  <2>5. c[i] = e BY <2>3, <2>4, <1>4
  <2>6. \A k \in 1 .. i - 1 : k \in 1 .. i /\ k <= i - 1 BY <1>0
  <2> QED BY <2>3, <2>5, <2>6, <1>2
<1> HIDE DEF c
<1>6. /\ z \in Seq(R) /\ Len(z) = n + 1
      /\ \A k \in 1 .. n + 1 : z[k] = IF k <= i THEN c[k] ELSE b[k - i]
  <2>1. /\ c \o b \in Seq(R) /\ Len(c \o b) = Len(c) + Len(b)
        /\ \A k \in 1 .. Len(c) + Len(b) : (c \o b)[k] = IF k <= Len(c) THEN c[k] ELSE b[k - Len(c)]
    BY <1>3, <1>5, ConcatProperties
  <2>2. Len(c) + Len(b) = n + 1 BY <1>0, <1>3, <1>5
  <2> QED BY <2>1, <2>2, <1>5
<1>7. z = InsertAt(s, i, e) BY DEF z, c, a, b, n, InsertAt
<1> HIDE DEF z
<1>8. z[i] = e
  <2>1. i \in 1 .. n + 1 /\ i <= i BY <1>0
  <2> QED BY <2>1, <1>5, <1>6
<1>9. ASSUME NEW k \in 1 .. n, k < i PROVE z[k] = s[k]
  <2>1. k \in 1 .. n + 1 /\ k <= i /\ k \in 1 .. i - 1 BY <1>0, <1>9
  <2> QED BY <2>1, <1>5, <1>6
<1>10. ASSUME NEW k \in 1 .. n, k >= i PROVE z[k + 1] = s[k]
  <2> DEFINE l == k + 1
             j == k + 1 - i
  <2>1. l \in 1 .. n + 1 /\ ~(l <= i) /\ l - i = j /\ j \in 1 .. n - i + 1 /\ i + j - 1 = k
    BY <1>0, <1>10
  <2> HIDE DEF l, j
  <2>2. z[l] = s[k] BY <2>1, <1>3, <1>6
  <2> QED BY <2>2 DEF l
<1> QED BY <1>6, <1>7, <1>8, <1>9, <1>10

(* One taken out at i; those behind move down.                              *)
LEMMA Removed ==
  ASSUME NEW R, NEW s \in Seq(R), NEW i \in 1 .. Len(s)
  PROVE  /\ RemoveAt(s, i) \in Seq(R)
         /\ Len(RemoveAt(s, i)) = Len(s) - 1
         /\ \A k \in 1 .. Len(s) : k < i => RemoveAt(s, i)[k] = s[k]
         /\ \A k \in 1 .. Len(s) : k > i => RemoveAt(s, i)[k - 1] = s[k]
<1> DEFINE n == Len(s)
           a == SubSeq(s, 1, i - 1)
           b == SubSeq(s, i + 1, n)
<1>0. n \in Nat /\ i \in Int /\ i - 1 \in Int /\ i + 1 \in Int BY LenProperties
<1>1. \A k \in 1 .. n : s[k] \in R BY ElementOfSeq
<1>2. a \in Seq(R) /\ Len(a) = i - 1 /\ \A k \in 1 .. i - 1 : a[k] = s[k]
  <2>1. \A k \in 1 .. i - 1 : s[k] \in R BY <1>0, <1>1
  <2>2. 1 \in Int OBVIOUS
  <2>3. /\ SubSeq(s, 1, i - 1) \in Seq(R)
        /\ Len(SubSeq(s, 1, i - 1)) = IF 1 <= i - 1 THEN i - 1 - 1 + 1 ELSE 0
        /\ \A k \in 1 .. i - 1 - 1 + 1 : SubSeq(s, 1, i - 1)[k] = s[1 + k - 1]
    BY <1>0, <2>1, <2>2, SubSeqProperties
  <2>4. (IF 1 <= i - 1 THEN i - 1 - 1 + 1 ELSE 0) = i - 1 /\ i - 1 - 1 + 1 = i - 1 BY <1>0
  <2>5. \A k \in 1 .. i - 1 : 1 + k - 1 = k BY <1>0
  <2> QED BY <2>3, <2>4, <2>5
<1>3. b \in Seq(R) /\ Len(b) = n - i /\ \A k \in 1 .. n - i : b[k] = s[i + k]
  <2>1. \A k \in i + 1 .. n : s[k] \in R BY <1>0, <1>1
  <2>3. /\ SubSeq(s, i + 1, n) \in Seq(R)
        /\ Len(SubSeq(s, i + 1, n)) = IF i + 1 <= n THEN n - (i + 1) + 1 ELSE 0
        /\ \A k \in 1 .. n - (i + 1) + 1 : SubSeq(s, i + 1, n)[k] = s[i + 1 + k - 1]
    BY <1>0, <2>1, SubSeqProperties
  <2>4. (IF i + 1 <= n THEN n - (i + 1) + 1 ELSE 0) = n - i /\ n - (i + 1) + 1 = n - i BY <1>0
  <2>5. \A k \in 1 .. n - i : i + 1 + k - 1 = i + k BY <1>0
  <2> QED BY <2>3, <2>4, <2>5, Zenon
<1> HIDE DEF a, b
<1> DEFINE z == a \o b
<1>6. /\ z \in Seq(R) /\ Len(z) = n - 1
      /\ \A k \in 1 .. n - 1 : z[k] = IF k <= i - 1 THEN a[k] ELSE b[k - (i - 1)]
  <2>1. /\ a \o b \in Seq(R) /\ Len(a \o b) = Len(a) + Len(b)
        /\ \A k \in 1 .. Len(a) + Len(b) : (a \o b)[k] = IF k <= Len(a) THEN a[k] ELSE b[k - Len(a)]
    BY <1>2, <1>3, ConcatProperties
  <2>2. Len(a) + Len(b) = n - 1 BY <1>0, <1>2, <1>3
  <2> QED BY <2>1, <2>2, <1>2
<1>7. z = RemoveAt(s, i) BY DEF z, a, b, n, RemoveAt
<1> HIDE DEF z
<1>9. ASSUME NEW k \in 1 .. n, k < i PROVE z[k] = s[k]
  <2>1. k \in 1 .. n - 1 /\ k <= i - 1 /\ k \in 1 .. i - 1 BY <1>0, <1>9
  <2> QED BY <2>1, <1>2, <1>6
<1>10. ASSUME NEW k \in 1 .. n, k > i PROVE z[k - 1] = s[k]
  <2> DEFINE l == k - 1
             j == k - i
  <2>1. l \in 1 .. n - 1 /\ ~(l <= i - 1) /\ l - (i - 1) = j /\ j \in 1 .. n - i /\ i + j = k
    BY <1>0, <1>10
  <2> HIDE DEF l, j
  <2>2. z[l] = s[k] BY <2>1, <1>3, <1>6
  <2> QED BY <2>2 DEF l
<1> QED BY <1>6, <1>7, <1>9, <1>10

(* An element is put behind two sequences or behind the second.             *)
PutsLast(r, b, e) == (r \o b) \o <<e>> = r \o (b \o <<e>>)

LEMMA PutLast ==
  ASSUME NEW R, NEW r, NEW b, NEW e, r \in Seq(R), b \in Seq(R), e \in R
  PROVE  PutsLast(r, b, e)
<1> DEFINE z == <<e>>
<1>1. z \in Seq(R) OBVIOUS
<1> HIDE DEF z
<1>2. (r \o b) \o z = r \o (b \o z) BY <1>1, ConcatAssociative
<1> QED BY <1>2 DEF z, PutsLast

(* At the ends of parts.                                                    *)
LEMMA EndsMove ==
  ASSUME NEW R, NEW s \in Seq(R), NEW r \in Seq(R), NEW k \in 1 .. Len(s)
  PROVE  /\ RemoveAt(SubSeq(s, 1, k), k) = SubSeq(s, 1, k - 1)
         /\ RemoveAt(SubSeq(s, k, Len(s)), 1) = SubSeq(s, k + 1, Len(s))
         /\ InsertAt(SubSeq(s, k + 1, Len(s)) \o r, 1, s[k]) = SubSeq(s, k, Len(s)) \o r
         /\ InsertAt(r \o SubSeq(s, 1, k - 1), Len(r) + k, s[k]) = r \o SubSeq(s, 1, k)
<1> DEFINE n == Len(s)
<1>0. n \in Nat /\ Len(r) \in Nat /\ \A i \in 1 .. n : s[i] \in R BY LenProperties, ElementOfSeq
<1>1. ASSUME NEW i \in 1 .. n + 1, NEW l \in 0 .. n, i <= l + 1
      PROVE  SubSeq(s, i, l) \in Seq(R) /\ Len(SubSeq(s, i, l)) = l - i + 1
  <2>1. \A j \in i .. l : s[j] \in R BY <1>0
  <2>2. (IF i <= l THEN l - i + 1 ELSE 0) = l - i + 1 BY <1>0, <1>1
  <2>3. i \in Int /\ l \in Int OBVIOUS
  <2> QED BY <2>1, <2>2, <2>3, SubSeqProperties
<1>2. k \in 1 .. n + 1 /\ k + 1 \in 1 .. n + 1 /\ k - 1 \in 0 .. n /\ k \in 0 .. n /\ n \in 0 .. n
      /\ 1 \in 1 .. n + 1 /\ 1 <= k - 1 + 1 /\ 1 <= k + 1 /\ k <= n + 1 /\ k + 1 <= n + 1
  BY <1>0
<1>3. SubSeq(s, 1, k) = SubSeq(s, 1, k - 1) \o <<s[k]>>
  <2>1. 1 \in 1 .. n /\ k \in 1 .. n BY <1>0
  <2> QED BY <2>1, SubSeqRecursiveSecond
<1>4. SubSeq(s, k, n) = <<s[k]>> \o SubSeq(s, k + 1, n)
  <2>1. k \in 1 .. n /\ n \in k .. n BY <1>0
  <2> QED BY <2>1, SubSeqRecursiveFirst
<1> DEFINE a == SubSeq(s, 1, k)
           b == SubSeq(s, 1, k - 1)
           c == SubSeq(s, k, n)
           d == SubSeq(s, k + 1, n)
           e == s[k]
<1>5. /\ a \in Seq(R) /\ Len(a) = k /\ b \in Seq(R) /\ Len(b) = k - 1
      /\ c \in Seq(R) /\ Len(c) = n - k + 1 /\ d \in Seq(R) /\ Len(d) = n - k
  <2>1. a \in Seq(R) /\ Len(a) = k - 1 + 1 BY <1>1, <1>2
  <2>2. b \in Seq(R) /\ Len(b) = k - 1 - 1 + 1 BY <1>1, <1>2
  <2>3. c \in Seq(R) /\ Len(c) = n - k + 1 BY <1>1, <1>2
  <2>4. d \in Seq(R) /\ Len(d) = n - (k + 1) + 1 BY <1>1, <1>2
  <2> HIDE DEF a, b, c, d
  <2> QED BY <2>1, <2>2, <2>3, <2>4, <1>0
<1>6. e \in R /\ <<e>> \in Seq(R) /\ a = b \o <<e>> /\ c = <<e>> \o d BY <1>0, <1>3, <1>4
<1>6a. k \in 1 .. n OBVIOUS
<1> HIDE DEF a, b, c, d, e
<1>7. SubSeq(b \o <<e>>, 1, k - 1) = b /\ SubSeq(b \o <<e>>, k + 1, k) = <<>>
  <2>1. SubSeq(b \o <<e>>, k + 1, k) = <<>>
    <3>1. k + 1 \in Int /\ k \in Int /\ k < k + 1 BY <1>6a
    <3> QED BY <3>1, SubSeqEmpty
  <2>2. CASE k = 1
    <3>1. b = <<>> BY <2>2, <1>5, EmptySeq
    <3>2. SubSeq(b \o <<e>>, 1, 0) = <<>>
      <4>1. 1 \in Int /\ 0 \in Int /\ 0 < 1 OBVIOUS
      <4> QED BY <4>1, SubSeqEmpty
    <3> QED BY <2>1, <2>2, <3>1, <3>2
  <2>3. CASE k # 1
    <3>1. 1 \in 1 .. Len(b) /\ k - 1 \in 1 .. Len(b) BY <1>5, <1>6a, <2>3
    <3>2. SubSeq(b \o <<e>>, 1, k - 1) = SubSeq(b, 1, k - 1) BY <1>5, <1>6, <3>1, SubSeqOfConcat1
    <3> QED BY <2>1, <3>2, <1>5, SubSeqFull
  <2> QED BY <2>2, <2>3
<1>8. RemoveAt(a, k) = b
  <2>1. Len(a) = k /\ b \o <<>> = b BY <1>5, ConcatEmptySeq
  <2> QED BY <2>1, <1>6, <1>7 DEF RemoveAt
<1>9. RemoveAt(c, 1) = d
  <2>1. SubSeq(c, 1, 0) = <<>>
    <3>1. 1 \in Int /\ 0 \in Int /\ 0 < 1 OBVIOUS
    <3> QED BY <3>1, SubSeqEmpty
  <2>2. c # <<>> BY <1>0, <1>5, <1>6a, EmptySeq
  <2>3. SubSeq(c, 2, Len(c)) = Tail(c) BY <1>5, <2>2, TailIsSubSeq
  <2>4. Tail(c) = d
    <3>1. n \in k .. n /\ k \in 1 .. n BY <1>0, <1>6a
    <3> QED BY <3>1, HeadTailOfSubSeq DEF c, d
  <2>5. <<>> \o d = d BY <1>5, ConcatEmptySeq
  <2>6. RemoveAt(c, 1) = SubSeq(c, 1, 0) \o SubSeq(c, 2, Len(c)) BY DEF RemoveAt
  <2> QED BY <2>1, <2>3, <2>4, <2>5, <2>6
<1>10. InsertAt(d \o r, 1, e) = c \o r
  <2> DEFINE q == d \o r
  <2>1. q \in Seq(R) BY <1>5, ConcatProperties
  <2> HIDE DEF q
  <2>2. SubSeq(q, 1, 0) = <<>>
    <3>1. 1 \in Int /\ 0 \in Int /\ 0 < 1 OBVIOUS
    <3> QED BY <3>1, SubSeqEmpty
  <2>3. SubSeq(q, 1, Len(q)) = q BY <2>1, SubSeqFull
  <2>4. InsertAt(q, 1, e) = (<<>> \o <<e>>) \o q BY <2>2, <2>3 DEF InsertAt
  <2>5. <<>> \o <<e>> = <<e>> BY <1>6, ConcatEmptySeq
  <2>6. (<<e>> \o d) \o r = <<e>> \o (d \o r)
    <3>1. <<e>> \in Seq(R) /\ d \in Seq(R) /\ r \in Seq(R) BY <1>5, <1>6
    <3> QED BY <3>1, ConcatAssociative
  <2> QED BY <2>4, <2>5, <2>6, <1>6 DEF q
<1>11. InsertAt(r \o b, Len(r) + k, e) = r \o a
  <2> DEFINE q == r \o b
             l == Len(r) + k
  <2>1. q \in Seq(R) /\ Len(q) = Len(r) + Len(b) BY <1>5, ConcatProperties
  <2>2. Len(q) = l - 1 /\ l \in Int /\ Len(q) < l BY <2>1, <1>0, <1>5, <1>6a
  <2> HIDE DEF q, l
  <2>3. SubSeq(q, 1, l - 1) = q BY <2>1, <2>2, SubSeqFull
  <2>4. SubSeq(q, l, Len(q)) = <<>>
    <3>1. Len(q) \in Int BY <2>2
    <3> QED BY <2>2, <3>1, SubSeqEmpty
  <2>5. InsertAt(q, l, e) = (q \o <<e>>) \o <<>> BY <2>3, <2>4 DEF InsertAt
  <2>6. q \o <<e>> \in Seq(R) BY <2>1, <1>6, ConcatProperties
  <2>7. (q \o <<e>>) \o <<>> = q \o <<e>> BY <2>6, ConcatEmptySeq
  <2>8. (r \o b) \o <<e>> = r \o (b \o <<e>>)
    <3>1. b \in Seq(R) /\ r \in Seq(R) /\ e \in R BY <1>5, <1>6
    <3> HIDE DEF b, e
    <3>2. PutsLast(r, b, e) BY <3>1, PutLast
    <3> QED BY <3>2 DEF PutsLast
  <2> QED BY <2>5, <2>7, <2>8, <1>6 DEF q, l
<1> QED BY <1>8, <1>9, <1>10, <1>11 DEF a, b, c, d, e

-----------------------------------------------------------------------------
(* What the functions that change one node do.                              *)

(* From t to u only nodes of S change.                                      *)
Changed(t, u, Q, S) ==
    /\ u \in Trees(Q)
    /\ DOMAIN u.node = DOMAIN t.node
    /\ u.root = t.root /\ u.free = t.free
    /\ \A a \in DOMAIN t.node \ S : u.node[a] = t.node[a]

(* Of a node, only the rows at S.                                           *)
RowSet(x, y, S) ==
    /\ y.child = x.child
    /\ Len(y.row) = Len(x.row)
    /\ \A i \in 1 .. Len(x.row) : i \notin S => y.row[i] = x.row[i]

LEMMA TreeType ==
  ASSUME NEW Q, NEW t \in Trees(Q)
  PROVE  /\ t.node \in Seq(Content(Q)) /\ DOMAIN t.node = 1 .. Len(t.node) /\ Len(t.node) \in Nat
         /\ t.root \in Nat /\ t.free \in Seq(Nat)
         /\ \A a \in DOMAIN t.node :
                /\ a \in Nat \ {0} /\ a # NoNode
                /\ t.node[a] \in Content(Q)
                /\ Len(t.node[a].row) \in Nat
                /\ NoRid \in Q => FirstRow(t, a) \in Q
<1>1. t.node \in Seq(Content(Q)) /\ t.root \in Nat /\ t.free \in Seq(Nat) BY DEF Trees
<1>2. DOMAIN t.node = 1 .. Len(t.node) /\ Len(t.node) \in Nat BY <1>1, LenProperties
<1>3. ASSUME NEW a \in DOMAIN t.node
      PROVE  /\ a \in Nat \ {0} /\ a # NoNode
             /\ t.node[a] \in Content(Q)
             /\ Len(t.node[a].row) \in Nat
             /\ NoRid \in Q => FirstRow(t, a) \in Q
  <2>1. a \in Nat \ {0} /\ a # NoNode BY <1>2 DEF NoNode
  <2>2. t.node[a] \in Content(Q) BY <1>1, <1>2, ElementOfSeq
  <2>3. t.node[a].row \in Seq(Q) /\ Len(t.node[a].row) \in Nat
        /\ \A i \in 1 .. Len(t.node[a].row) : t.node[a].row[i] \in Q
    BY <2>2, ContentType
  <2>4. NoRid \in Q => FirstRow(t, a) \in Q
    <3>1. CASE t.node[a].row = <<>> BY <3>1 DEF FirstRow
    <3>2. CASE t.node[a].row # <<>>
      <4>1. Len(t.node[a].row) \in Nat \ {0} BY <2>3, <3>2, EmptySeq
      <4>2. 1 \in 1 .. Len(t.node[a].row) BY <4>1
      <4> QED BY <2>3, <3>2, <4>2 DEF FirstRow
    <3> QED BY <3>1, <3>2
  <2> QED BY <2>1, <2>2, <2>3, <2>4
<1> QED BY <1>1, <1>2, <1>3

Put(t, a, x) == [t EXCEPT !.node[a] = x]

Replaced(t, u, Q, a, x) == Changed(t, u, Q, {a}) /\ u.node[a] = x

LEMMA PutNode ==
  ASSUME NEW Q, NEW t \in Trees(Q), NEW a \in DOMAIN t.node, NEW x \in Content(Q),
         NEW u, u = Put(t, a, x)
  PROVE  Replaced(t, u, Q, a, x)
<1>1. /\ t = [node |-> t.node, root |-> t.root, free |-> t.free]
      /\ t.node \in Seq(Content(Q)) /\ t.root \in Nat /\ t.free \in Seq(Nat)
  BY DEF Trees
<1>2. a \in 1 .. Len(t.node) BY TreeType
<1> DEFINE s == [t.node EXCEPT ![a] = x]
<1>3. s \in Seq(Content(Q)) /\ Len(s) = Len(t.node) BY <1>1, <1>2, ExceptSeq
<1>4. u = [node |-> s, root |-> t.root, free |-> t.free] BY <1>1 DEF Put
<1>5. u.node = s /\ u.root = t.root /\ u.free = t.free BY <1>4
<1>6. u \in Trees(Q) BY <1>1, <1>3, <1>4 DEF Trees
<1>7. DOMAIN s = DOMAIN t.node /\ s[a] = x /\ \A b \in DOMAIN t.node : b # a => s[b] = t.node[b]
  OBVIOUS
<1> QED BY <1>5, <1>6, <1>7 DEF Changed, Replaced

LEMMA PutRow ==
  ASSUME NEW x, NEW r, NEW c, x = [row |-> r, child |-> c], NEW i, NEW e, NEW s
  PROVE  /\ [x EXCEPT !.row[i] = e] = [row |-> [r EXCEPT ![i] = e], child |-> c]
         /\ [x EXCEPT !.row = s] = [row |-> s, child |-> c]
OBVIOUS

(* One node after another.                                                  *)
LEMMA ChangedTwice ==
  ASSUME NEW Q, NEW t, NEW u, NEW v, NEW S, NEW T, Changed(t, u, Q, S), Changed(u, v, Q, T)
  PROVE  Changed(t, v, Q, S \union T)
BY DEF Changed

Refreshed(t, u, Q, f, i, c) ==
    /\ Changed(t, u, Q, {f})
    /\ RowSet(t.node[f], u.node[f], {i})
    /\ u.node[f].row[i] = FirstRow(u, c)

LEMMA RefreshIs ==
  ASSUME NEW Q, NoRid \in Q, NEW t \in Trees(Q), NEW f \in DOMAIN t.node,
         NEW i \in 1 .. Len(t.node[f].row), NEW c \in DOMAIN t.node, c # f, Child(t, f, i) = c,
         NEW u, u = Refresh(t, f, i)
  PROVE  Refreshed(t, u, Q, f, i, c)
<1> DEFINE x == t.node[f]
           e == FirstRow(t, c)
           s == [x.row EXCEPT ![i] = e]
           y == [row |-> s, child |-> x.child]
<1>1. /\ x \in Content(Q) /\ e \in Q /\ f # NoNode BY TreeType
<1>2. x.row \in Seq(Q) /\ x.child \in Seq(Nat) /\ Len(x.row) \in Nat
      /\ x = [row |-> x.row, child |-> x.child]
  BY <1>1, ContentType
<1>3. ~(i > Size(t, f)) BY <1>2 DEF Size
<1>4. u = [t EXCEPT !.node[f].row[i] = e] BY <1>1, <1>3 DEF Refresh
<1>5. [x EXCEPT !.row[i] = e] = y
  <2> HIDE DEF x
  <2> QED BY <1>2, PutRow
<1>6. u = Put(t, f, y)
  <2>1. u = [t EXCEPT !.node[f] = [x EXCEPT !.row[i] = e]] BY <1>4
  <2> QED BY <1>5, <2>1 DEF Put
<1>7. /\ s \in Seq(Q) /\ Len(s) = Len(x.row)
      /\ \A j \in 1 .. Len(x.row) : s[j] = IF j = i THEN e ELSE x.row[j]
  <2> HIDE DEF x, e
  <2>1. i \in 1 .. Len(x.row) BY DEF x
  <2> QED BY <1>1, <1>2, <2>1, ExceptSeq
<1> HIDE DEF s
<1>8. y \in Content(Q) BY <1>2, <1>7 DEF Content
<1> HIDE DEF y
<1>9. Changed(t, u, Q, {f}) /\ u.node[f] = y
  <2>1. Replaced(t, u, Q, f, y) BY <1>6, <1>8, PutNode
  <2> QED BY <2>1 DEF Replaced
<1>10. RowSet(x, y, {i}) /\ y.row[i] = e BY <1>7 DEF RowSet, y
<1>11. FirstRow(u, c) = e
  <2>1. u.node[c] = t.node[c] BY <1>9 DEF Changed
  <2> QED BY <2>1 DEF FirstRow
<1> QED BY <1>9, <1>10, <1>11 DEF Refreshed

ChildOut(t, u, Q, f, i) ==
    /\ Changed(t, u, Q, {f})
    /\ u.node[f] = [row |-> RemoveAt(t.node[f].row, i), child |-> RemoveAt(t.node[f].child, i)]

ChildIn(t, u, Q, f, i, c) ==
    /\ Changed(t, u, Q, {f})
    /\ u.node[f] = [row   |-> InsertAt(t.node[f].row, i, FirstRow(t, c)),
                    child |-> InsertAt(t.node[f].child, i, c)]

LEMMA RemoveChildIs ==
  ASSUME NEW Q, NEW t \in Trees(Q), NEW f \in DOMAIN t.node,
         NEW i \in 1 .. Len(t.node[f].row), Len(t.node[f].child) = Len(t.node[f].row),
         NEW u, u = RemoveChild(t, f, i)
  PROVE  ChildOut(t, u, Q, f, i)
<1> DEFINE x == t.node[f]
           y == [row |-> RemoveAt(x.row, i), child |-> RemoveAt(x.child, i)]
<1>1. x \in Content(Q) BY TreeType
<1>2. x.row \in Seq(Q) /\ x.child \in Seq(Nat) BY <1>1, ContentType
<1>3. RemoveAt(x.row, i) \in Seq(Q) /\ RemoveAt(x.child, i) \in Seq(Nat)
  <2>1. i \in 1 .. Len(x.row) /\ i \in 1 .. Len(x.child) OBVIOUS
  <2> HIDE DEF x
  <2> QED BY <1>2, <2>1, Removed
<1>4. y \in Content(Q) BY <1>3 DEF Content
<1>5. u = Put(t, f, y) BY DEF RemoveChild, Put
<1> HIDE DEF y
<1>6. Changed(t, u, Q, {f}) /\ u.node[f] = y
  <2>1. Replaced(t, u, Q, f, y) BY <1>4, <1>5, PutNode
  <2> QED BY <2>1 DEF Replaced
<1> QED BY <1>6 DEF y, ChildOut

LEMMA InsertChildIs ==
  ASSUME NEW Q, NoRid \in Q, NEW t \in Trees(Q), NEW f \in DOMAIN t.node,
         NEW i \in 1 .. Len(t.node[f].row) + 1, Len(t.node[f].child) = Len(t.node[f].row),
         NEW c \in DOMAIN t.node,
         NEW u, u = InsertChild(t, f, i, c)
  PROVE  ChildIn(t, u, Q, f, i, c)
<1> DEFINE x == t.node[f]
           e == FirstRow(t, c)
           y == [row |-> InsertAt(x.row, i, e), child |-> InsertAt(x.child, i, c)]
<1>1. x \in Content(Q) /\ e \in Q /\ c \in Nat BY TreeType
<1>2. x.row \in Seq(Q) /\ x.child \in Seq(Nat) BY <1>1, ContentType
<1>3. InsertAt(x.row, i, e) \in Seq(Q) /\ InsertAt(x.child, i, c) \in Seq(Nat)
  <2>1. i \in 1 .. Len(x.row) + 1 /\ i \in 1 .. Len(x.child) + 1 OBVIOUS
  <2> HIDE DEF x, e
  <2> QED BY <1>1, <1>2, <2>1, Inserted
<1>4. y \in Content(Q) BY <1>3 DEF Content
<1>5. u = Put(t, f, y) BY DEF InsertChild, Put
<1> HIDE DEF x, e, y
<1>6. Changed(t, u, Q, {f}) /\ u.node[f] = y
  <2>1. Replaced(t, u, Q, f, y) BY <1>4, <1>5, PutNode
  <2> QED BY <2>1 DEF Replaced
<1> QED BY <1>6 DEF x, e, y, ChildIn

(* A row of a out, or in, and the father's row for a.                       *)
RowsAre(t, u, Q, f, p, a, s) ==
    /\ Changed(t, u, Q, {a, f})
    /\ u.node[a] = [row |-> s, child |-> t.node[a].child]
    /\ RowSet(t.node[f], u.node[f], {p})
    /\ u.node[f].row[p] = FirstRow(u, a)

LEMMA RowsChange ==
  ASSUME NEW Q, NoRid \in Q, NEW t \in Trees(Q), NEW f \in DOMAIN t.node,
         NEW p \in 1 .. Len(t.node[f].row), NEW a \in DOMAIN t.node, a # f, Child(t, f, p) = a,
         NEW s \in Seq(Q), NEW u, u = Refresh([t EXCEPT !.node[a].row = s], f, p)
  PROVE  RowsAre(t, u, Q, f, p, a, s)
<1> DEFINE x == t.node[a]
           y == [row |-> s, child |-> x.child]
           v == [t EXCEPT !.node[a].row = s]
<1>1. x \in Content(Q) BY TreeType
<1>2. x.child \in Seq(Nat) /\ x = [row |-> x.row, child |-> x.child] BY <1>1, ContentType
<1>3. y \in Content(Q) BY <1>2 DEF Content
<1>4. [x EXCEPT !.row = s] = y
  <2> HIDE DEF x
  <2> QED BY <1>2, PutRow
<1>5. v = Put(t, a, y)
  <2>1. v = [t EXCEPT !.node[a] = [x EXCEPT !.row = s]] OBVIOUS
  <2> QED BY <1>4, <2>1 DEF Put
<1> HIDE DEF y, v
<1>6. Changed(t, v, Q, {a}) /\ v.node[a] = y
  <2>1. Replaced(t, v, Q, a, y) BY <1>3, <1>5, PutNode
  <2> QED BY <2>1 DEF Replaced
<1>7. /\ v \in Trees(Q) /\ DOMAIN v.node = DOMAIN t.node /\ v.node[f] = t.node[f]
  BY <1>6 DEF Changed
<1>8. Child(v, f, p) = a /\ a \in DOMAIN v.node /\ f \in DOMAIN v.node /\ p \in 1 .. Len(v.node[f].row)
      /\ v \in Trees(Q)
  BY <1>7 DEF Child
<1>9. u = Refresh(v, f, p) BY DEF v
<1>10. /\ Changed(v, u, Q, {f})
       /\ RowSet(v.node[f], u.node[f], {p})
       /\ u.node[f].row[p] = FirstRow(u, a)
  <2>1. Refreshed(v, u, Q, f, p, a) BY <1>8, <1>9, RefreshIs
  <2> QED BY <2>1 DEF Refreshed
<1>11. Changed(t, u, Q, {a, f})
  <2>1. Changed(t, u, Q, {a} \union {f}) BY <1>6, <1>10, ChangedTwice
  <2>2. {a} \union {f} = {a, f} OBVIOUS
  <2> QED BY <2>1, <2>2
<1>12. u.node[a] = y BY <1>6, <1>7, <1>10 DEF Changed
<1> QED BY <1>7, <1>10, <1>11, <1>12 DEF RowsAre, y

-----------------------------------------------------------------------------
(* Moving between neighbours.                                               *)

(* One row, or one child, of a node out, and into another.                  *)
Taken(x, i) == [row   |-> RemoveAt(x.row, i),
                child |-> IF Leaf(x) THEN x.child ELSE RemoveAt(x.child, i)]
Given(y, k, x, i) == [row   |-> InsertAt(y.row, k, x.row[i]),
                      child |-> IF Leaf(x) THEN y.child ELSE InsertAt(y.child, k, x.child[i])]

(* moveitem once: from mv, the pm-th child of f, to nw, the pn-th.          *)
Transfer(t, f, pm, pn, mv, nw, i, k) ==
    IF Leaf(t.node[mv])
    THEN InsertRow(RemoveRow(t, f, pm, mv, i), f, pn, nw, k, t.node[mv].row[i])
    ELSE InsertChild(RemoveChild(t, mv, i), nw, k, Child(t, mv, i))

(* The i-th child of a node has the row that its father has for it.         *)
Carried(t, mv, nw, f, i) ==
    LET x == t.node[mv]
        c == Child(t, mv, i)
    IN  ~Leaf(x) => /\ c \in DOMAIN t.node /\ c # mv /\ c # nw /\ c # f
                    /\ x.row[i] = FirstRow(t, c)
                    /\ Len(x.child) = Len(x.row)
                    /\ Len(t.node[nw].child) = Len(t.node[nw].row)

(* u has x in a and y in b, the p-th and q-th children of f.                *)
Holding(t, u, Q, f, p, q, a, b, x, y) ==
    /\ Changed(t, u, Q, {a, b, f})
    /\ u.node[a] = x /\ u.node[b] = y
    /\ RowSet(t.node[f], u.node[f], {p, q})

RowsTransferred(t, u, f, p, q, a, b, leaf) ==
    IF leaf THEN u.node[f].row[p] = FirstRow(u, a) /\ u.node[f].row[q] = FirstRow(u, b)
    ELSE u.node[f] = t.node[f]

LEMMA RowsMoved ==
  ASSUME NEW Q, NoRid \in Q, NEW t \in Trees(Q),
         NEW f \in DOMAIN t.node, NEW mv \in DOMAIN t.node, NEW nw \in DOMAIN t.node,
         mv # nw, mv # f, nw # f,
         NEW pm \in 1 .. Len(t.node[f].row), NEW pn \in 1 .. Len(t.node[f].row), pm # pn,
         Child(t, f, pm) = mv, Child(t, f, pn) = nw,
         NEW i \in 1 .. Len(t.node[mv].row), NEW k \in 1 .. Len(t.node[nw].row) + 1,
         Leaf(t.node[mv]),
         NEW u, u = Transfer(t, f, pm, pn, mv, nw, i, k)
  PROVE  /\ Holding(t, u, Q, f, pm, pn, mv, nw, Taken(t.node[mv], i), Given(t.node[nw], k, t.node[mv], i))
         /\ RowsTransferred(t, u, f, pm, pn, mv, nw, TRUE)
<1> DEFINE x == t.node[mv]
           y == t.node[nw]
           e == x.row[i]
           s == RemoveAt(x.row, i)
           r == InsertAt(y.row, k, e)
           v == RemoveRow(t, f, pm, mv, i)
<1>1. x \in Content(Q) /\ y \in Content(Q) BY TreeType
<1>2. x.row \in Seq(Q) /\ y.row \in Seq(Q) /\ e \in Q
  <2>1. i \in 1 .. Len(x.row) OBVIOUS
  <2> HIDE DEF x, y
  <2> QED BY <1>1, <2>1, ContentType
<1>3. s \in Seq(Q) /\ r \in Seq(Q)
  <2>1. i \in 1 .. Len(x.row) /\ k \in 1 .. Len(y.row) + 1 OBVIOUS
  <2> HIDE DEF x, y, e
  <2> QED BY <1>2, <2>1, Inserted, Removed
<1>4. v = Refresh([t EXCEPT !.node[mv].row = s], f, pm) BY DEF RemoveRow
<1> HIDE DEF s, v
<1>5. RowsAre(t, v, Q, f, pm, mv, s) BY <1>3, <1>4, RowsChange
<1>6. /\ Changed(t, v, Q, {mv, f})
      /\ v.node[mv] = [row |-> s, child |-> x.child]
      /\ RowSet(t.node[f], v.node[f], {pm})
      /\ v.node[f].row[pm] = FirstRow(v, mv)
  BY <1>5 DEF RowsAre
<1>7. /\ v \in Trees(Q) /\ f \in DOMAIN v.node /\ nw \in DOMAIN v.node
      /\ pn \in 1 .. Len(v.node[f].row) /\ Child(v, f, pn) = nw
  BY <1>6 DEF Changed, RowSet, Child
<1>8. v.node[nw] = y BY <1>6 DEF Changed
<1>9. u = Refresh([v EXCEPT !.node[nw].row = r], f, pn)
  <2>1. u = InsertRow(v, f, pn, nw, k, e) BY DEF Transfer, v
  <2> QED BY <2>1, <1>8 DEF InsertRow
<1> HIDE DEF r
<1>10. RowsAre(v, u, Q, f, pn, nw, r) BY <1>3, <1>7, <1>9, RowsChange
<1>11. /\ Changed(v, u, Q, {nw, f})
       /\ u.node[nw] = [row |-> r, child |-> y.child]
       /\ RowSet(v.node[f], u.node[f], {pn})
       /\ u.node[f].row[pn] = FirstRow(u, nw)
  <2>1. /\ Changed(v, u, Q, {nw, f})
        /\ u.node[nw] = [row |-> r, child |-> v.node[nw].child]
        /\ RowSet(v.node[f], u.node[f], {pn})
        /\ u.node[f].row[pn] = FirstRow(u, nw)
    BY <1>10 DEF RowsAre
  <2>2. [row |-> r, child |-> v.node[nw].child] = [row |-> r, child |-> y.child] BY <1>8
  <2>3. u.node[nw] = [row |-> r, child |-> y.child] BY <2>1, <2>2
  <2> QED BY <2>1, <2>3
<1>12. u.node[mv] = v.node[mv] BY <1>6, <1>11 DEF Changed
<1>13. u.node[mv] = Taken(x, i) /\ u.node[nw] = Given(y, k, x, i)
  BY <1>6, <1>11, <1>12 DEF Taken, Given, s, r
<1>14. RowSet(t.node[f], u.node[f], {pm, pn}) BY <1>6, <1>11 DEF RowSet
<1>15. Changed(t, u, Q, {mv, nw, f})
  <2>1. Changed(t, u, Q, {mv, f} \union {nw, f}) BY <1>6, <1>11, ChangedTwice
  <2>2. {mv, f} \union {nw, f} = {mv, nw, f} OBVIOUS
  <2> QED BY <2>1, <2>2
<1>16. u.node[f].row[pm] = FirstRow(u, mv)
  <2>1. u.node[f].row[pm] = v.node[f].row[pm] BY <1>6, <1>11 DEF RowSet
  <2>2. FirstRow(u, mv) = FirstRow(v, mv) BY <1>12 DEF FirstRow
  <2> QED BY <2>1, <2>2, <1>6
<1> QED BY <1>11, <1>13, <1>14, <1>15, <1>16 DEF Holding, RowsTransferred

LEMMA ChildMoved ==
  ASSUME NEW Q, NoRid \in Q, NEW t \in Trees(Q),
         NEW f \in DOMAIN t.node, NEW mv \in DOMAIN t.node, NEW nw \in DOMAIN t.node,
         mv # nw, mv # f, nw # f, NEW pm, NEW pn,
         NEW i \in 1 .. Len(t.node[mv].row), NEW k \in 1 .. Len(t.node[nw].row) + 1,
         ~Leaf(t.node[mv]), Carried(t, mv, nw, f, i),
         NEW u, u = Transfer(t, f, pm, pn, mv, nw, i, k)
  PROVE  /\ Holding(t, u, Q, f, pm, pn, mv, nw, Taken(t.node[mv], i), Given(t.node[nw], k, t.node[mv], i))
         /\ RowsTransferred(t, u, f, pm, pn, mv, nw, FALSE)
<1> DEFINE x == t.node[mv]
           y == t.node[nw]
           c == Child(t, mv, i)
           v == RemoveChild(t, mv, i)
<1>1. /\ c \in DOMAIN t.node /\ c # mv /\ c # nw /\ c # f /\ x.row[i] = FirstRow(t, c)
      /\ Len(x.child) = Len(x.row) /\ Len(y.child) = Len(y.row)
  BY DEF Carried
<1>2. c = x.child[i] BY DEF Child
<1> HIDE DEF v, c
<1>3. /\ Changed(t, v, Q, {mv})
      /\ v.node[mv] = [row |-> RemoveAt(x.row, i), child |-> RemoveAt(x.child, i)]
  <2>1. ChildOut(t, v, Q, mv, i) BY <1>1, RemoveChildIs DEF v
  <2> QED BY <2>1 DEF ChildOut
<1>4. /\ v \in Trees(Q) /\ nw \in DOMAIN v.node /\ c \in DOMAIN v.node
      /\ v.node[nw] = y /\ v.node[c] = t.node[c] /\ v.node[f] = t.node[f]
  BY <1>1, <1>3 DEF Changed
<1>5. FirstRow(v, c) = x.row[i] BY <1>1, <1>4 DEF FirstRow
<1>6. u = InsertChild(v, nw, k, c) BY DEF Transfer, v, c
<1>7. k \in 1 .. Len(v.node[nw].row) + 1 /\ Len(v.node[nw].child) = Len(v.node[nw].row)
  BY <1>1, <1>4
<1>7a. v \in Trees(Q) /\ nw \in DOMAIN v.node /\ c \in DOMAIN v.node BY <1>4
<1>8. /\ Changed(v, u, Q, {nw})
      /\ u.node[nw] = [row |-> InsertAt(v.node[nw].row, k, FirstRow(v, c)),
                       child |-> InsertAt(v.node[nw].child, k, c)]
  <2>1. ChildIn(v, u, Q, nw, k, c) BY <1>6, <1>7, <1>7a, InsertChildIs
  <2> QED BY <2>1 DEF ChildIn
<1>9. u.node[nw] = Given(y, k, x, i) BY <1>2, <1>4, <1>5, <1>8 DEF Given
<1>10. u.node[mv] = Taken(x, i)
  <2>1. u.node[mv] = v.node[mv] BY <1>3, <1>8 DEF Changed
  <2> QED BY <2>1, <1>3 DEF Taken
<1>11. u.node[f] = t.node[f] BY <1>4, <1>8, <1>3 DEF Changed
<1>12. Changed(t, u, Q, {mv, nw, f})
  <2>1. Changed(t, u, Q, {mv} \union {nw}) BY <1>3, <1>8, ChangedTwice
  <2> QED BY <2>1 DEF Changed
<1>13. RowSet(t.node[f], u.node[f], {pm, pn}) BY <1>11 DEF RowSet
<1> QED BY <1>9, <1>10, <1>11, <1>12, <1>13 DEF Holding, RowsTransferred

LEMMA TransferIs ==
  ASSUME NEW Q, NoRid \in Q, NEW t \in Trees(Q),
         NEW f \in DOMAIN t.node, NEW mv \in DOMAIN t.node, NEW nw \in DOMAIN t.node,
         mv # nw, mv # f, nw # f,
         NEW pm \in 1 .. Len(t.node[f].row), NEW pn \in 1 .. Len(t.node[f].row), pm # pn,
         Child(t, f, pm) = mv, Child(t, f, pn) = nw,
         NEW i \in 1 .. Len(t.node[mv].row), NEW k \in 1 .. Len(t.node[nw].row) + 1,
         Carried(t, mv, nw, f, i),
         NEW u, u = Transfer(t, f, pm, pn, mv, nw, i, k)
  PROVE  /\ Holding(t, u, Q, f, pm, pn, mv, nw, Taken(t.node[mv], i), Given(t.node[nw], k, t.node[mv], i))
         /\ RowsTransferred(t, u, f, pm, pn, mv, nw, Leaf(t.node[mv]))
<1>1. CASE Leaf(t.node[mv])
  <2>1. Leaf(t.node[mv]) = TRUE BY <1>1
  <2> QED BY <1>1, <2>1, RowsMoved
<1>2. CASE ~Leaf(t.node[mv])
  <2>1. Leaf(t.node[mv]) = FALSE BY <1>2
  <2> QED BY <1>2, <2>1, ChildMoved
<1> QED BY <1>1, <1>2

(* Two nodes of one height, as far as their lengths show.                   *)
Alike(x, y) ==
    \/ Leaf(x) /\ Leaf(y)
    \/ ~Leaf(x) /\ ~Leaf(y) /\ Len(x.child) = Len(x.row) /\ Len(y.child) = Len(y.row)

LEMMA SubEnds ==
  ASSUME NEW R, NEW s \in Seq(R), NEW k \in 1 .. Len(s)
  PROVE  /\ SubSeq(s, 1, k) \in Seq(R) /\ Len(SubSeq(s, 1, k)) = k /\ SubSeq(s, 1, k)[k] = s[k]
         /\ SubSeq(s, k, Len(s)) \in Seq(R) /\ Len(SubSeq(s, k, Len(s))) = Len(s) - k + 1
         /\ SubSeq(s, k, Len(s))[1] = s[k]
         /\ SubSeq(s, k + 1, Len(s)) \in Seq(R) /\ Len(SubSeq(s, k + 1, Len(s))) = Len(s) - k
         /\ SubSeq(s, 1, k - 1) \in Seq(R) /\ Len(SubSeq(s, 1, k - 1)) = k - 1
<1> DEFINE n == Len(s)
<1>0. n \in Nat /\ k \in 1 .. n BY LenProperties
<1>1. \A i \in 1 .. n : s[i] \in R BY ElementOfSeq
<1> HIDE DEF n
<1>2. ASSUME NEW i \in Int, NEW l \in Int, i >= 1, l <= n, i <= l + 1
      PROVE  /\ SubSeq(s, i, l) \in Seq(R) /\ Len(SubSeq(s, i, l)) = l - i + 1
             /\ \A j \in 1 .. l - i + 1 : SubSeq(s, i, l)[j] = s[i + j - 1]
  <2>1. \A j \in i .. l : s[j] \in R BY <1>0, <1>1, <1>2
  <2>2. (IF i <= l THEN l - i + 1 ELSE 0) = l - i + 1 BY <1>2
  <2> QED BY <2>1, <2>2, SubSeqProperties
<1>3. /\ SubSeq(s, 1, k) \in Seq(R) /\ Len(SubSeq(s, 1, k)) = k - 1 + 1
      /\ \A j \in 1 .. k - 1 + 1 : SubSeq(s, 1, k)[j] = s[1 + j - 1]
  <2>1. 1 \in Int /\ k \in Int /\ 1 >= 1 /\ k <= n /\ 1 <= k + 1 BY <1>0
  <2> QED BY <2>1, <1>2
<1>4. /\ SubSeq(s, k, n) \in Seq(R) /\ Len(SubSeq(s, k, n)) = n - k + 1
      /\ \A j \in 1 .. n - k + 1 : SubSeq(s, k, n)[j] = s[k + j - 1]
  <2>1. n \in Int /\ k \in Int /\ k >= 1 /\ n <= n /\ k <= n + 1 BY <1>0
  <2> QED BY <2>1, <1>2
<1>5. SubSeq(s, k + 1, n) \in Seq(R) /\ Len(SubSeq(s, k + 1, n)) = n - (k + 1) + 1
  <2>1. n \in Int /\ k + 1 \in Int /\ k + 1 >= 1 /\ n <= n /\ k + 1 <= n + 1 BY <1>0
  <2> QED BY <2>1, <1>2
<1>6. SubSeq(s, 1, k - 1) \in Seq(R) /\ Len(SubSeq(s, 1, k - 1)) = k - 1 - 1 + 1
  <2>1. 1 \in Int /\ k - 1 \in Int /\ 1 >= 1 /\ k - 1 <= n /\ 1 <= k - 1 + 1 BY <1>0
  <2> QED BY <2>1, <1>2
<1>7. /\ k - 1 + 1 = k /\ n - (k + 1) + 1 = n - k /\ k - 1 - 1 + 1 = k - 1
      /\ k \in 1 .. k - 1 + 1 /\ 1 + k - 1 = k /\ 1 \in 1 .. n - k + 1 /\ k + 1 - 1 = k
  BY <1>0
<1>8. SubSeq(s, 1, k)[k] = s[k] /\ SubSeq(s, k, n)[1] = s[k]
  <2>1. SubSeq(s, 1, k)[k] = s[1 + k - 1] BY <1>3, <1>7
  <2>2. SubSeq(s, k, n)[1] = s[k + 1 - 1] BY <1>4, <1>7
  <2> QED BY <2>1, <2>2, <1>7
<1>9. Len(SubSeq(s, 1, k)) = k /\ Len(SubSeq(s, k + 1, n)) = n - k /\ Len(SubSeq(s, 1, k - 1)) = k - 1
  BY <1>3, <1>5, <1>6, <1>7
<1> QED BY <1>3, <1>4, <1>5, <1>6, <1>8, <1>9 DEF n

LEMMA RightEnds ==
  ASSUME NEW Q, NEW x \in Content(Q), NEW y \in Content(Q), Alike(x, y), NEW k \in 1 .. Len(x.row)
  PROVE  /\ Taken(Part(x, 1, k), k) = Part(x, 1, k - 1)
         /\ Given(Cat(Part(x, k + 1, Len(x.row)), y), 1, Part(x, 1, k), k) = Cat(Part(x, k, Len(x.row)), y)
         /\ Len(Part(x, 1, k).row) = k
         /\ Leaf(Part(x, 1, k)) = Leaf(x)
         /\ ~Leaf(x) => /\ Len(Part(x, 1, k).child) = k
                        /\ Part(x, 1, k).child[k] = x.child[k] /\ Part(x, 1, k).row[k] = x.row[k]
                        /\ Len(Cat(Part(x, k + 1, Len(x.row)), y).child) = Len(Cat(Part(x, k + 1, Len(x.row)), y).row)
         /\ Len(Cat(Part(x, k + 1, Len(x.row)), y).row) \in Nat
<1> DEFINE n == Len(x.row)
           z == Cat(Part(x, k + 1, n), y)
<1>1. x.row \in Seq(Q) /\ y.row \in Seq(Q) /\ x.child \in Seq(Nat) /\ y.child \in Seq(Nat) /\ n \in Nat
      /\ Len(y.row) \in Nat
  BY ContentType
<1>2. /\ RemoveAt(SubSeq(x.row, 1, k), k) = SubSeq(x.row, 1, k - 1)
      /\ InsertAt(SubSeq(x.row, k + 1, n) \o y.row, 1, x.row[k]) = SubSeq(x.row, k, n) \o y.row
  BY <1>1, EndsMove
<1>3. /\ SubSeq(x.row, 1, k) \in Seq(Q) /\ Len(SubSeq(x.row, 1, k)) = k /\ SubSeq(x.row, 1, k)[k] = x.row[k]
      /\ SubSeq(x.row, k + 1, n) \in Seq(Q) /\ Len(SubSeq(x.row, k + 1, n)) = n - k
  BY <1>1, SubEnds
<1>4. Len(z.row) = n - k + Len(y.row)
  <2>1. z.row = SubSeq(x.row, k + 1, n) \o y.row BY DEF Cat, Part
  <2>2. Len(SubSeq(x.row, k + 1, n) \o y.row) = Len(SubSeq(x.row, k + 1, n)) + Len(y.row)
    BY <1>1, <1>3, ConcatProperties
  <2> HIDE DEF z
  <2> QED BY <2>1, <2>2, <1>3
<1>5. Part(x, 1, k).row = SubSeq(x.row, 1, k) BY DEF Part
<1>6. CASE Leaf(x) /\ Leaf(y)
  <2>1. Part(x, 1, k) = [row |-> SubSeq(x.row, 1, k), child |-> <<>>] /\ Leaf(Part(x, 1, k))
    BY <1>6 DEF Part, Leaf
  <2>2. Taken(Part(x, 1, k), k) = Part(x, 1, k - 1) BY <2>1, <1>2, <1>6 DEF Taken, Part
  <2>3. /\ Cat(Part(x, k + 1, n), y) = [row |-> SubSeq(x.row, k + 1, n) \o y.row, child |-> <<>> \o y.child]
        /\ Cat(Part(x, k, n), y) = [row |-> SubSeq(x.row, k, n) \o y.row, child |-> <<>> \o y.child]
    BY <1>6 DEF Part, Cat
  <2>4. Given(Cat(Part(x, k + 1, n), y), 1, Part(x, 1, k), k) = Cat(Part(x, k, n), y)
    <3>1. /\ Cat(Part(x, k + 1, n), y).row = SubSeq(x.row, k + 1, n) \o y.row
          /\ Cat(Part(x, k + 1, n), y).child = <<>> \o y.child
          /\ Part(x, 1, k).row[k] = x.row[k]
      <4>1. Cat(Part(x, k + 1, n), y).row = SubSeq(x.row, k + 1, n) \o y.row BY DEF Cat, Part
      <4>2. Cat(Part(x, k + 1, n), y).child = <<>> \o y.child BY <1>6 DEF Cat, Part
      <4> QED BY <4>1, <4>2, <1>3, <1>5
    <3>2. Given(Cat(Part(x, k + 1, n), y), 1, Part(x, 1, k), k)
             = [row |-> InsertAt(Cat(Part(x, k + 1, n), y).row, 1, Part(x, 1, k).row[k]),
                child |-> Cat(Part(x, k + 1, n), y).child]
      BY <2>1 DEF Given
    <3>3. Given(Cat(Part(x, k + 1, n), y), 1, Part(x, 1, k), k)
             = [row |-> InsertAt(SubSeq(x.row, k + 1, n) \o y.row, 1, x.row[k]), child |-> <<>> \o y.child]
      BY <3>1, <3>2
    <3> QED BY <3>3, <2>3, <1>2
  <2>5. Len(Part(x, 1, k).row) = k /\ Len(z.row) \in Nat BY <1>1, <1>3, <1>4, <1>5
  <2>6. Leaf(Part(x, 1, k)) = TRUE /\ Leaf(x) = TRUE
    <3>1. Part(x, 1, k).child = <<>> /\ x.child = <<>> BY <2>1, <1>6 DEF Leaf
    <3> QED BY <3>1 DEF Leaf
  <2> QED BY <2>2, <2>4, <2>5, <2>6
<1>7. CASE ~Leaf(x) /\ ~Leaf(y) /\ Len(x.child) = Len(x.row) /\ Len(y.child) = Len(y.row)
  <2>1. Part(x, 1, k) = [row |-> SubSeq(x.row, 1, k), child |-> SubSeq(x.child, 1, k)]
    BY <1>7 DEF Part
  <2>0. k \in 1 .. Len(x.child) /\ Len(x.child) = n BY <1>7
  <2>2. /\ RemoveAt(SubSeq(x.child, 1, k), k) = SubSeq(x.child, 1, k - 1)
        /\ InsertAt(SubSeq(x.child, k + 1, Len(x.child)) \o y.child, 1, x.child[k])
              = SubSeq(x.child, k, Len(x.child)) \o y.child
    BY <1>1, <2>0, EndsMove
  <2>3. /\ SubSeq(x.child, 1, k) \in Seq(Nat) /\ Len(SubSeq(x.child, 1, k)) = k
        /\ SubSeq(x.child, 1, k)[k] = x.child[k]
        /\ SubSeq(x.child, k + 1, Len(x.child)) \in Seq(Nat)
        /\ Len(SubSeq(x.child, k + 1, Len(x.child))) = Len(x.child) - k
    <3> DEFINE s == x.child
    <3>1. s \in Seq(Nat) /\ k \in 1 .. Len(s) BY <1>1, <2>0
    <3> HIDE DEF s
    <3>2. /\ SubSeq(s, 1, k) \in Seq(Nat) /\ Len(SubSeq(s, 1, k)) = k /\ SubSeq(s, 1, k)[k] = s[k]
          /\ SubSeq(s, k + 1, Len(s)) \in Seq(Nat) /\ Len(SubSeq(s, k + 1, Len(s))) = Len(s) - k
      BY <3>1, SubEnds
    <3> QED BY <3>2 DEF s
  <2>4. ~Leaf(Part(x, 1, k))
    <3>1. SubSeq(x.child, 1, k) # <<>> BY <2>3, EmptySeq
    <3> QED BY <2>1, <3>1 DEF Leaf
  <2>5. Taken(Part(x, 1, k), k) = Part(x, 1, k - 1) BY <2>1, <2>2, <2>4, <1>2, <1>7 DEF Taken, Part
  <2>6. /\ Cat(Part(x, k + 1, n), y)
              = [row |-> SubSeq(x.row, k + 1, n) \o y.row, child |-> SubSeq(x.child, k + 1, n) \o y.child]
        /\ Cat(Part(x, k, n), y)
              = [row |-> SubSeq(x.row, k, n) \o y.row, child |-> SubSeq(x.child, k, n) \o y.child]
    BY <1>7 DEF Part, Cat
  <2>10. Part(x, 1, k).child[k] = x.child[k] /\ Len(Part(x, 1, k).child) = k /\ Part(x, 1, k).row[k] = x.row[k]
    <3>1. Part(x, 1, k).row = SubSeq(x.row, 1, k) /\ Part(x, 1, k).child = SubSeq(x.child, 1, k)
      BY <2>1
    <3> QED BY <3>1, <2>3, <1>3
  <2>7. Given(Cat(Part(x, k + 1, n), y), 1, Part(x, 1, k), k) = Cat(Part(x, k, n), y)
    <3>1. InsertAt(SubSeq(x.child, k + 1, n) \o y.child, 1, x.child[k]) = SubSeq(x.child, k, n) \o y.child
      BY <2>2, <2>0
    <3>2. /\ Cat(Part(x, k + 1, n), y).row = SubSeq(x.row, k + 1, n) \o y.row
          /\ Cat(Part(x, k + 1, n), y).child = SubSeq(x.child, k + 1, n) \o y.child
      BY <1>7 DEF Cat, Part
    <3>3. Given(Cat(Part(x, k + 1, n), y), 1, Part(x, 1, k), k)
             = [row |-> InsertAt(Cat(Part(x, k + 1, n), y).row, 1, Part(x, 1, k).row[k]),
                child |-> InsertAt(Cat(Part(x, k + 1, n), y).child, 1, Part(x, 1, k).child[k])]
      BY <2>4 DEF Given
    <3>4. Given(Cat(Part(x, k + 1, n), y), 1, Part(x, 1, k), k)
             = [row |-> InsertAt(SubSeq(x.row, k + 1, n) \o y.row, 1, x.row[k]),
                child |-> InsertAt(SubSeq(x.child, k + 1, n) \o y.child, 1, x.child[k])]
      BY <3>2, <3>3, <2>10
    <3> QED BY <3>1, <3>4, <2>6, <1>2
  <2>8. Len(z.child) = Len(z.row)
    <3>1. z.child = SubSeq(x.child, k + 1, Len(x.child)) \o y.child
      <4>1. z.child = SubSeq(x.child, k + 1, n) \o y.child BY <1>7 DEF Cat, Part
      <4> QED BY <4>1, <2>0
    <3>2. Len(SubSeq(x.child, k + 1, Len(x.child)) \o y.child) = Len(SubSeq(x.child, k + 1, Len(x.child))) + Len(y.child)
      BY <1>1, <2>3, ConcatProperties
    <3> HIDE DEF z
    <3> QED BY <3>1, <3>2, <2>3, <2>0, <1>4, <1>7
  <2>9. Leaf(Part(x, 1, k)) = Leaf(x)
    <3>1. Leaf(Part(x, 1, k)) = FALSE /\ Leaf(x) = FALSE BY <2>4, <1>7 DEF Leaf
    <3> QED BY <3>1
  <2>11. Len(Part(x, 1, k).row) = k /\ Len(z.row) \in Nat BY <1>1, <1>3, <1>4, <1>5
  <2> QED BY <2>5, <2>7, <2>8, <2>9, <2>10, <2>11
<1> QED BY <1>6, <1>7 DEF Alike

LEMMA LeftEnds ==
  ASSUME NEW Q, NEW x \in Content(Q), NEW y \in Content(Q), Alike(x, y), NEW k \in 1 .. Len(y.row)
  PROVE  /\ Taken(Part(y, k, Len(y.row)), 1) = Part(y, k + 1, Len(y.row))
         /\ Given(Cat(x, Part(y, 1, k - 1)), Len(x.row) + k, Part(y, k, Len(y.row)), 1) = Cat(x, Part(y, 1, k))
         /\ Len(Part(y, k, Len(y.row)).row) = Len(y.row) - k + 1
         /\ Leaf(Part(y, k, Len(y.row))) = Leaf(y)
         /\ ~Leaf(y) => /\ Len(Part(y, k, Len(y.row)).child) = Len(y.row) - k + 1
                        /\ Part(y, k, Len(y.row)).child[1] = y.child[k]
                        /\ Part(y, k, Len(y.row)).row[1] = y.row[k]
                        /\ Len(Cat(x, Part(y, 1, k - 1)).child) = Len(Cat(x, Part(y, 1, k - 1)).row)
         /\ Len(Cat(x, Part(y, 1, k - 1)).row) = Len(x.row) + k - 1
<1> DEFINE n == Len(y.row)
           z == Cat(x, Part(y, 1, k - 1))
<1>1. x.row \in Seq(Q) /\ y.row \in Seq(Q) /\ x.child \in Seq(Nat) /\ y.child \in Seq(Nat) /\ n \in Nat
      /\ Len(x.row) \in Nat
  BY ContentType
<1>2. /\ RemoveAt(SubSeq(y.row, k, n), 1) = SubSeq(y.row, k + 1, n)
      /\ InsertAt(x.row \o SubSeq(y.row, 1, k - 1), Len(x.row) + k, y.row[k]) = x.row \o SubSeq(y.row, 1, k)
  BY <1>1, EndsMove
<1>3. /\ SubSeq(y.row, k, n) \in Seq(Q) /\ Len(SubSeq(y.row, k, n)) = n - k + 1 /\ SubSeq(y.row, k, n)[1] = y.row[k]
      /\ SubSeq(y.row, 1, k - 1) \in Seq(Q) /\ Len(SubSeq(y.row, 1, k - 1)) = k - 1
  BY <1>1, SubEnds
<1>4. Len(z.row) = Len(x.row) + k - 1
  <2>1. z.row = x.row \o SubSeq(y.row, 1, k - 1) BY DEF Cat, Part
  <2>2. Len(x.row \o SubSeq(y.row, 1, k - 1)) = Len(x.row) + Len(SubSeq(y.row, 1, k - 1))
    BY <1>1, <1>3, ConcatProperties
  <2>3. Len(x.row) + (k - 1) = Len(x.row) + k - 1 BY <1>1
  <2> HIDE DEF z
  <2> QED BY <2>1, <2>2, <2>3, <1>3
<1>5. Part(y, k, n).row = SubSeq(y.row, k, n) BY DEF Part
<1>6. CASE Leaf(x) /\ Leaf(y)
  <2>1. Part(y, k, n) = [row |-> SubSeq(y.row, k, n), child |-> <<>>] /\ Leaf(Part(y, k, n))
    BY <1>6 DEF Part, Leaf
  <2>2. Taken(Part(y, k, n), 1) = Part(y, k + 1, n) BY <2>1, <1>2, <1>6 DEF Taken, Part
  <2>3. /\ Cat(x, Part(y, 1, k - 1)) = [row |-> x.row \o SubSeq(y.row, 1, k - 1), child |-> x.child \o <<>>]
        /\ Cat(x, Part(y, 1, k)) = [row |-> x.row \o SubSeq(y.row, 1, k), child |-> x.child \o <<>>]
    BY <1>6 DEF Part, Cat
  <2>4. Given(Cat(x, Part(y, 1, k - 1)), Len(x.row) + k, Part(y, k, n), 1) = Cat(x, Part(y, 1, k))
    <3>1. /\ Cat(x, Part(y, 1, k - 1)).row = x.row \o SubSeq(y.row, 1, k - 1)
          /\ Cat(x, Part(y, 1, k - 1)).child = x.child \o <<>>
          /\ Part(y, k, n).row[1] = y.row[k]
      <4>1. Cat(x, Part(y, 1, k - 1)).row = x.row \o SubSeq(y.row, 1, k - 1) BY DEF Cat, Part
      <4>2. Cat(x, Part(y, 1, k - 1)).child = x.child \o <<>> BY <1>6 DEF Cat, Part
      <4> QED BY <4>1, <4>2, <1>3, <1>5
    <3>2. Given(Cat(x, Part(y, 1, k - 1)), Len(x.row) + k, Part(y, k, n), 1)
             = [row |-> InsertAt(Cat(x, Part(y, 1, k - 1)).row, Len(x.row) + k, Part(y, k, n).row[1]),
                child |-> Cat(x, Part(y, 1, k - 1)).child]
      BY <2>1 DEF Given
    <3>3. Given(Cat(x, Part(y, 1, k - 1)), Len(x.row) + k, Part(y, k, n), 1)
             = [row |-> InsertAt(x.row \o SubSeq(y.row, 1, k - 1), Len(x.row) + k, y.row[k]),
                child |-> x.child \o <<>>]
      BY <3>1, <3>2
    <3> QED BY <3>3, <2>3, <1>2
  <2>5. Len(Part(y, k, n).row) = n - k + 1 BY <1>1, <1>3, <1>5
  <2>6. Leaf(Part(y, k, n)) = TRUE /\ Leaf(y) = TRUE
    <3>1. Part(y, k, n).child = <<>> /\ y.child = <<>> BY <2>1, <1>6 DEF Leaf
    <3> QED BY <3>1 DEF Leaf
  <2> QED BY <2>2, <2>4, <2>5, <2>6, <1>4
<1>7. CASE ~Leaf(x) /\ ~Leaf(y) /\ Len(x.child) = Len(x.row) /\ Len(y.child) = Len(y.row)
  <2>1. Part(y, k, n) = [row |-> SubSeq(y.row, k, n), child |-> SubSeq(y.child, k, n)]
    BY <1>7 DEF Part
  <2>0. k \in 1 .. Len(y.child) /\ Len(y.child) = n BY <1>7
  <2>2. /\ RemoveAt(SubSeq(y.child, k, Len(y.child)), 1) = SubSeq(y.child, k + 1, Len(y.child))
        /\ InsertAt(x.child \o SubSeq(y.child, 1, k - 1), Len(x.child) + k, y.child[k])
              = x.child \o SubSeq(y.child, 1, k)
    BY <1>1, <2>0, EndsMove, Zenon
  <2>3. /\ SubSeq(y.child, k, Len(y.child)) \in Seq(Nat)
        /\ Len(SubSeq(y.child, k, Len(y.child))) = Len(y.child) - k + 1
        /\ SubSeq(y.child, k, Len(y.child))[1] = y.child[k]
        /\ SubSeq(y.child, 1, k - 1) \in Seq(Nat)
        /\ Len(SubSeq(y.child, 1, k - 1)) = k - 1
    <3> DEFINE s == y.child
    <3>1. s \in Seq(Nat) /\ k \in 1 .. Len(s) BY <1>1, <2>0
    <3> HIDE DEF s
    <3>2. /\ SubSeq(s, k, Len(s)) \in Seq(Nat) /\ Len(SubSeq(s, k, Len(s))) = Len(s) - k + 1
          /\ SubSeq(s, k, Len(s))[1] = s[k]
          /\ SubSeq(s, 1, k - 1) \in Seq(Nat) /\ Len(SubSeq(s, 1, k - 1)) = k - 1
      BY <3>1, SubEnds
    <3> QED BY <3>2 DEF s
  <2>31. /\ SubSeq(y.child, k, n) \in Seq(Nat) /\ Len(SubSeq(y.child, k, n)) = n - k + 1
         /\ SubSeq(y.child, k, n)[1] = y.child[k]
         /\ RemoveAt(SubSeq(y.child, k, n), 1) = SubSeq(y.child, k + 1, n)
    BY <2>0, <2>2, <2>3
  <2>4. ~Leaf(Part(y, k, n))
    <3>1. n - k + 1 # 0 BY <1>1
    <3>2. SubSeq(y.child, k, n) # <<>> BY <3>1, <2>31, EmptySeq
    <3> QED BY <2>1, <3>2 DEF Leaf
  <2>5. Taken(Part(y, k, n), 1) = Part(y, k + 1, n) BY <2>1, <2>31, <2>4, <1>2, <1>7 DEF Taken, Part
  <2>6. /\ Cat(x, Part(y, 1, k - 1))
              = [row |-> x.row \o SubSeq(y.row, 1, k - 1), child |-> x.child \o SubSeq(y.child, 1, k - 1)]
        /\ Cat(x, Part(y, 1, k))
              = [row |-> x.row \o SubSeq(y.row, 1, k), child |-> x.child \o SubSeq(y.child, 1, k)]
    BY <1>7 DEF Part, Cat
  <2>10. /\ Part(y, k, n).child[1] = y.child[k] /\ Len(Part(y, k, n).child) = n - k + 1
         /\ Part(y, k, n).row[1] = y.row[k]
    <3>1. Part(y, k, n).row = SubSeq(y.row, k, n) /\ Part(y, k, n).child = SubSeq(y.child, k, n)
      BY <2>1
    <3> QED BY <3>1, <2>31, <1>3
  <2>7. Given(Cat(x, Part(y, 1, k - 1)), Len(x.row) + k, Part(y, k, n), 1) = Cat(x, Part(y, 1, k))
    <3>1. InsertAt(x.child \o SubSeq(y.child, 1, k - 1), Len(x.row) + k, y.child[k])
              = x.child \o SubSeq(y.child, 1, k)
      BY <2>2, <1>7
    <3>2. /\ Cat(x, Part(y, 1, k - 1)).row = x.row \o SubSeq(y.row, 1, k - 1)
          /\ Cat(x, Part(y, 1, k - 1)).child = x.child \o SubSeq(y.child, 1, k - 1)
      BY <1>7 DEF Cat, Part
    <3>3. Given(Cat(x, Part(y, 1, k - 1)), Len(x.row) + k, Part(y, k, n), 1)
             = [row |-> InsertAt(Cat(x, Part(y, 1, k - 1)).row, Len(x.row) + k, Part(y, k, n).row[1]),
                child |-> InsertAt(Cat(x, Part(y, 1, k - 1)).child, Len(x.row) + k, Part(y, k, n).child[1])]
      BY <2>4 DEF Given
    <3>4. Given(Cat(x, Part(y, 1, k - 1)), Len(x.row) + k, Part(y, k, n), 1)
             = [row |-> InsertAt(x.row \o SubSeq(y.row, 1, k - 1), Len(x.row) + k, y.row[k]),
                child |-> InsertAt(x.child \o SubSeq(y.child, 1, k - 1), Len(x.row) + k, y.child[k])]
      BY <3>2, <3>3, <2>10
    <3> QED BY <3>1, <3>4, <2>6, <1>2
  <2>8. Len(z.child) = Len(z.row)
    <3>1. z.child = x.child \o SubSeq(y.child, 1, k - 1) BY <1>7 DEF Cat, Part
    <3>2. Len(x.child \o SubSeq(y.child, 1, k - 1)) = Len(x.child) + Len(SubSeq(y.child, 1, k - 1))
      BY <1>1, <2>3, ConcatProperties
    <3>3. Len(x.row) + (k - 1) = Len(x.row) + k - 1 BY <1>1
    <3> HIDE DEF z
    <3> QED BY <3>1, <3>2, <3>3, <2>3, <1>4, <1>7
  <2>9. Leaf(Part(y, k, n)) = Leaf(y)
    <3>1. Leaf(Part(y, k, n)) = FALSE /\ Leaf(y) = FALSE BY <2>4, <1>7 DEF Leaf
    <3> QED BY <3>1
  <2>11. Len(Part(y, k, n).row) = n - k + 1 BY <1>1, <1>3, <1>4, <1>5
  <2> QED BY <2>5, <2>7, <2>8, <2>9, <2>10, <2>11, <1>4
<1> QED BY <1>6, <1>7 DEF Alike

(* Two neighbours below f, whose children f's rows are not about.           *)
Named(t, c, S) ==
    ~Leaf(t.node[c]) => \A i \in 1 .. Len(t.node[c].row) :
        /\ t.node[c].child[i] \in DOMAIN t.node \ S
        /\ t.node[c].row[i] = FirstRow(t, t.node[c].child[i])

Neighbours(t, f, p, a, b) ==
    /\ f \in DOMAIN t.node /\ a \in DOMAIN t.node /\ b \in DOMAIN t.node
    /\ a # b /\ a # f /\ b # f
    /\ p \in 1 .. Len(t.node[f].row) /\ p + 1 \in 1 .. Len(t.node[f].row)
    /\ Child(t, f, p) = a /\ Child(t, f, p + 1) = b
    /\ Alike(t.node[a], t.node[b])
    /\ Named(t, a, {a, b, f}) /\ Named(t, b, {a, b, f})

FirstKept(t, u, f, p, a) ==
    \/ u.node[f].row[p] = t.node[f].row[p]
    \/ Leaf(t.node[a]) /\ u.node[f].row[p] = FirstRow(u, a)

Moved(t, u, Q, f, p, a, b, x, y) ==
    /\ Holding(t, u, Q, f, p, p + 1, a, b, x, y)
    /\ FirstKept(t, u, f, p, a)

(* One moved after others.                                                  *)
LEMMA MovedOn ==
  ASSUME NEW Q, NEW t, NEW u, NEW v, NEW f, NEW p, NEW a, NEW b, NEW x, NEW y, NEW z, NEW w,
         f \in DOMAIN t.node, a \in DOMAIN t.node, b \in DOMAIN t.node, a # f, b # f,
         Moved(t, u, Q, f, p, a, b, x, y),
         Holding(u, v, Q, f, p, p + 1, a, b, z, w),
         RowsTransferred(u, v, f, p, p + 1, a, b, Leaf(t.node[a]))
  PROVE  Moved(t, v, Q, f, p, a, b, z, w)
<1>1. /\ Changed(t, u, Q, {a, b, f}) /\ RowSet(t.node[f], u.node[f], {p, p + 1})
      /\ Changed(u, v, Q, {a, b, f}) /\ RowSet(u.node[f], v.node[f], {p, p + 1})
      /\ v.node[a] = z /\ v.node[b] = w
  BY DEF Moved, Holding
<1>2. Changed(t, v, Q, {a, b, f}) BY <1>1 DEF Changed
<1>3. RowSet(t.node[f], v.node[f], {p, p + 1}) BY <1>1 DEF RowSet
<1>4. FirstKept(t, v, f, p, a)
  <2>1. CASE Leaf(t.node[a])
    <3>1. Leaf(t.node[a]) = TRUE BY <2>1 DEF Leaf
    <3>2. RowsTransferred(u, v, f, p, p + 1, a, b, TRUE) BY <3>1
    <3> QED BY <2>1, <3>2 DEF FirstKept, RowsTransferred
  <2>2. CASE ~Leaf(t.node[a])
    <3>1. Leaf(t.node[a]) = FALSE BY <2>2 DEF Leaf
    <3>2. RowsTransferred(u, v, f, p, p + 1, a, b, FALSE) BY <3>1
    <3>3. v.node[f] = u.node[f] BY <3>2 DEF RowsTransferred
    <3> QED BY <2>2, <3>3 DEF FirstKept, Moved
  <2> QED BY <2>1, <2>2
<1> QED BY <1>1, <1>2, <1>3, <1>4 DEF Moved, Holding

LEMMA MovedOneRight ==
  ASSUME NEW Q, NoRid \in Q, NEW t \in Trees(Q), NEW f, NEW p, NEW a, NEW b,
         Neighbours(t, f, p, a, b), NEW k \in 1 .. Len(t.node[a].row), NEW u,
         Moved(t, u, Q, f, p, a, b, Part(t.node[a], 1, k),
               Cat(Part(t.node[a], k + 1, Len(t.node[a].row)), t.node[b])),
         NEW v, v = MoveRight(u, f, p, a, b)
  PROVE  Moved(t, v, Q, f, p, a, b, Part(t.node[a], 1, k - 1),
               Cat(Part(t.node[a], k, Len(t.node[a].row)), t.node[b]))
<1> DEFINE x == t.node[a]
           y == t.node[b]
           x1 == Part(x, 1, k)
           y1 == Cat(Part(x, k + 1, Len(x.row)), y)
           x2 == Part(x, 1, k - 1)
           y2 == Cat(Part(x, k, Len(x.row)), y)
<1>1. /\ f \in DOMAIN t.node /\ a \in DOMAIN t.node /\ b \in DOMAIN t.node
      /\ a # b /\ a # f /\ b # f
      /\ p \in 1 .. Len(t.node[f].row) /\ p + 1 \in 1 .. Len(t.node[f].row)
      /\ Child(t, f, p) = a /\ Child(t, f, p + 1) = b
      /\ Alike(x, y) /\ Named(t, a, {a, b, f})
  BY DEF Neighbours
<1>2. /\ Changed(t, u, Q, {a, b, f})
      /\ u.node[a] = x1 /\ u.node[b] = y1
      /\ RowSet(t.node[f], u.node[f], {p, p + 1})
  BY DEF Moved, Holding
<1>3. x \in Content(Q) /\ y \in Content(Q) BY <1>1, TreeType
<1>4. k \in 1 .. Len(x.row) OBVIOUS
<1> HIDE DEF x, y
<1>5. /\ Taken(Part(x, 1, k), k) = Part(x, 1, k - 1)
      /\ Given(Cat(Part(x, k + 1, Len(x.row)), y), 1, Part(x, 1, k), k) = Cat(Part(x, k, Len(x.row)), y)
      /\ Len(Part(x, 1, k).row) = k
      /\ Leaf(Part(x, 1, k)) = Leaf(x)
      /\ ~Leaf(x) => /\ Len(Part(x, 1, k).child) = k
                     /\ Part(x, 1, k).child[k] = x.child[k] /\ Part(x, 1, k).row[k] = x.row[k]
                     /\ Len(Cat(Part(x, k + 1, Len(x.row)), y).child) = Len(Cat(Part(x, k + 1, Len(x.row)), y).row)
      /\ Len(Cat(Part(x, k + 1, Len(x.row)), y).row) \in Nat
  BY <1>1, <1>3, <1>4, RightEnds
<1>6. /\ Taken(x1, k) = x2 /\ Given(y1, 1, x1, k) = y2
      /\ Len(x1.row) = k /\ Leaf(x1) = Leaf(x)
      /\ ~Leaf(x) => /\ Len(x1.child) = k /\ x1.child[k] = x.child[k] /\ x1.row[k] = x.row[k]
                     /\ Len(y1.child) = Len(y1.row)
      /\ Len(y1.row) \in Nat
  BY <1>5
<1> HIDE DEF x1, y1, x2, y2
<1>7. /\ u \in Trees(Q) /\ f \in DOMAIN u.node /\ a \in DOMAIN u.node /\ b \in DOMAIN u.node
      /\ p \in 1 .. Len(u.node[f].row) /\ p + 1 \in 1 .. Len(u.node[f].row)
      /\ Child(u, f, p) = a /\ Child(u, f, p + 1) = b
  BY <1>1, <1>2 DEF Changed, RowSet, Child
<1>8. p # p + 1 BY <1>1
<1>9. k \in 1 .. Len(u.node[a].row) /\ 1 \in 1 .. Len(u.node[b].row) + 1 BY <1>2, <1>4, <1>6
<1>10. Carried(u, a, b, f, k)
  <2> SUFFICES ASSUME ~Leaf(u.node[a])
               PROVE  /\ Child(u, a, k) \in DOMAIN u.node
                      /\ Child(u, a, k) # a /\ Child(u, a, k) # b /\ Child(u, a, k) # f
                      /\ u.node[a].row[k] = FirstRow(u, Child(u, a, k))
                      /\ Len(u.node[a].child) = Len(u.node[a].row)
                      /\ Len(u.node[b].child) = Len(u.node[b].row)
    BY DEF Carried
  <2>1. ~Leaf(x) BY <1>2, <1>6
  <2>2. Child(u, a, k) = x.child[k] BY <2>1, <1>2, <1>6 DEF Child
  <2>3. x.child[k] \in DOMAIN t.node \ {a, b, f} /\ x.row[k] = FirstRow(t, x.child[k])
    BY <2>1, <1>1, <1>4 DEF Named, x
  <2> DEFINE c == x.child[k]
  <2>4. c \in DOMAIN t.node /\ c # a /\ c # b /\ c # f /\ x.row[k] = FirstRow(t, c) BY <2>3
  <2> HIDE DEF c
  <2>5. c \in DOMAIN u.node /\ u.node[c] = t.node[c] BY <2>4, <1>2 DEF Changed
  <2>6. FirstRow(u, c) = FirstRow(t, c) BY <2>5 DEF FirstRow
  <2>7. Child(u, a, k) = c BY <2>2 DEF c
  <2>8. u.node[a].row[k] = x.row[k] BY <2>1, <1>2, <1>6
  <2> QED BY <2>1, <2>4, <2>5, <2>6, <2>7, <2>8, <1>2, <1>6
<1>11. v = Transfer(u, f, p, p + 1, a, b, k, 1)
  <2>1. Size(u, a) = k BY <1>2, <1>6 DEF Size
  <2> QED BY <2>1 DEF MoveRight, Transfer
<1>12. /\ Holding(u, v, Q, f, p, p + 1, a, b, Taken(u.node[a], k), Given(u.node[b], 1, u.node[a], k))
       /\ RowsTransferred(u, v, f, p, p + 1, a, b, Leaf(u.node[a]))
  BY <1>1, <1>7, <1>8, <1>9, <1>10, <1>11, TransferIs
<1>13. /\ Holding(u, v, Q, f, p, p + 1, a, b, x2, y2)
       /\ RowsTransferred(u, v, f, p, p + 1, a, b, Leaf(x))
  BY <1>2, <1>6, <1>12
<1>14. Moved(t, u, Q, f, p, a, b, x1, y1) BY DEF x, y, x1, y1
<1>15. Moved(t, v, Q, f, p, a, b, x2, y2) BY <1>1, <1>13, <1>14, MovedOn DEF x
<1> QED BY <1>15 DEF x2, y2, x, y

LEMMA MovedOneLeft ==
  ASSUME NEW Q, NoRid \in Q, NEW t \in Trees(Q), NEW f, NEW p, NEW a, NEW b,
         Neighbours(t, f, p, a, b), NEW k \in 1 .. Len(t.node[b].row), NEW u,
         Moved(t, u, Q, f, p, a, b, Cat(t.node[a], Part(t.node[b], 1, k - 1)),
               Part(t.node[b], k, Len(t.node[b].row))),
         NEW v, v = MoveLeft(u, f, p + 1, b, a)
  PROVE  Moved(t, v, Q, f, p, a, b, Cat(t.node[a], Part(t.node[b], 1, k)),
               Part(t.node[b], k + 1, Len(t.node[b].row)))
<1> DEFINE x == t.node[a]
           y == t.node[b]
           x1 == Cat(x, Part(y, 1, k - 1))
           y1 == Part(y, k, Len(y.row))
           x2 == Cat(x, Part(y, 1, k))
           y2 == Part(y, k + 1, Len(y.row))
           i == Len(x.row) + k
<1>1. /\ f \in DOMAIN t.node /\ a \in DOMAIN t.node /\ b \in DOMAIN t.node
      /\ a # b /\ a # f /\ b # f
      /\ p \in 1 .. Len(t.node[f].row) /\ p + 1 \in 1 .. Len(t.node[f].row)
      /\ Child(t, f, p) = a /\ Child(t, f, p + 1) = b
      /\ Alike(x, y) /\ Named(t, b, {a, b, f})
  BY DEF Neighbours
<1>2. /\ Changed(t, u, Q, {a, b, f})
      /\ u.node[a] = x1 /\ u.node[b] = y1
      /\ RowSet(t.node[f], u.node[f], {p, p + 1})
  BY DEF Moved, Holding
<1>3. x \in Content(Q) /\ y \in Content(Q) BY <1>1, TreeType
<1>4. k \in 1 .. Len(y.row) OBVIOUS
<1> HIDE DEF x, y
<1>5. /\ Taken(Part(y, k, Len(y.row)), 1) = Part(y, k + 1, Len(y.row))
      /\ Given(Cat(x, Part(y, 1, k - 1)), Len(x.row) + k, Part(y, k, Len(y.row)), 1) = Cat(x, Part(y, 1, k))
      /\ Len(Part(y, k, Len(y.row)).row) = Len(y.row) - k + 1
      /\ Leaf(Part(y, k, Len(y.row))) = Leaf(y)
      /\ ~Leaf(y) => /\ Len(Part(y, k, Len(y.row)).child) = Len(y.row) - k + 1
                     /\ Part(y, k, Len(y.row)).child[1] = y.child[k]
                     /\ Part(y, k, Len(y.row)).row[1] = y.row[k]
                     /\ Len(Cat(x, Part(y, 1, k - 1)).child) = Len(Cat(x, Part(y, 1, k - 1)).row)
      /\ Len(Cat(x, Part(y, 1, k - 1)).row) = Len(x.row) + k - 1
  BY <1>1, <1>3, <1>4, LeftEnds
<1>6. /\ Taken(y1, 1) = y2 /\ Given(x1, i, y1, 1) = x2
      /\ Len(y1.row) = Len(y.row) - k + 1 /\ Leaf(y1) = Leaf(y)
      /\ ~Leaf(y) => /\ Len(y1.child) = Len(y.row) - k + 1 /\ y1.child[1] = y.child[k] /\ y1.row[1] = y.row[k]
                     /\ Len(x1.child) = Len(x1.row)
      /\ Len(x1.row) = Len(x.row) + k - 1
  BY <1>5
<1>6a. Len(x.row) \in Nat /\ Len(y.row) \in Nat BY <1>3, ContentType
<1>6b. i - 1 = Len(x.row) + k - 1 /\ i \in 1 .. i /\ i - 1 + 1 = i /\ 1 \in 1 .. Len(y.row) - k + 1
  BY <1>4, <1>6a
<1> HIDE DEF x1, y1, x2, y2, i
<1>7. /\ u \in Trees(Q) /\ f \in DOMAIN u.node /\ a \in DOMAIN u.node /\ b \in DOMAIN u.node
      /\ p \in 1 .. Len(u.node[f].row) /\ p + 1 \in 1 .. Len(u.node[f].row)
      /\ Child(u, f, p) = a /\ Child(u, f, p + 1) = b
  BY <1>1, <1>2 DEF Changed, RowSet, Child
<1>8. p + 1 # p BY <1>1
<1>8a. Len(u.node[a].row) + 1 = i BY <1>2, <1>6, <1>6b
<1>9. 1 \in 1 .. Len(u.node[b].row) /\ i \in 1 .. Len(u.node[a].row) + 1 BY <1>2, <1>6, <1>6b, <1>8a
<1>10. Carried(u, b, a, f, 1)
  <2> SUFFICES ASSUME ~Leaf(u.node[b])
               PROVE  /\ Child(u, b, 1) \in DOMAIN u.node
                      /\ Child(u, b, 1) # b /\ Child(u, b, 1) # a /\ Child(u, b, 1) # f
                      /\ u.node[b].row[1] = FirstRow(u, Child(u, b, 1))
                      /\ Len(u.node[b].child) = Len(u.node[b].row)
                      /\ Len(u.node[a].child) = Len(u.node[a].row)
    BY DEF Carried
  <2>1. ~Leaf(y) BY <1>2, <1>6
  <2>2. Child(u, b, 1) = y.child[k] BY <2>1, <1>2, <1>6 DEF Child
  <2>3. y.child[k] \in DOMAIN t.node \ {a, b, f} /\ y.row[k] = FirstRow(t, y.child[k])
    BY <2>1, <1>1, <1>4 DEF Named, y
  <2> DEFINE c == y.child[k]
  <2>4. c \in DOMAIN t.node /\ c # a /\ c # b /\ c # f /\ y.row[k] = FirstRow(t, c) BY <2>3
  <2> HIDE DEF c
  <2>5. c \in DOMAIN u.node /\ u.node[c] = t.node[c] BY <2>4, <1>2 DEF Changed
  <2>6. FirstRow(u, c) = FirstRow(t, c) BY <2>5 DEF FirstRow
  <2>7. Child(u, b, 1) = c BY <2>2 DEF c
  <2>8. u.node[b].row[1] = y.row[k] BY <2>1, <1>2, <1>6
  <2> QED BY <2>1, <2>4, <2>5, <2>6, <2>7, <2>8, <1>2, <1>6
<1>11. v = Transfer(u, f, p + 1, p, b, a, 1, i)
  <2>1. Size(u, a) + 1 = i BY <1>8a DEF Size
  <2> DEFINE q == p + 1
             r == q - 1
             l == Size(u, a) + 1
  <2>3. MoveLeft(u, f, q, b, a) = Transfer(u, f, q, r, b, a, 1, l)
    <3> HIDE DEF q
    <3>1. CASE Leaf(u.node[b]) BY <3>1 DEF MoveLeft, Transfer
    <3>2. CASE ~Leaf(u.node[b]) BY <3>2 DEF MoveLeft, Transfer
    <3> QED BY <3>1, <3>2
  <2>4. r = p BY <1>1
  <2>4a. l = i BY <2>1
  <2>5. v = MoveLeft(u, f, q, b, a) OBVIOUS
  <2> HIDE DEF r, l, q
  <2>6. v = Transfer(u, f, q, p, b, a, 1, i) BY <2>3, <2>4, <2>4a, <2>5
  <2> QED BY <2>6 DEF q
<1>12. /\ Holding(u, v, Q, f, p + 1, p, b, a, Taken(u.node[b], 1), Given(u.node[a], i, u.node[b], 1))
       /\ RowsTransferred(u, v, f, p + 1, p, b, a, Leaf(u.node[b]))
  BY <1>1, <1>7, <1>8, <1>9, <1>10, <1>11, TransferIs
<1>13. /\ Holding(u, v, Q, f, p + 1, p, b, a, y2, x2)
       /\ RowsTransferred(u, v, f, p + 1, p, b, a, Leaf(y))
  BY <1>2, <1>6, <1>12
<1>13a. Leaf(y) = Leaf(x) BY <1>1 DEF Alike, Leaf
<1>13b. /\ Holding(u, v, Q, f, p, p + 1, a, b, x2, y2)
        /\ RowsTransferred(u, v, f, p, p + 1, a, b, Leaf(x))
  <2>1. {a, b, f} = {b, a, f} /\ {p, p + 1} = {p + 1, p} OBVIOUS
  <2>2. Holding(u, v, Q, f, p, p + 1, a, b, x2, y2) BY <1>13, <2>1 DEF Holding
  <2>3. RowsTransferred(u, v, f, p + 1, p, b, a, Leaf(x)) BY <1>13, <1>13a
  <2>4. RowsTransferred(u, v, f, p, p + 1, a, b, Leaf(x)) BY <2>3 DEF RowsTransferred
  <2> QED BY <2>2, <2>4
<1>14. Moved(t, u, Q, f, p, a, b, x1, y1) BY DEF x, y, x1, y1
<1>15. Moved(t, v, Q, f, p, a, b, x2, y2) BY <1>1, <1>13b, <1>14, MovedOn DEF x
<1> QED BY <1>15 DEF x2, y2, x, y

(* The states that moveitem goes through.                                   *)
Moves(g, t, right, f, num, mv, nw, n) ==
    g = [i \in 0 .. n |-> IF i = 0 THEN t
                          ELSE IF right THEN MoveRight(g[i - 1], f, num, mv, nw)
                          ELSE MoveLeft(g[i - 1], f, num, mv, nw)]

LEMMA MovesExist ==
  ASSUME NEW t, NEW right, NEW f, NEW num, NEW mv, NEW nw
  PROVE  \A n \in Nat : \E g : Moves(g, t, right, f, num, mv, nw, n)
<1> DEFINE After(u) == IF right THEN MoveRight(u, f, num, mv, nw) ELSE MoveLeft(u, f, num, mv, nw)
           Is(g, n) == g = [i \in 0 .. n |-> IF i = 0 THEN t ELSE After(g[i - 1])]
           T == {n \in Nat : \E g : Is(g, n)}
<1>1. \A g, n : Is(g, n) <=> Moves(g, t, right, f, num, mv, nw, n) BY DEF Moves
<1> HIDE DEF After
<1>2. 0 \in T
  <2>1. Is([i \in 0 .. 0 |-> t], 0)
    <3>1. \A i \in 0 .. 0 : i = 0 OBVIOUS
    <3> QED BY <3>1
  <2> QED BY <2>1
<1>3. ASSUME NEW n \in T PROVE n + 1 \in T
  <2>1. n \in Nat OBVIOUS
  <2>2. PICK g : Is(g, n) OBVIOUS
  <2> DEFINE h == [i \in 0 .. n + 1 |-> IF i = 0 THEN t ELSE After(g[i - 1])]
  <2>3. \A i \in 0 .. n : g[i] = IF i = 0 THEN t ELSE After(g[i - 1]) BY <2>2
  <2>4. \A i \in 0 .. n : i \in 0 .. n + 1 BY <2>1
  <2>5. \A i \in 0 .. n : h[i] = g[i] BY <2>3, <2>4
  <2>6. \A i \in 0 .. n + 1 : i # 0 => i - 1 \in 0 .. n BY <2>1
  <2>7. h = [i \in 0 .. n + 1 |-> IF i = 0 THEN t ELSE After(h[i - 1])]
    <3> DEFINE w == h
    <3>1. \A i \in 0 .. n + 1 : (IF i = 0 THEN t ELSE After(g[i - 1])) = (IF i = 0 THEN t ELSE After(w[i - 1]))
      BY <2>5, <2>6
    <3>2. h = [i \in 0 .. n + 1 |-> IF i = 0 THEN t ELSE After(g[i - 1])] OBVIOUS
    <3> HIDE DEF h
    <3> QED BY <3>1, <3>2
  <2>8. Is(h, n + 1)
    <3> HIDE DEF h
    <3> QED BY <2>7
  <2>9. \E q : Is(q, n + 1)
    <3> HIDE DEF h, Is
    <3> QED BY <2>8
  <2> QED BY <2>1, <2>9
<1>4. T = Nat
  <2>1. T \in SUBSET Nat OBVIOUS
  <2> HIDE DEF T
  <2> QED BY <1>2, <1>3, <2>1, SetInduction
<1>5. \A n \in Nat : \E g : Is(g, n) BY <1>4
<1> HIDE DEF Is
<1> QED BY <1>1, <1>5

LEMMA MoveItemMoves ==
  ASSUME NEW t, NEW cmp, NEW f, NEW num, NEW mv, NEW nw, NEW n \in Nat, NEW right,
         right = (cmp[FirstRow(t, mv)][FirstRow(t, nw)] < 0)
  PROVE  \E g : /\ Moves(g, t, right, f, num, mv, nw, n)
                /\ MoveItem(t, cmp, f, num, mv, nw, n) = Refresh(g[n], f, IF right THEN num + 1 ELSE num)
<1> DEFINE after == CHOOSE g : Moves(g, t, right, f, num, mv, nw, n)
<1>1. Moves(after, t, right, f, num, mv, nw, n) BY MovesExist
<1>2. MoveItem(t, cmp, f, num, mv, nw, n) = Refresh(after[n], f, IF right THEN num + 1 ELSE num)
  BY DEF MoveItem, Moves
<1> HIDE DEF after
<1> QED BY <1>1, <1>2

LEMMA FromZero ==
  ASSUME NEW N \in Nat, NEW S, 0 \in S, \A n \in 0 .. N - 1 : n \in S => n + 1 \in S
  PROVE  \A n \in 0 .. N : n \in S
<1> DEFINE T == {k \in Nat : k <= N => k \in S}
<1>1. T = Nat
  <2>1. T \in SUBSET Nat /\ 0 \in T OBVIOUS
  <2>2. ASSUME NEW n \in T PROVE n + 1 \in T
    <3>1. CASE n + 1 <= N
      <4>1. n \in 0 .. N - 1 /\ n <= N /\ n + 1 \in Nat BY <3>1
      <4> QED BY <4>1
    <3>2. CASE ~(n + 1 <= N) BY <3>2
    <3> QED BY <3>1, <3>2
  <2> HIDE DEF T
  <2> QED BY <2>1, <2>2, SetInduction
<1>2. ASSUME NEW n \in 0 .. N PROVE n \in S
  <2>1. n \in Nat /\ n <= N OBVIOUS
  <2>2. n \in T BY <1>1, <2>1
  <2> QED BY <2>1, <2>2
<1> QED BY <1>2

LEMMA Wholes ==
  ASSUME NEW Q, NEW x \in Content(Q), Leaf(x) \/ Len(x.child) = Len(x.row)
  PROVE  /\ Part(x, 1, Len(x.row)) = x
         /\ Part(x, Len(x.row) + 1, Len(x.row)) = Empty
         /\ Part(x, 1, 0) = Empty
         /\ Cat(Empty, x) = x /\ Cat(x, Empty) = x
<1> DEFINE n == Len(x.row)
<1>1. x.row \in Seq(Q) /\ x.child \in Seq(Nat) /\ n \in Nat /\ x = [row |-> x.row, child |-> x.child]
  BY ContentType
<1>2. SubSeq(x.row, 1, n) = x.row /\ SubSeq(x.child, 1, Len(x.child)) = x.child BY <1>1, SubSeqFull
<1>3. \A s : SubSeq(s, n + 1, n) = <<>> /\ SubSeq(s, 1, 0) = <<>>
  <2>1. n + 1 \in Int /\ n \in Int /\ n < n + 1 /\ 1 \in Int /\ 0 \in Int /\ 0 < 1 BY <1>1
  <2> HIDE DEF n
  <2> QED BY <2>1, SubSeqEmpty
<1>4. <<>> \o x.row = x.row /\ x.row \o <<>> = x.row /\ <<>> \o x.child = x.child /\ x.child \o <<>> = x.child
  BY <1>1, ConcatEmptySeq
<1> DEFINE y == Part(x, 1, n)
<1>5. y.row = x.row /\ y = [row |-> y.row, child |-> y.child] BY <1>2 DEF Part
<1>6. y.child = x.child
  <2>1. CASE Leaf(x) BY <2>1 DEF Part, Leaf
  <2>2. CASE ~Leaf(x)
    <3>1. y.child = SubSeq(x.child, 1, n) BY <2>2 DEF Part
    <3>2. n = Len(x.child) BY <2>2
    <3> HIDE DEF y, n
    <3> QED BY <3>1, <3>2, <1>2
  <2> QED BY <2>1, <2>2
<1>7. y = x
  <2> HIDE DEF y
  <2> QED BY <1>1, <1>5, <1>6
<1>8. Part(x, n + 1, n) = Empty /\ Part(x, 1, 0) = Empty BY <1>3 DEF Part, Empty
<1>9. Cat(Empty, x) = x /\ Cat(x, Empty) = x
  <2>1. Empty.row = <<>> /\ Empty.child = <<>> BY DEF Empty
  <2>2. Cat(Empty, x) = [row |-> Empty.row \o x.row, child |-> Empty.child \o x.child] BY DEF Cat
  <2>3. Cat(x, Empty) = [row |-> x.row \o Empty.row, child |-> x.child \o Empty.child] BY DEF Cat
  <2>4. Cat(Empty, x) = [row |-> x.row, child |-> x.child] BY <2>1, <2>2, <1>4
  <2>5. Cat(x, Empty) = [row |-> x.row, child |-> x.child] BY <2>1, <2>3, <1>4
  <2> QED BY <2>4, <2>5, <1>1
<1> QED BY <1>7, <1>8, <1>9

LEMMA MovedNone ==
  ASSUME NEW Q, NEW t \in Trees(Q), NEW f, NEW p, NEW a, NEW b
  PROVE  Moved(t, t, Q, f, p, a, b, t.node[a], t.node[b])
BY DEF Moved, Holding, Changed, RowSet, FirstKept

(* After moveitem.                                                          *)
Repaired(t, u, Q, f, p, a, b, x, y) ==
    /\ Moved(t, u, Q, f, p, a, b, x, y)
    /\ u.node[f].row[p + 1] = FirstRow(u, b)

LEMMA RepairedMoved ==
  ASSUME NEW Q, NoRid \in Q, NEW t \in Trees(Q), NEW f, NEW p, NEW a, NEW b,
         Neighbours(t, f, p, a, b), NEW x, NEW y, NEW u,
         Moved(t, u, Q, f, p, a, b, x, y), NEW v, v = Refresh(u, f, p + 1)
  PROVE  Repaired(t, v, Q, f, p, a, b, x, y)
<1> DEFINE q == p + 1
<1>1. /\ f \in DOMAIN t.node /\ a \in DOMAIN t.node /\ b \in DOMAIN t.node
      /\ a # b /\ a # f /\ b # f
      /\ p \in 1 .. Len(t.node[f].row) /\ q \in 1 .. Len(t.node[f].row)
      /\ Child(t, f, p) = a /\ Child(t, f, q) = b
  BY DEF Neighbours
<1>2. /\ Changed(t, u, Q, {a, b, f})
      /\ u.node[a] = x /\ u.node[b] = y
      /\ RowSet(t.node[f], u.node[f], {p, q}) /\ FirstKept(t, u, f, p, a)
  BY DEF Moved, Holding
<1>0. p # q BY <1>1
<1>0a. v = Refresh(u, f, q) OBVIOUS
<1> HIDE DEF q
<1>3. /\ u \in Trees(Q) /\ f \in DOMAIN u.node /\ b \in DOMAIN u.node
      /\ q \in 1 .. Len(u.node[f].row) /\ Child(u, f, q) = b
  BY <1>1, <1>2 DEF Changed, RowSet, Child
<1>4. Refreshed(u, v, Q, f, q, b) BY <1>0a, <1>1, <1>3, RefreshIs
<1>5. /\ Changed(u, v, Q, {f}) /\ RowSet(u.node[f], v.node[f], {q})
      /\ v.node[f].row[q] = FirstRow(v, b)
  BY <1>4 DEF Refreshed
<1>6. Changed(t, v, Q, {a, b, f}) BY <1>2, <1>5 DEF Changed
<1>7. RowSet(t.node[f], v.node[f], {p, q}) BY <1>2, <1>5 DEF RowSet
<1>8. v.node[a] = u.node[a] /\ v.node[b] = u.node[b] BY <1>1, <1>2, <1>5 DEF Changed
<1>9. FirstKept(t, v, f, p, a)
  <2>1. v.node[f].row[p] = u.node[f].row[p] BY <1>0, <1>1, <1>2, <1>5 DEF RowSet
  <2>2. FirstRow(v, a) = FirstRow(u, a) BY <1>8 DEF FirstRow
  <2> QED BY <2>1, <2>2, <1>2 DEF FirstKept
<1> QED BY <1>2, <1>5, <1>6, <1>7, <1>8, <1>9 DEF Repaired, Moved, Holding, q

LEMMA MovedRight ==
  ASSUME NEW Q, NoRid \in Q, NEW t \in Trees(Q), NEW f, NEW p, NEW a, NEW b,
         Neighbours(t, f, p, a, b), NEW n \in 0 .. Len(t.node[a].row), NEW cmp,
         cmp[FirstRow(t, a)][FirstRow(t, b)] < 0,
         NEW u, u = MoveItem(t, cmp, f, p, a, b, n)
  PROVE  Repaired(t, u, Q, f, p, a, b, Part(t.node[a], 1, Len(t.node[a].row) - n),
                  Cat(Part(t.node[a], Len(t.node[a].row) - n + 1, Len(t.node[a].row)), t.node[b]))
<1> DEFINE x == t.node[a]
           y == t.node[b]
           m == Len(x.row)
           L(k) == Part(x, 1, k)
           D(k) == Cat(Part(x, k + 1, m), y)
<1>0. /\ a \in DOMAIN t.node /\ b \in DOMAIN t.node /\ Alike(x, y) BY DEF Neighbours
<1>1. x \in Content(Q) /\ y \in Content(Q) /\ m \in Nat BY <1>0, TreeType
<1>2. n \in Nat /\ n \in 0 .. m BY <1>1
<1>3. L(m) = x /\ D(m) = y
  <2>1. Leaf(x) \/ Len(x.child) = Len(x.row) BY <1>0 DEF Alike
  <2>2. Leaf(y) \/ Len(y.child) = Len(y.row) BY <1>0 DEF Alike
  <2> HIDE DEF x, y
  <2>3. Part(x, 1, Len(x.row)) = x /\ Part(x, Len(x.row) + 1, Len(x.row)) = Empty BY <1>1, <2>1, Wholes
  <2>4. Cat(Empty, y) = y BY <1>1, <2>2, Wholes
  <2> QED BY <2>3, <2>4
<1> DEFINE right == cmp[FirstRow(t, a)][FirstRow(t, b)] < 0
<1>4. right = TRUE OBVIOUS
<1>5. PICK g : /\ Moves(g, t, right, f, p, a, b, n)
               /\ u = Refresh(g[n], f, IF right THEN p + 1 ELSE p)
  <2>1. right = (cmp[FirstRow(t, a)][FirstRow(t, b)] < 0) OBVIOUS
  <2> HIDE DEF right
  <2> QED BY <1>2, <2>1, MoveItemMoves
<1> HIDE DEF right
<1>6. u = Refresh(g[n], f, p + 1) BY <1>4, <1>5
<1>7. g = [i \in 0 .. n |-> IF i = 0 THEN t ELSE MoveRight(g[i - 1], f, p, a, b)]
  BY <1>4, <1>5 DEF Moves
<1>8. \A i \in 0 .. n : g[i] = IF i = 0 THEN t ELSE MoveRight(g[i - 1], f, p, a, b) BY <1>7
<1> DEFINE S == {i \in Nat : Moved(t, g[i], Q, f, p, a, b, L(m - i), D(m - i))}
<1>9. \A i \in 0 .. n : i \in S
  <2>1. 0 \in S
    <3>1. g[0] = t /\ m - 0 = m BY <1>1, <1>2, <1>8
    <3>2. Moved(t, t, Q, f, p, a, b, x, y) BY MovedNone
    <3>3. Moved(t, g[0], Q, f, p, a, b, L(m - 0), D(m - 0)) BY <3>1, <3>2, <1>3
    <3> QED BY <3>3
  <2>2. ASSUME NEW i \in 0 .. n - 1, i \in S PROVE i + 1 \in S
    <3> DEFINE k == m - i
               j == i + 1
    <3>1. k \in 1 .. m /\ j \in 0 .. n /\ j # 0 /\ j - 1 = i /\ j \in Nat /\ m - j = k - 1 /\ k - 1 + 1 = k
      BY <1>1, <1>2
    <3>2. Moved(t, g[i], Q, f, p, a, b, L(k), D(k)) BY <2>2
    <3> HIDE DEF k, j, m, x, y
    <3>3. g[j] = MoveRight(g[i], f, p, a, b) BY <3>1, <1>8
    <3>4. k \in 1 .. Len(t.node[a].row) BY <3>1 DEF m, x
    <3>5. Moved(t, g[i], Q, f, p, a, b, Part(t.node[a], 1, k),
                Cat(Part(t.node[a], k + 1, Len(t.node[a].row)), t.node[b]))
      BY <3>2 DEF m, x, y
    <3> HIDE DEF L, D
    <3>6. Moved(t, g[j], Q, f, p, a, b, Part(t.node[a], 1, k - 1),
                Cat(Part(t.node[a], k, Len(t.node[a].row)), t.node[b]))
      BY <3>3, <3>4, <3>5, MovedOneRight
    <3>7. Moved(t, g[j], Q, f, p, a, b, L(k - 1), D(k - 1)) BY <3>1, <3>6 DEF L, D, m, x, y
    <3>8. Moved(t, g[j], Q, f, p, a, b, L(m - j), D(m - j)) BY <3>1, <3>7
    <3>9. j \in S BY <3>1, <3>8
    <3> QED BY <3>9 DEF j
  <2> HIDE DEF S
  <2> QED BY <1>2, <2>1, <2>2, FromZero
<1>10. Moved(t, g[n], Q, f, p, a, b, L(m - n), D(m - n))
  <2>1. n \in 0 .. n BY <1>2
  <2> QED BY <2>1, <1>9
<1> HIDE DEF L, D, m
<1>11. Repaired(t, u, Q, f, p, a, b, L(m - n), D(m - n)) BY <1>6, <1>10, RepairedMoved
<1> QED BY <1>11 DEF L, D, m

LEMMA MovedLeft ==
  ASSUME NEW Q, NoRid \in Q, NEW t \in Trees(Q), NEW f, NEW p, NEW a, NEW b,
         Neighbours(t, f, p, a, b), NEW n \in 0 .. Len(t.node[b].row), NEW cmp,
         ~(cmp[FirstRow(t, b)][FirstRow(t, a)] < 0),
         NEW u, u = MoveItem(t, cmp, f, p + 1, b, a, n)
  PROVE  Repaired(t, u, Q, f, p, a, b, Cat(t.node[a], Part(t.node[b], 1, n)),
                  Part(t.node[b], n + 1, Len(t.node[b].row)))
<1> DEFINE x == t.node[a]
           y == t.node[b]
           m == Len(y.row)
           L(k) == Cat(x, Part(y, 1, k))
           D(k) == Part(y, k + 1, m)
<1>0. /\ a \in DOMAIN t.node /\ b \in DOMAIN t.node /\ Alike(x, y) BY DEF Neighbours
<1>1. x \in Content(Q) /\ y \in Content(Q) /\ m \in Nat BY <1>0, TreeType
<1>2. n \in Nat /\ n \in 0 .. m BY <1>1
<1>3. L(0) = x /\ D(0) = y
  <2>1. Leaf(x) \/ Len(x.child) = Len(x.row) BY <1>0 DEF Alike
  <2>2. Leaf(y) \/ Len(y.child) = Len(y.row) BY <1>0 DEF Alike
  <2> HIDE DEF x, y
  <2>3. Part(y, 1, Len(y.row)) = y /\ Part(y, 1, 0) = Empty BY <1>1, <2>2, Wholes
  <2>4. Cat(x, Empty) = x BY <1>1, <2>1, Wholes
  <2>5. 0 + 1 = 1 OBVIOUS
  <2> QED BY <2>3, <2>4, <2>5
<1> DEFINE right == cmp[FirstRow(t, b)][FirstRow(t, a)] < 0
           q == p + 1
<1>4. right = FALSE OBVIOUS
<1>5. PICK g : /\ Moves(g, t, right, f, q, b, a, n)
               /\ u = Refresh(g[n], f, IF right THEN q + 1 ELSE q)
  <2>1. right = (cmp[FirstRow(t, b)][FirstRow(t, a)] < 0) OBVIOUS
  <2>2. u = MoveItem(t, cmp, f, q, b, a, n) OBVIOUS
  <2> HIDE DEF right, q
  <2> QED BY <1>2, <2>1, <2>2, MoveItemMoves
<1> HIDE DEF right
<1>6. u = Refresh(g[n], f, q) BY <1>4, <1>5
<1>7. g = [i \in 0 .. n |-> IF i = 0 THEN t ELSE MoveLeft(g[i - 1], f, q, b, a)]
  BY <1>4, <1>5 DEF Moves
<1>8. \A i \in 0 .. n : g[i] = IF i = 0 THEN t ELSE MoveLeft(g[i - 1], f, q, b, a) BY <1>7
<1> DEFINE S == {i \in Nat : Moved(t, g[i], Q, f, p, a, b, L(i), D(i))}
<1>9. \A i \in 0 .. n : i \in S
  <2>1. 0 \in S
    <3>1. g[0] = t BY <1>1, <1>2, <1>8
    <3>2. Moved(t, t, Q, f, p, a, b, x, y) BY MovedNone
    <3>3. Moved(t, g[0], Q, f, p, a, b, L(0), D(0)) BY <3>1, <3>2, <1>3
    <3> QED BY <3>3
  <2>2. ASSUME NEW i \in 0 .. n - 1, i \in S PROVE i + 1 \in S
    <3> DEFINE j == i + 1
    <3>1. j \in 1 .. m /\ j \in 0 .. n /\ j # 0 /\ j - 1 = i /\ j \in Nat
      BY <1>1, <1>2
    <3>2. Moved(t, g[i], Q, f, p, a, b, L(i), D(i)) BY <2>2
    <3>2a. L(i) = L(j - 1) /\ D(i) = Part(y, j, m) BY <3>1
    <3> HIDE DEF j, m, x, y, q
    <3>3. g[j] = MoveLeft(g[i], f, q, b, a) BY <3>1, <1>8
    <3>4. j \in 1 .. Len(t.node[b].row) BY <3>1 DEF m, y
    <3>5. Moved(t, g[i], Q, f, p, a, b, Cat(t.node[a], Part(t.node[b], 1, j - 1)),
                Part(t.node[b], j, Len(t.node[b].row)))
      BY <3>2, <3>2a DEF m, x, y
    <3>3a. g[j] = MoveLeft(g[i], f, p + 1, b, a) BY <3>3 DEF q
    <3> HIDE DEF L, D
    <3>6. Moved(t, g[j], Q, f, p, a, b, Cat(t.node[a], Part(t.node[b], 1, j)),
                Part(t.node[b], j + 1, Len(t.node[b].row)))
      BY <3>3a, <3>4, <3>5, MovedOneLeft
    <3>7. Moved(t, g[j], Q, f, p, a, b, L(j), D(j)) BY <3>6 DEF L, D, m, x, y
    <3>9. j \in S BY <3>1, <3>7
    <3> QED BY <3>9 DEF j
  <2> HIDE DEF S
  <2> QED BY <1>2, <2>1, <2>2, FromZero
<1>10. Moved(t, g[n], Q, f, p, a, b, L(n), D(n))
  <2>1. n \in 0 .. n BY <1>2
  <2> QED BY <2>1, <1>9
<1> HIDE DEF L, D, m
<1>10a. u = Refresh(g[n], f, p + 1) BY <1>6
<1>11. Repaired(t, u, Q, f, p, a, b, L(n), D(n)) BY <1>10a, <1>10, RepairedMoved
<1> QED BY <1>11 DEF L, D, m

-----------------------------------------------------------------------------
(* Two nodes share what they have anew.                                     *)

IsIn(x, d) == \E i \in 1 .. Len(x.row) : x.child[i] = d

Ids == [d \in Nat |-> d]

LEMMA CatHas ==
  ASSUME NEW R, NEW x \in Content(R), NEW y \in Content(R), NEW h \in Nat \ {1}, NEW H,
         DOMAIN H \subseteq Nat, Layer(x, h, H), Layer(y, h, H), NEW d, IsIn(x, d) \/ IsIn(y, d)
  PROVE  IsIn(Cat(x, y), d)
<1> DEFINE z == Cat(x, y)
<1>1. Len(x.row) \in Nat /\ Len(y.row) \in Nat BY ContentType
<1>2. z \in Content(R) /\ Layer(z, h, H) /\ Glued(z, x, y, h, Ids) BY CatItems
<1> HIDE DEF z
<1>3. /\ Len(z.row) = Len(x.row) + Len(y.row)
      /\ \A i \in 1 .. Len(x.row) : Items(z, h, Ids, i) = Items(x, h, Ids, i)
      /\ \A i \in 1 .. Len(y.row) : Items(z, h, Ids, Len(x.row) + i) = Items(y, h, Ids, i)
  BY <1>2 DEF Glued
<1>3a. Len(z.row) = Len(x.row) + Len(y.row) BY <1>3
<1>4. ASSUME NEW w, Layer(w, h, H), NEW i \in 1 .. Len(w.row) PROVE Items(w, h, Ids, i) = w.child[i]
  <2>1. w.child[i] \in Nat BY <1>4 DEF Layer
  <2> QED BY <2>1 DEF Items, Ids
<1>5. CASE IsIn(x, d)
  <2>1. PICK i \in 1 .. Len(x.row) : x.child[i] = d BY <1>5 DEF IsIn
  <2>2. i \in 1 .. Len(z.row)
    <3> DEFINE m == Len(x.row)
               n == Len(y.row)
    <3>0. m \in Nat /\ n \in Nat /\ i \in 1 .. m BY <1>1
    <3> HIDE DEF m, n
    <3>1. i \in 1 .. m + n BY <3>0
    <3> QED BY <3>1, <1>3a DEF m, n
  <2>3. z.child[i] = d BY <2>1, <2>2, <1>2, <1>3, <1>4
  <2> QED BY <2>2, <2>3 DEF IsIn, z
<1>6. CASE IsIn(y, d)
  <2>1. PICK i \in 1 .. Len(y.row) : y.child[i] = d BY <1>6 DEF IsIn
  <2> DEFINE k == Len(x.row) + i
  <2>2. k \in 1 .. Len(z.row)
    <3> DEFINE m == Len(x.row)
               n == Len(y.row)
    <3>0. m \in Nat /\ n \in Nat /\ i \in 1 .. n /\ k = m + i BY <1>1
    <3> HIDE DEF m, n, k
    <3>1. k \in 1 .. m + n BY <3>0
    <3> QED BY <3>1, <1>3a DEF m, n
  <2>4. Items(z, h, Ids, k) = Items(y, h, Ids, i) BY <1>3
  <2> HIDE DEF k
  <2>3. z.child[k] = d BY <2>1, <2>2, <2>4, <1>2, <1>4
  <2> QED BY <2>2, <2>3 DEF IsIn, z
<1> QED BY <1>5, <1>6

LEMMA PartHas ==
  ASSUME NEW R, NEW x \in Content(R), NEW h \in Nat \ {1}, NEW H,
         DOMAIN H \subseteq Nat, Layer(x, h, H), NEW m \in 0 .. Len(x.row), NEW d, IsIn(x, d)
  PROVE  IsIn(Part(x, 1, m), d) \/ IsIn(Part(x, m + 1, Len(x.row)), d)
<1> DEFINE n == Len(x.row)
           z == Part(x, 1, m)
           w == Part(x, m + 1, n)
<1>1. n \in Nat /\ m \in Nat /\ m <= n BY ContentType
<1>2. z \in Content(R) /\ Layer(z, h, H) /\ Sliced(z, x, 1, m, h, Ids)
  <2>1. 1 \in Nat \ {0} /\ 1 <= m + 1 BY <1>1
  <2> QED BY <2>1, PartItems
<1>3. w \in Content(R) /\ Layer(w, h, H) /\ Sliced(w, x, m + 1, n, h, Ids)
  <2>1. m + 1 \in Nat \ {0} /\ m + 1 <= n + 1 /\ n \in 0 .. n BY <1>1
  <2>2. /\ Part(x, m + 1, Len(x.row)) \in Content(R)
        /\ Layer(Part(x, m + 1, Len(x.row)), h, H)
        /\ Sliced(Part(x, m + 1, Len(x.row)), x, m + 1, Len(x.row), h, Ids)
    BY <2>1, PartItems
  <2> QED BY <2>2
<1> HIDE DEF z, w, n
<1>4. ASSUME NEW v, Layer(v, h, H), NEW i \in 1 .. Len(v.row) PROVE Items(v, h, Ids, i) = v.child[i]
  <2>1. v.child[i] \in Nat BY <1>4 DEF Layer
  <2> QED BY <2>1 DEF Items, Ids
<1>5. PICK k \in 1 .. n : x.child[k] = d BY DEF IsIn, n
<1>6. Items(x, h, Ids, k) = d BY <1>4, <1>5 DEF n
<1>7. CASE k <= m
  <2>1. Len(z.row) = m - 1 + 1 /\ Items(z, h, Ids, k) = Items(x, h, Ids, 1 + k - 1)
    <3>1. k \in 1 .. m - 1 + 1 BY <1>1, <1>7
    <3> QED BY <3>1, <1>2 DEF Sliced
  <2>2. 1 + k - 1 = k /\ k \in 1 .. m - 1 + 1 BY <1>1, <1>7
  <2>3. k \in 1 .. Len(z.row) BY <2>1, <2>2
  <2>4. z.child[k] = d BY <2>1, <2>2, <2>3, <1>2, <1>4, <1>6
  <2> QED BY <2>3, <2>4 DEF IsIn, z, w, n
<1>8. CASE ~(k <= m)
  <2> DEFINE i == k - m
  <2>1. i \in 1 .. n - (m + 1) + 1 /\ (m + 1) + i - 1 = k BY <1>1, <1>8
  <2> HIDE DEF i
  <2>2. Len(w.row) = n - (m + 1) + 1 /\ Items(w, h, Ids, i) = Items(x, h, Ids, (m + 1) + i - 1)
    BY <2>1, <1>3 DEF Sliced
  <2>3. i \in 1 .. Len(w.row) BY <2>1, <2>2
  <2>4. w.child[i] = d BY <2>1, <2>2, <2>3, <1>3, <1>4, <1>6
  <2> QED BY <2>3, <2>4 DEF IsIn, z, w, n
<1> QED BY <1>1, <1>7, <1>8

(* z and w have what x and y have, z the lesser part.                       *)
Shared(x, y, z, w, h, S, T, H, K, cmp) ==
    /\ z \in Content(DOMAIN cmp) /\ w \in Content(DOMAIN cmp)
    /\ NodeOK(z, h, Keys(z, h, K), H, K, cmp) /\ AllFresh(z, h, K, cmp)
    /\ NodeOK(w, h, Keys(w, h, K), H, K, cmp) /\ AllFresh(w, h, K, cmp)
    /\ Keys(z, h, K) \union Keys(w, h, K) = S \union T
    /\ Before(Keys(z, h, K), Keys(w, h, K), cmp)
    /\ h # 1 => \A d : IsIn(x, d) \/ IsIn(y, d) => IsIn(z, d) \/ IsIn(w, d)

RightShare(x, y, k, h, S, T, H, K, cmp) ==
    /\ Shared(x, y, Part(x, 1, k), Cat(Part(x, k + 1, Len(x.row)), y), h, S, T, H, K, cmp)
    /\ Len(Part(x, 1, k).row) = k
    /\ k > 0 => Part(x, 1, k).row[1] = x.row[1]
    /\ Len(Cat(Part(x, k + 1, Len(x.row)), y).row) = Len(x.row) - k + Len(y.row)

LEMMA ShareRight ==
  ASSUME NEW cmp, NEW x \in Content(DOMAIN cmp), NEW y \in Content(DOMAIN cmp), NEW h \in Nat,
         NEW H, NEW K, NEW S, NEW T, DOMAIN H \subseteq Nat,
         NodeOK(x, h, S, H, K, cmp), NodeOK(y, h, T, H, K, cmp), Before(S, T, cmp),
         AllFresh(x, h, K, cmp), AllFresh(y, h, K, cmp), NEW k \in 0 .. Len(x.row)
  PROVE  RightShare(x, y, k, h, S, T, H, K, cmp)
<1> DEFINE R == DOMAIN cmp
           n == Len(x.row)
           z == Part(x, 1, k)
           v == Part(x, k + 1, n)
           w == Cat(v, y)
<1>0. n \in Nat /\ k \in Nat /\ k <= n /\ Len(y.row) \in Nat BY ContentType
<1>1. /\ z \in Content(R) /\ Sliced(z, x, 1, k, h, K)
      /\ NodeOK(z, h, Keys(z, h, K), H, K, cmp) /\ AllFresh(z, h, K, cmp)
  <2>1. 1 \in Nat \ {0} /\ 1 <= k + 1 BY <1>0
  <2> QED BY <2>1, PartNode
<1>2. /\ v \in Content(R) /\ Sliced(v, x, k + 1, n, h, K)
      /\ NodeOK(v, h, Keys(v, h, K), H, K, cmp) /\ AllFresh(v, h, K, cmp)
  <2>1. k + 1 \in Nat \ {0} /\ k + 1 <= n + 1 /\ n \in 0 .. n BY <1>0
  <2>2. /\ Part(x, k + 1, Len(x.row)) \in Content(R) /\ Sliced(Part(x, k + 1, Len(x.row)), x, k + 1, Len(x.row), h, K)
        /\ NodeOK(Part(x, k + 1, Len(x.row)), h, Keys(Part(x, k + 1, Len(x.row)), h, K), H, K, cmp)
        /\ AllFresh(Part(x, k + 1, Len(x.row)), h, K, cmp)
    BY <2>1, PartNode
  <2> QED BY <2>2
<1>3. S = Keys(z, h, K) \union Keys(v, h, K) /\ Before(Keys(z, h, K), Keys(v, h, K), cmp)
  BY CutNode
<1> HIDE DEF z, v
<1>4. Before(Keys(v, h, K), T, cmp) BY <1>3 DEF Before
<1>5. /\ w \in Content(R) /\ Glued(w, v, y, h, K)
      /\ NodeOK(w, h, Keys(v, h, K) \union T, H, K, cmp)
      /\ AllFresh(w, h, K, cmp)
  BY <1>2, <1>4, CatNode
<1> HIDE DEF w
<1>6. Keys(w, h, K) = Keys(v, h, K) \union T BY <1>5 DEF NodeOK
<1>7. Keys(z, h, K) \union Keys(w, h, K) = S \union T BY <1>3, <1>6
<1>8. Before(Keys(z, h, K), Keys(w, h, K), cmp)
  <2>1. Keys(z, h, K) \subseteq S BY <1>3
  <2> QED BY <2>1, <1>3, <1>6 DEF Before
<1>9. ASSUME h # 1, NEW d, IsIn(x, d) \/ IsIn(y, d) PROVE IsIn(z, d) \/ IsIn(w, d)
  <2>1. Layer(x, h, H) /\ Layer(v, h, H) /\ Layer(y, h, H) /\ h \in Nat \ {1} BY <1>2, <1>9 DEF NodeOK
  <2>2. IsIn(x, d) => IsIn(z, d) \/ IsIn(v, d) BY <2>1, PartHas DEF z, v
  <2>3. IsIn(v, d) \/ IsIn(y, d) => IsIn(w, d) BY <2>1, <1>2, CatHas DEF w
  <2> QED BY <2>2, <2>3, <1>9
<1>10. NodeOK(w, h, Keys(w, h, K), H, K, cmp) BY <1>5, <1>6
<1>11. Shared(x, y, z, w, h, S, T, H, K, cmp) BY <1>1, <1>5, <1>7, <1>8, <1>9, <1>10 DEF Shared
<1>12. Len(z.row) = k /\ (k > 0 => z.row[1] = x.row[1])
  <2>1. Len(z.row) = k - 1 + 1 /\ \A i \in 1 .. k - 1 + 1 : z.row[i] = x.row[1 + i - 1] BY <1>1 DEF Sliced
  <2>2. k - 1 + 1 = k /\ 1 + 1 - 1 = 1 /\ (k > 0 => 1 \in 1 .. k - 1 + 1) BY <1>0
  <2>3. k > 0 => z.row[1] = x.row[1 + 1 - 1] BY <2>1, <2>2
  <2> QED BY <2>1, <2>2, <2>3
<1>13. Len(w.row) = n - k + Len(y.row)
  <2>1. Len(v.row) = n - (k + 1) + 1 BY <1>2 DEF Sliced
  <2>2. n - (k + 1) + 1 = n - k BY <1>0
  <2>3. Len(w.row) = Len(v.row) + Len(y.row) BY <1>5 DEF Glued
  <2> QED BY <2>1, <2>2, <2>3
<1> QED BY <1>11, <1>12, <1>13 DEF z, v, w, n, RightShare

LEMMA ShareLeft ==
  ASSUME NEW cmp, NEW x \in Content(DOMAIN cmp), NEW y \in Content(DOMAIN cmp), NEW h \in Nat,
         NEW H, NEW K, NEW S, NEW T, DOMAIN H \subseteq Nat,
         NodeOK(x, h, S, H, K, cmp), NodeOK(y, h, T, H, K, cmp), Before(S, T, cmp),
         AllFresh(x, h, K, cmp), AllFresh(y, h, K, cmp), NEW k \in 0 .. Len(y.row)
  PROVE  /\ Shared(x, y, Cat(x, Part(y, 1, k)), Part(y, k + 1, Len(y.row)), h, S, T, H, K, cmp)
         /\ Len(Part(y, k + 1, Len(y.row)).row) = Len(y.row) - k
         /\ Len(x.row) > 0 => Cat(x, Part(y, 1, k)).row[1] = x.row[1]
         /\ Len(Cat(x, Part(y, 1, k)).row) = Len(x.row) + k
<1> DEFINE R == DOMAIN cmp
           n == Len(y.row)
           v == Part(y, 1, k)
           w == Part(y, k + 1, n)
           z == Cat(x, v)
<1>0. n \in Nat /\ k \in Nat /\ k <= n /\ Len(x.row) \in Nat BY ContentType
<1>1. /\ v \in Content(R) /\ Sliced(v, y, 1, k, h, K)
      /\ NodeOK(v, h, Keys(v, h, K), H, K, cmp) /\ AllFresh(v, h, K, cmp)
  <2>1. 1 \in Nat \ {0} /\ 1 <= k + 1 BY <1>0
  <2> QED BY <2>1, PartNode
<1>2. /\ w \in Content(R) /\ Sliced(w, y, k + 1, n, h, K)
      /\ NodeOK(w, h, Keys(w, h, K), H, K, cmp) /\ AllFresh(w, h, K, cmp)
  <2>1. k + 1 \in Nat \ {0} /\ k + 1 <= n + 1 /\ n \in 0 .. n BY <1>0
  <2>2. /\ Part(y, k + 1, Len(y.row)) \in Content(R) /\ Sliced(Part(y, k + 1, Len(y.row)), y, k + 1, Len(y.row), h, K)
        /\ NodeOK(Part(y, k + 1, Len(y.row)), h, Keys(Part(y, k + 1, Len(y.row)), h, K), H, K, cmp)
        /\ AllFresh(Part(y, k + 1, Len(y.row)), h, K, cmp)
    BY <2>1, PartNode
  <2> QED BY <2>2
<1>3. T = Keys(v, h, K) \union Keys(w, h, K) /\ Before(Keys(v, h, K), Keys(w, h, K), cmp)
  BY CutNode
<1> HIDE DEF v, w
<1>4. Before(S, Keys(v, h, K), cmp) BY <1>3 DEF Before
<1>5. /\ z \in Content(R) /\ Glued(z, x, v, h, K)
      /\ NodeOK(z, h, S \union Keys(v, h, K), H, K, cmp)
      /\ AllFresh(z, h, K, cmp)
  BY <1>1, <1>4, CatNode
<1> HIDE DEF z
<1>6. Keys(z, h, K) = S \union Keys(v, h, K) BY <1>5 DEF NodeOK
<1>7. Keys(z, h, K) \union Keys(w, h, K) = S \union T BY <1>3, <1>6
<1>8. Before(Keys(z, h, K), Keys(w, h, K), cmp)
  <2>1. Keys(w, h, K) \subseteq T BY <1>3
  <2> QED BY <2>1, <1>3, <1>6 DEF Before
<1>9. ASSUME h # 1, NEW d, IsIn(x, d) \/ IsIn(y, d) PROVE IsIn(z, d) \/ IsIn(w, d)
  <2>1. Layer(x, h, H) /\ Layer(v, h, H) /\ Layer(y, h, H) /\ h \in Nat \ {1} BY <1>1, <1>9 DEF NodeOK
  <2>2. IsIn(y, d) => IsIn(v, d) \/ IsIn(w, d) BY <2>1, PartHas DEF w, v
  <2>3. IsIn(x, d) \/ IsIn(v, d) => IsIn(z, d) BY <2>1, <1>1, CatHas DEF z
  <2> QED BY <2>2, <2>3, <1>9
<1>10. NodeOK(z, h, Keys(z, h, K), H, K, cmp) BY <1>5, <1>6
<1>11. Shared(x, y, z, w, h, S, T, H, K, cmp) BY <1>2, <1>5, <1>7, <1>8, <1>9, <1>10 DEF Shared
<1>12. Len(w.row) = n - k
  <2>1. Len(w.row) = n - (k + 1) + 1 BY <1>2 DEF Sliced
  <2>2. n - (k + 1) + 1 = n - k BY <1>0
  <2> QED BY <2>1, <2>2
<1>13. Len(z.row) = Len(x.row) + k /\ (Len(x.row) > 0 => z.row[1] = x.row[1])
  <2>1. Len(v.row) = k - 1 + 1 BY <1>1 DEF Sliced
  <2>2. k - 1 + 1 = k BY <1>0
  <2>3. /\ Len(z.row) = Len(x.row) + Len(v.row)
        /\ \A i \in 1 .. Len(x.row) : z.row[i] = x.row[i]
    BY <1>5 DEF Glued
  <2>4. Len(x.row) > 0 => 1 \in 1 .. Len(x.row) BY <1>0
  <2> QED BY <2>1, <2>2, <2>3, <2>4
<1> QED BY <1>11, <1>12, <1>13 DEF z, v, w, n

(* v is w with its l entries from p on replaced by m.                       *)
Spliced(w, v, p, l, m) ==
    /\ Len(v.row) = Len(w.row) - l + m
    /\ Len(v.child) = Len(v.row)
    /\ \A i \in 1 .. Len(w.row) : i < p => v.row[i] = w.row[i] /\ v.child[i] = w.child[i]
    /\ \A i \in 1 .. Len(w.row) : i >= p + l =>
          v.row[i - l + m] = w.row[i] /\ v.child[i - l + m] = w.child[i]

(* The children outside the window are as they were, ...                    *)
SameOutside(w, p, l, H, G, K, J) ==
    \A i \in 1 .. Len(w.row) : i < p \/ i >= p + l =>
        /\ w.child[i] \in DOMAIN G /\ G[w.child[i]] = H[w.child[i]]
        /\ J[w.child[i]] = K[w.child[i]]

(* ... and those in it share what those in it had.                          *)
NewWindow(w, v, p, l, m, h, G, K, J, cmp) ==
    /\ \A i \in p .. p + m - 1 : v.child[i] \in DOMAIN G /\ G[v.child[i]] = h - 1
    /\ UNION {J[v.child[i]] : i \in p .. p + m - 1} = UNION {K[w.child[i]] : i \in p .. p + l - 1}
    /\ \A i, k \in p .. p + m - 1 : i < k => Before(J[v.child[i]], J[v.child[k]], cmp)

(* Where the entries outside the window come from.                          *)
From(w, v, p, l, m, h, K, J) ==
    \A i \in 1 .. Len(v.row) : i < p \/ i >= p + m =>
        \E k \in 1 .. Len(w.row) :
            /\ k = (IF i < p THEN i ELSE i - m + l)
            /\ v.row[i] = w.row[k] /\ v.child[i] = w.child[k]
            /\ Items(v, h, J, i) = Items(w, h, K, k)

LEMMA FatherOK ==
  ASSUME NEW R, NEW w \in Content(R), NEW v \in Content(R), NEW h \in Nat \ {0, 1},
         NEW H, NEW G, NEW K, NEW J, NEW S, NEW cmp, NodeOK(w, h, S, H, K, cmp),
         NEW p \in Nat \ {0}, NEW l \in {1, 2}, NEW m \in {1, 2}, p + l - 1 <= Len(w.row),
         Spliced(w, v, p, l, m), SameOutside(w, p, l, H, G, K, J),
         NewWindow(w, v, p, l, m, h, G, K, J, cmp)
  PROVE  NodeOK(v, h, S, G, J, cmp) /\ From(w, v, p, l, m, h, K, J)
<1> DEFINE n == Len(w.row)
           q == n - l + m
           A(i) == Items(w, h, K, i)
           B(i) == Items(v, h, J, i)
           W == UNION {A(i) : i \in p .. p + l - 1}
<1>0. n \in Nat /\ Len(v.row) = q /\ p + l - 1 <= n BY ContentType DEF Spliced
<1>1. /\ \A i \in 1 .. n : A(i) = K[w.child[i]] /\ w.child[i] \in DOMAIN H /\ H[w.child[i]] = h - 1
      /\ \A i : B(i) = J[v.child[i]]
  BY DEF Items, NodeOK, Layer
<1>2. /\ \A i, k \in 1 .. n : i < k => Before(A(i), A(k), cmp)
      /\ S = UNION {A(i) : i \in 1 .. n}
  BY DEF NodeOK, Sorted, Keys
<1> HIDE DEF n, A, B
<1>3. ASSUME NEW i \in 1 .. q, i < p \/ i >= p + m
      PROVE  \E k \in 1 .. n : /\ k = (IF i < p THEN i ELSE i - m + l)
                               /\ v.row[i] = w.row[k] /\ v.child[i] = w.child[k]
                               /\ B(i) = A(k)
                               /\ v.child[i] \in DOMAIN G /\ G[v.child[i]] = h - 1
  <2> DEFINE k == IF i < p THEN i ELSE i - m + l
  <2>1. k \in 1 .. n /\ (k < p \/ k >= p + l) /\ (i < p => k < p /\ k = i) /\ (~(i < p) => k >= p + l /\ k - l + m = i)
    BY <1>0, <1>3
  <2> HIDE DEF k
  <2>2. v.row[i] = w.row[k] /\ v.child[i] = w.child[k]
    <3>1. CASE i < p BY <2>1, <3>1 DEF Spliced, n
    <3>2. CASE ~(i < p)
      <4>1. v.row[k - l + m] = w.row[k] /\ v.child[k - l + m] = w.child[k] BY <2>1, <3>2 DEF Spliced, n
      <4> QED BY <4>1, <2>1, <3>2
    <3> QED BY <3>1, <3>2
  <2>3. w.child[k] \in DOMAIN G /\ G[w.child[k]] = H[w.child[k]] /\ J[w.child[k]] = K[w.child[k]]
    BY <2>1 DEF SameOutside, n
  <2>4. B(i) = A(k) BY <1>1, <2>1, <2>2, <2>3
  <2>5. v.child[i] \in DOMAIN G /\ G[v.child[i]] = h - 1 BY <1>1, <2>1, <2>2, <2>3
  <2> QED BY <2>1, <2>2, <2>4, <2>5 DEF k
<1>4. From(w, v, p, l, m, h, K, J) BY <1>0, <1>3 DEF From, n, A, B
<1>5. /\ \A i \in p .. p + m - 1 : v.child[i] \in DOMAIN G /\ G[v.child[i]] = h - 1
      /\ UNION {J[v.child[i]] : i \in p .. p + m - 1} = UNION {K[w.child[i]] : i \in p .. p + l - 1}
      /\ \A i, k \in p .. p + m - 1 : i < k => Before(J[v.child[i]], J[v.child[k]], cmp)
  BY DEF NewWindow
<1>6. Layer(v, h, G)
  <2>1. Len(v.child) = Len(v.row) BY DEF Spliced
  <2>2. ASSUME NEW i \in 1 .. q PROVE v.child[i] \in DOMAIN G /\ G[v.child[i]] = h - 1
    <3>1. CASE i < p \/ i >= p + m BY <1>3, <3>1
    <3>2. CASE ~(i < p \/ i >= p + m)
      <4>1. i \in p .. p + m - 1 BY <3>2, <1>0
      <4> QED BY <4>1, <1>5
    <3> QED BY <3>1, <3>2
  <2>3. h # 1 OBVIOUS
  <2> QED BY <1>0, <2>1, <2>2, <2>3 DEF Layer
<1>7. W = UNION {K[w.child[i]] : i \in p .. p + l - 1}
  <2>1. \A i \in p .. p + l - 1 : i \in 1 .. n BY <1>0
  <2> QED BY <1>1, <2>1
<1> HIDE DEF W
<1>8. W = UNION {B(i) : i \in p .. p + m - 1}
  <2>1. \A i \in p .. p + m - 1 : B(i) = J[v.child[i]] BY <1>1
  <2>2. {B(i) : i \in p .. p + m - 1} = {J[v.child[i]] : i \in p .. p + m - 1} BY <2>1
  <2> QED BY <2>2, <1>5, <1>7
<1>9. /\ \A i \in 1 .. n : i < p => Before(A(i), W, cmp)
      /\ \A i \in 1 .. n : i >= p + l => Before(W, A(i), cmp)
  <2>1. \A i \in p .. p + l - 1 : i \in 1 .. n /\ (\A k \in 1 .. n : k < p => k < i)
                                  /\ (\A k \in 1 .. n : k >= p + l => i < k)
    BY <1>0
  <2>2. ASSUME NEW i \in 1 .. n, i < p PROVE Before(A(i), W, cmp)
    <3> SUFFICES ASSUME NEW a \in A(i), NEW r \in W PROVE cmp[a][r] < 0 BY DEF Before
    <3>1. PICK k \in p .. p + l - 1 : r \in A(k) BY DEF W
    <3>2. Before(A(i), A(k), cmp) BY <1>2, <2>1, <2>2
    <3> QED BY <3>1, <3>2 DEF Before
  <2>3. ASSUME NEW i \in 1 .. n, i >= p + l PROVE Before(W, A(i), cmp)
    <3> SUFFICES ASSUME NEW a \in A(i), NEW r \in W PROVE cmp[r][a] < 0 BY DEF Before
    <3>1. PICK k \in p .. p + l - 1 : r \in A(k) BY DEF W
    <3>2. Before(A(k), A(i), cmp) BY <1>2, <2>1, <2>3
    <3> QED BY <3>1, <3>2 DEF Before
  <2> QED BY <2>2, <2>3
<1>10. \A i \in p .. p + m - 1 : B(i) \subseteq W BY <1>8
<1>11. Sorted(v, h, J, cmp)
  <2> SUFFICES ASSUME NEW i \in 1 .. q, NEW k \in 1 .. q, i < k PROVE Before(B(i), B(k), cmp)
    BY <1>0 DEF Sorted, B
  <2>1. CASE (i < p \/ i >= p + m) /\ (k < p \/ k >= p + m)
    <3>1. PICK a \in 1 .. n : a = (IF i < p THEN i ELSE i - m + l) /\ B(i) = A(a) BY <1>3, <2>1
    <3>2. PICK b \in 1 .. n : b = (IF k < p THEN k ELSE k - m + l) /\ B(k) = A(b) BY <1>3, <2>1
    <3>3. a < b BY <2>1, <3>1, <3>2, <1>0
    <3> QED BY <3>1, <3>2, <3>3, <1>2
  <2>2. CASE i < p /\ ~(k < p \/ k >= p + m)
    <3>1. k \in p .. p + m - 1 BY <2>2, <1>0
    <3>2. PICK a \in 1 .. n : a = i /\ B(i) = A(a) BY <1>3, <2>2
    <3>3. Before(A(a), W, cmp) /\ B(k) \subseteq W BY <1>9, <1>10, <2>2, <3>1, <3>2
    <3> QED BY <3>2, <3>3 DEF Before
  <2>3. CASE ~(i < p \/ i >= p + m) /\ k >= p + m
    <3>1. i \in p .. p + m - 1 BY <2>3, <1>0
    <3>2. PICK b \in 1 .. n : b = (IF k < p THEN k ELSE k - m + l) /\ B(k) = A(b) BY <1>3, <2>3
    <3>3. b >= p + l BY <2>3, <3>2, <1>0
    <3>4. Before(W, A(b), cmp) /\ B(i) \subseteq W BY <1>9, <1>10, <3>1, <3>3
    <3> QED BY <3>2, <3>4 DEF Before
  <2>4. CASE ~(i < p \/ i >= p + m) /\ ~(k < p \/ k >= p + m)
    <3>1. i \in p .. p + m - 1 /\ k \in p .. p + m - 1 BY <2>4, <1>0
    <3> QED BY <3>1, <1>1, <1>5
  <2>5. ~(~(i < p \/ i >= p + m) /\ k < p) /\ ~(i >= p + m /\ ~(k < p \/ k >= p + m)) BY <1>0
  <2> QED BY <2>1, <2>2, <2>3, <2>4, <2>5
<1>12. S = Keys(v, h, J)
  <2>1. Keys(v, h, J) = UNION {B(i) : i \in 1 .. q} BY <1>0 DEF Keys, B
  <2>2. ASSUME NEW i \in 1 .. q PROVE B(i) \subseteq S
    <3>1. CASE i < p \/ i >= p + m
      <4>1. PICK k \in 1 .. n : B(i) = A(k) BY <1>3, <3>1
      <4> QED BY <4>1, <1>2
    <3>2. CASE ~(i < p \/ i >= p + m)
      <4>1. i \in p .. p + m - 1 /\ (\A k \in p .. p + l - 1 : k \in 1 .. n) BY <3>2, <1>0
      <4>2. W \subseteq S BY <4>1, <1>2 DEF W
      <4> QED BY <4>1, <4>2, <1>10
    <3> QED BY <3>1, <3>2
  <2>3. ASSUME NEW k \in 1 .. n PROVE A(k) \subseteq UNION {B(i) : i \in 1 .. q}
    <3>1. CASE k < p
      <4>1. k \in 1 .. q BY <3>1, <1>0
      <4>2. B(k) = A(k) BY <4>1, <3>1, <1>3
      <4> QED BY <4>1, <4>2
    <3>2. CASE k >= p + l
      <4> DEFINE i == k - l + m
      <4>1. i \in 1 .. q /\ i >= p + m /\ ~(i < p) /\ i - m + l = k BY <3>2, <1>0
      <4> HIDE DEF i
      <4>2. B(i) = A(k) BY <4>1, <1>3
      <4> QED BY <4>1, <4>2
    <3>3. CASE ~(k < p) /\ ~(k >= p + l)
      <4>1. k \in p .. p + l - 1 /\ (\A i \in p .. p + m - 1 : i \in 1 .. q) BY <3>3, <1>0
      <4>2. A(k) \subseteq W BY <4>1 DEF W
      <4> QED BY <4>1, <4>2, <1>8
    <3> QED BY <3>1, <3>2, <3>3
  <2> HIDE DEF q
  <2> QED BY <2>1, <2>2, <2>3, <1>2
<1> QED BY <1>4, <1>6, <1>11, <1>12 DEF NodeOK

(* In what state a node below f, the p-th, is repaired: of the rows that    *)
(* are out of date none is below f, and only f's for that node in f.        *)
StaleAbove(X, t, H, f, p) ==
    \A c, i : <<c, i>> \in X => c \in DOMAIN t.node /\ (H[c] > H[f] \/ (c = f /\ i = p))

Repairable(t, H, K, X, f, p, cmp) ==
    /\ IsOrder(cmp) /\ Good(t, H, K, X, cmp)
    /\ f \in DOMAIN t.node /\ H[f] > 1 /\ p \in 1 .. Len(t.node[f].row)
    /\ StaleAbove(X, t, H, f, p)

(* Every child of f is then in order.                                       *)
InOrderNode(t, H, K, c, cmp) ==
    /\ c \in DOMAIN t.node /\ H[c] \in Nat \ {0} /\ c # t.root
    /\ t.node[c] \in Content(DOMAIN cmp)
    /\ Len(t.node[c].row) \in Nat \ {0}
    /\ NodeOK(t.node[c], H[c], K[c], H, K, cmp) /\ AllFresh(t.node[c], H[c], K, cmp)
    /\ FirstRow(t, c) = t.node[c].row[1]
    /\ Least(FirstRow(t, c), K[c], cmp)
    /\ K[c] \subseteq DOMAIN cmp /\ K[c] # {}
    /\ IF H[c] = 1 THEN Leaf(t.node[c])
       ELSE ~Leaf(t.node[c]) /\ Len(t.node[c].child) = Len(t.node[c].row)

LEMMA FreshNode ==
  ASSUME NEW t, NEW H, NEW K, NEW X, NEW cmp, Good(t, H, K, X, cmp),
         NEW c \in DOMAIN t.node, H[c] > 0, c # t.root,
         \A i \in Nat : <<c, i>> \notin X
  PROVE  InOrderNode(t, H, K, c, cmp)
<1>0. H[c] \in Nat /\ H[c] > 0 BY DEF Good, Typed
<1> DEFINE x == t.node[c]
<1>1. /\ x \in Content(DOMAIN cmp) /\ K[c] \subseteq DOMAIN cmp
      /\ NodeOK(x, H[c], K[c], H, K, cmp) /\ K[c] # {} /\ Len(x.row) \in Nat \ {0}
      /\ H[c] = 1 => Leaf(x)
      /\ H[c] > 1 /\ Len(x.row) > 0 => ~Leaf(x)
  BY <1>0, UsedNode
<1>2. AllFresh(x, H[c], K, cmp)
  <2>1. \A i \in 1 .. Len(x.row) : <<c, i>> \in X \/ Fresh(x, H[c], K, cmp, i) BY <1>0 DEF Good, Used
  <2>2. \A i \in 1 .. Len(x.row) : i \in Nat BY <1>1
  <2> QED BY <2>1, <2>2 DEF AllFresh
<1>3. x.row # <<>> /\ 1 \in 1 .. Len(x.row) BY <1>1
<1>4. FirstRow(t, c) = x.row[1] BY <1>3 DEF FirstRow
<1>5. Least(x.row[1], K[c], cmp)
  <2>1. Fresh(x, H[c], K, cmp, 1) BY <1>2, <1>3 DEF AllFresh
  <2> QED BY <1>1, <2>1, FirstLeast
<1>6. CASE H[c] = 1 BY <1>0, <1>1, <1>2, <1>4, <1>5, <1>6 DEF InOrderNode
<1>7. CASE H[c] # 1
  <2>1. H[c] > 1 /\ Len(x.row) > 0 BY <1>0, <1>1, <1>7
  <2>2. Len(x.child) = Len(x.row) BY <1>1, <1>7 DEF NodeOK, Layer
  <2> QED BY <1>0, <1>1, <1>2, <1>4, <1>5, <1>7, <2>1, <2>2 DEF InOrderNode
<1> QED BY <1>6, <1>7

(* What the rows of a node below f are.                                     *)
LEMMA NamedBelow ==
  ASSUME NEW t, NEW H, NEW K, NEW X, NEW cmp, NEW f, NEW p, Repairable(t, H, K, X, f, p, cmp),
         NEW c \in DOMAIN t.node, H[c] > 0, H[c] < H[f], c # t.root,
         NEW S, \A s \in S : s \in DOMAIN t.node /\ H[s] >= H[c]
  PROVE  InOrderNode(t, H, K, c, cmp) /\ Named(t, c, S)
<1>0. /\ Good(t, H, K, X, cmp) /\ f \in DOMAIN t.node /\ StaleAbove(X, t, H, f, p)
      /\ H \in [DOMAIN t.node -> Nat] /\ H[f] \in Nat /\ H[c] \in Nat
  BY DEF Repairable, Good, Typed
<1>2. ASSUME NEW d \in DOMAIN t.node, H[d] < H[f] PROVE \A k \in Nat : <<d, k>> \notin X
  <2>1. H[d] \in Nat BY <1>0
  <2> QED BY <1>0, <1>2, <2>1 DEF StaleAbove
<1>3. InOrderNode(t, H, K, c, cmp) BY <1>0, <1>2, FreshNode
<1>4. ASSUME ~Leaf(t.node[c]), NEW k \in 1 .. Len(t.node[c].row)
      PROVE  /\ t.node[c].child[k] \in DOMAIN t.node \ S
             /\ t.node[c].row[k] = FirstRow(t, t.node[c].child[k])
  <2> DEFINE d == t.node[c].child[k]
  <2>0. H[c] > 1 BY <1>3, <1>4, <1>0 DEF InOrderNode
  <2>1. /\ d \in DOMAIN t.node /\ H[d] = H[c] - 1 /\ H[d] > 0 /\ d # t.root
        /\ Items(t.node[c], H[c], K, k) = K[d]
    BY <1>0, <2>0, ChildNode
  <2>5. Least(t.node[c].row[k], Items(t.node[c], H[c], K, k), cmp) BY <1>3 DEF InOrderNode, AllFresh, Fresh
  <2> HIDE DEF d
  <2>2. H[d] < H[f] /\ ~(H[d] >= H[c]) BY <2>1, <1>0
  <2>3. InOrderNode(t, H, K, d, cmp) BY <1>0, <1>2, <2>1, <2>2, FreshNode
  <2>4. Least(FirstRow(t, d), K[d], cmp) BY <2>3 DEF InOrderNode
  <2>6. t.node[c].row[k] = FirstRow(t, d)
    <3>1. IsOrder(cmp) /\ K[d] \subseteq DOMAIN cmp BY <2>3 DEF Repairable, InOrderNode
    <3> DEFINE r == t.node[c].row[k]
               s == FirstRow(t, d)
    <3>2. Least(r, K[d], cmp) /\ Least(s, K[d], cmp) BY <2>1, <2>4, <2>5
    <3> HIDE DEF r, s
    <3>3. r \in K[d] /\ s \in K[d] /\ (s = r \/ cmp[r][s] < 0) /\ (r = s \/ cmp[s][r] < 0) BY <3>2 DEF Least
    <3>4. cmp[r][s] \in Int /\ cmp[s][r] \in Int /\ (cmp[r][s] < 0 <=> cmp[s][r] > 0) BY <3>1, <3>3 DEF IsOrder
    <3>5. r = s BY <3>3, <3>4
    <3> QED BY <3>5 DEF r, s
  <2> QED BY <2>1, <2>2, <2>6 DEF d
<1>5. Named(t, c, S) BY <1>4 DEF Named
<1> QED BY <1>3, <1>5

IthChild(t, H, K, f, i, c, cmp) ==
    /\ InOrderNode(t, H, K, c, cmp)
    /\ H[c] = H[f] - 1 /\ H[f] \in Nat /\ H[c] \in Nat
    /\ c # f /\ Child(t, f, i) = c
    /\ Items(t.node[f], H[f], K, i) = K[c]
    /\ \A S : (\A s \in S : s \in DOMAIN t.node /\ H[s] >= H[c]) => Named(t, c, S)

LEMMA Sibling ==
  ASSUME NEW t, NEW H, NEW K, NEW X, NEW cmp, NEW f, NEW p, Repairable(t, H, K, X, f, p, cmp),
         NEW i \in 1 .. Len(t.node[f].row), NEW c, c = t.node[f].child[i]
  PROVE  IthChild(t, H, K, f, i, c, cmp)
<1>0. /\ Good(t, H, K, X, cmp) /\ f \in DOMAIN t.node /\ H[f] > 1
      /\ H \in [DOMAIN t.node -> Nat] /\ H[f] \in Nat
  BY DEF Repairable, Good, Typed
<1>1. /\ c \in DOMAIN t.node /\ H[c] = H[f] - 1 /\ H[c] > 0 /\ c # t.root /\ c # f
      /\ Items(t.node[f], H[f], K, i) = K[c] /\ Child(t, f, i) = c
  BY <1>0, ChildNode
<1>2. H[c] < H[f] /\ H[c] \in Nat BY <1>0, <1>1
<1>3. InOrderNode(t, H, K, c, cmp)
  <2> DEFINE S == {}
  <2>1. \A s \in S : s \in DOMAIN t.node /\ H[s] >= H[c] OBVIOUS
  <2> HIDE DEF S
  <2>2. InOrderNode(t, H, K, c, cmp) /\ Named(t, c, S) BY <1>1, <1>2, <2>1, NamedBelow
  <2> QED BY <2>2
<1>4. ASSUME NEW S, \A s \in S : s \in DOMAIN t.node /\ H[s] >= H[c] PROVE Named(t, c, S)
  BY <1>1, <1>2, <1>4, NamedBelow
<1> QED BY <1>0, <1>1, <1>2, <1>3, <1>4 DEF IthChild

(* From t to u, l children of f from the p-th on become m, and no other     *)
(* node changes: M are these nodes, and perhaps free ones.                  *)
Windowed(t, u, H, G, K, J, f, p, l, m, M, X, cmp) ==
    /\ Typed(u, G, J, DOMAIN cmp) /\ Freelist(u, G) /\ u.root = t.root
    /\ G[f] = H[f] /\ J[f] = K[f] /\ f \notin M
    /\ M \subseteq DOMAIN u.node
    /\ Outside(t, u, H, G, K, J, M \union {f})
    /\ Spliced(t.node[f], u.node[f], p, l, m)
    /\ \A i \in p .. p + l - 1 : t.node[f].child[i] \in M
    /\ \A i \in p .. p + m - 1 : u.node[f].child[i] \in M /\ G[u.node[f].child[i]] > 0
    /\ \A c \in M :
          /\ c \in DOMAIN t.node /\ H[c] > 0 => \E i \in p .. p + l - 1 : t.node[f].child[i] = c
          /\ G[c] = 0 => J[c] = {}
          /\ G[c] > 0 => /\ G[c] = H[f] - 1 /\ J[c] # {}
                         /\ \E i \in p .. p + m - 1 : u.node[f].child[i] = c
                         /\ NodeOK(u.node[c], H[f] - 1, J[c], H, K, cmp)
                         /\ AllFresh(u.node[c], H[f] - 1, K, cmp)
    /\ UNION {J[u.node[f].child[i]] : i \in p .. p + m - 1} = UNION {K[t.node[f].child[i]] : i \in p .. p + l - 1}
    /\ \A i, k \in p .. p + m - 1 : i < k => Before(J[u.node[f].child[i]], J[u.node[f].child[k]], cmp)
    /\ \A i \in p .. p + m - 1 : <<f, i>> \in X \/ Least(u.node[f].row[i], J[u.node[f].child[i]], cmp)
    /\ \A i \in Nat : <<f, i>> \in X => i \in p .. p + l - 1
    /\ H[f] > 2 => \A i \in p .. p + l - 1 : \A d : IsIn(t.node[t.node[f].child[i]], d) =>
          \E k \in p .. p + m - 1 : IsIn(u.node[u.node[f].child[k]], d)

(* Places from p on, within a sequence.                                     *)
LEMMA InPlace ==
  ASSUME NEW p \in Nat \ {0}, NEW l \in Int, NEW n \in Int, p + l - 1 <= n, NEW k \in p .. p + l - 1
  PROVE  k \in 1 .. n
OBVIOUS

LEMMA WindowGood ==
  ASSUME NEW t, NEW H, NEW K, NEW X, NEW cmp, IsOrder(cmp), Good(t, H, K, X, cmp),
         NEW f \in DOMAIN t.node, H[f] > 1,
         NEW p \in Nat \ {0}, NEW l \in {1, 2}, NEW m \in {1, 2}, p + l - 1 <= Len(t.node[f].row),
         NEW u, NEW G, NEW J, NEW M, Windowed(t, u, H, G, K, J, f, p, l, m, M, X, cmp)
  PROVE  Good(u, G, J, X, cmp)
<1> DEFINE w == t.node[f]
           v == u.node[f]
           n == Len(w.row)
           R == DOMAIN cmp
<1>0. /\ H[f] \in Nat /\ H[f] > 1 /\ w \in Content(R) /\ n \in Nat
      /\ NodeOK(w, H[f], K[f], H, K, cmp)
      /\ DOMAIN G = DOMAIN u.node /\ f \in DOMAIN u.node /\ f \notin M
      /\ G[f] = H[f] /\ J[f] = K[f]
      /\ p + l - 1 <= n
  <2>1. H[f] \in Nat /\ H[f] > 0 BY DEF Good, Typed
  <2>2. w \in Content(R) /\ NodeOK(w, H[f], K[f], H, K, cmp) /\ n \in Nat BY <2>1, UsedNode
  <2> QED BY <2>1, <2>2 DEF Windowed, Typed, Outside
<1>1. v \in Content(R)
  <2>1. u \in Trees(R) BY DEF Windowed, Typed
  <2> QED BY <2>1, <1>0, TreeType
<1>2. Spliced(w, v, p, l, m) BY DEF Windowed
<1>3. ASSUME NEW i \in 1 .. n, i < p \/ i >= p + l
      PROVE  /\ w.child[i] \in DOMAIN u.node \ (M \union {f})
             /\ w.child[i] \in DOMAIN t.node
  <2>1. /\ w.child[i] \in DOMAIN t.node /\ H[w.child[i]] > 0 /\ w.child[i] # f
    BY <1>0, ChildNode
  <2>2. w.child[i] \in DOMAIN u.node BY <2>1 DEF Windowed, Outside
  <2>3. ASSUME w.child[i] \in M PROVE FALSE
    <3>1. PICK k \in p .. p + l - 1 : w.child[k] = w.child[i] BY <2>1, <2>3 DEF Windowed
    <3>2. k \in 1 .. n /\ k # i BY <1>0, <1>3
    <3>3. k = i BY <3>1, <3>2, <1>0, OneFather
    <3> QED BY <3>2, <3>3
  <2> QED BY <2>1, <2>2, <2>3
<1>4. SameOutside(w, p, l, H, G, K, J)
  <2>1. \A c \in DOMAIN u.node \ (M \union {f}) : G[c] = H[c] /\ J[c] = K[c] BY Zenon DEF Windowed, Outside
  <2> QED BY <2>1, <1>0, <1>3 DEF SameOutside
<1>5. NewWindow(w, v, p, l, m, H[f], G, K, J, cmp)
  <2>1. \A i \in p .. p + m - 1 : v.child[i] \in DOMAIN G /\ G[v.child[i]] = H[f] - 1
    BY <1>0 DEF Windowed
  <2> QED BY <2>1 DEF Windowed, NewWindow
<1>6. NodeOK(v, H[f], K[f], G, J, cmp) /\ From(w, v, p, l, m, H[f], K, J)
  <2> DEFINE h == H[f]
             S == K[f]
  <2>1. h \in Nat \ {0, 1} BY <1>0
  <2>2. p + l - 1 <= Len(w.row) BY <1>0
  <2>3. w \in Content(R) BY <1>0
  <2>4. NodeOK(w, h, S, H, K, cmp) BY <1>0
  <2>5. NewWindow(w, v, p, l, m, h, G, K, J, cmp) BY <1>5
  <2> HIDE DEF w, v, R, h, S, n
  <2>6. NodeOK(v, h, S, G, J, cmp) /\ From(w, v, p, l, m, h, K, J)
    BY <2>1, <2>2, <2>3, <2>4, <2>5, <1>1, <1>2, <1>4, FatherOK
  <2> QED BY <2>6 DEF h, S
<1>7. Len(v.row) = n - l + m BY <1>2 DEF Spliced
<1>71. /\ \A k \in p .. p + m - 1 : k \in 1 .. Len(v.row)
       /\ \A k \in p .. p + l - 1 : k \in 1 .. n
  <2> DEFINE q == Len(v.row)
  <2>1. n \in Int /\ q \in Int /\ l \in Int /\ m \in Int /\ p + l - 1 <= n /\ p + m - 1 <= q BY <1>0, <1>7
  <2> HIDE DEF n, q
  <2>2. \A k \in p .. p + m - 1 : k \in 1 .. q BY <2>1, InPlace
  <2>3. \A k \in p .. p + l - 1 : k \in 1 .. n BY <2>1, InPlace
  <2> QED BY <2>2, <2>3 DEF q
<1>8. ASSUME NEW i \in 1 .. Len(v.row) PROVE <<f, i>> \in X \/ Fresh(v, H[f], J, cmp, i)
  <2>1. CASE i \in p .. p + m - 1
    <3>1. <<f, i>> \in X \/ Least(v.row[i], J[v.child[i]], cmp) BY <2>1 DEF Windowed
    <3>2. Items(v, H[f], J, i) = J[v.child[i]] BY <1>0 DEF Items
    <3> QED BY <3>1, <3>2 DEF Fresh
  <2>2. CASE ~(i \in p .. p + m - 1)
    <3>1. i < p \/ i >= p + m BY <2>2, <1>0, <1>7
    <3>2. PICK k \in 1 .. n : /\ k = (IF i < p THEN i ELSE i - m + l)
                              /\ v.row[i] = w.row[k]
                              /\ Items(v, H[f], J, i) = Items(w, H[f], K, k)
      BY <1>6, <3>1 DEF From
    <3>3. ~(k \in p .. p + l - 1) /\ k \in Nat BY <3>1, <3>2, <1>0, <1>7
    <3>4. <<f, k>> \notin X BY <3>3 DEF Windowed
    <3>5. Fresh(w, H[f], K, cmp, k) BY <3>4, <1>0 DEF Good, Used
    <3> QED BY <3>2, <3>5 DEF Fresh
  <2> QED BY <2>1, <2>2
<1>9. ASSUME NEW c \in DOMAIN t.node, IsChild(t, f, c) PROVE G[c] = 0 \/ IsChild(u, f, c)
  <2>1. PICK i \in 1 .. n : w.child[i] = c BY <1>9 DEF IsChild
  <2>2. CASE i \in p .. p + l - 1
    <3>1. c \in M BY <2>1, <2>2 DEF Windowed
    <3>2. G[c] \in Nat BY <3>1 DEF Windowed, Typed
    <3>3. G[c] > 0 => \E k \in p .. p + m - 1 : v.child[k] = c BY <3>1 DEF Windowed
    <3>4. \A k \in p .. p + m - 1 : k \in 1 .. Len(v.row) BY <1>71
    <3> QED BY <3>2, <3>3, <3>4 DEF IsChild
  <2>3. CASE ~(i \in p .. p + l - 1)
    <3>1. i < p \/ i >= p + l BY <2>3, <1>0
    <3>2. CASE i < p
      <4>1. v.child[i] = w.child[i] BY <1>2, <3>2 DEF Spliced
      <4>2. i \in 1 .. Len(v.row) BY <3>2, <1>0, <1>7
      <4> QED BY <4>1, <4>2, <2>1 DEF IsChild
    <3>3. CASE i >= p + l
      <4>1. v.child[i - l + m] = w.child[i] BY <1>2, <3>3 DEF Spliced
      <4>2. i - l + m \in 1 .. Len(v.row) BY <3>3, <1>0, <1>7
      <4> QED BY <4>1, <4>2, <2>1 DEF IsChild
    <3> QED BY <3>1, <3>2, <3>3
  <2> QED BY <2>2, <2>3
<1>10. ASSUME NEW c \in M PROVE
          /\ c \in DOMAIN t.node /\ H[c] > 0 => IsChild(t, f, c)
          /\ G[c] = 0 => J[c] = {}
          /\ G[c] > 0 => /\ G[c] = H[f] - 1 /\ J[c] # {}
                         /\ IsChild(u, f, c)
                         /\ NodeOK(u.node[c], H[f] - 1, J[c], H, K, cmp)
                         /\ AllFresh(u.node[c], H[f] - 1, K, cmp)
  <2>1. /\ \A k \in p .. p + m - 1 : k \in 1 .. Len(v.row)
        /\ \A k \in p .. p + l - 1 : k \in 1 .. n
    BY <1>71
  <2> QED BY <2>1, <1>10 DEF Windowed, IsChild
<1>11. ASSUME NEW c \in M \intersect DOMAIN t.node, NEW d \in DOMAIN t.node, H[c] > 1, IsChild(t, c, d)
       PROVE  \E b \in M : G[b] = H[c] /\ IsChild(u, b, d)
  <2>1. H[c] \in Nat /\ H[c] > 0 BY <1>11 DEF Good, Typed
  <2>2. PICK i \in p .. p + l - 1 : w.child[i] = c BY <1>11, <2>1 DEF Windowed
  <2>3. i \in 1 .. n BY <1>0
  <2>4. H[c] = H[f] - 1
    <3>1. w.child[i] \in DOMAIN t.node /\ H[w.child[i]] = H[f] - 1 BY <2>3, <1>0, ChildNode
    <3> QED BY <3>1, <2>2
  <2>5. H[f] > 2 BY <2>4, <1>0, <1>11
  <2>6. IsIn(t.node[w.child[i]], d) BY <1>11, <2>2, Zenon DEF IsIn, IsChild
  <2>7. PICK k \in p .. p + m - 1 : IsIn(u.node[v.child[k]], d) BY <2>5, <2>6 DEF Windowed
  <2>8. v.child[k] \in M /\ G[v.child[k]] = H[f] - 1 BY DEF Windowed
  <2> QED BY <2>4, <2>7, <2>8 DEF IsIn, IsChild
<1>12. Regrouped(t, u, H, G, K, J, f, M, X, cmp)
  <2>1. /\ Typed(u, G, J, DOMAIN cmp) /\ Freelist(u, G) /\ u.root = t.root
        /\ M \subseteq DOMAIN u.node
        /\ Outside(t, u, H, G, K, J, M \union {f})
    BY DEF Windowed
  <2> QED BY <2>1, <1>0, <1>6, <1>8, <1>9, <1>10, <1>11 DEF Regrouped
<1>13. \A a \in DOMAIN t.node, i \in Nat : a # f /\ <<a, i>> \in X => <<a, i>> \in X OBVIOUS
<1> QED BY <1>12, <1>13, Regroup, Zenon

(* a and b, the p-th and the next child of f, of which one is repaired.     *)
Pair(t, H, K, X, f, num, p, a, b, cmp) ==
    /\ Repairable(t, H, K, X, f, num, cmp) /\ num \in {p, p + 1}
    /\ p \in 1 .. Len(t.node[f].row) /\ p + 1 \in 1 .. Len(t.node[f].row)
    /\ Child(t, f, p) = a /\ Child(t, f, p + 1) = b

LEMMA PairFacts ==
  ASSUME NEW t, NEW H, NEW K, NEW X, NEW f, NEW num, NEW p, NEW a, NEW b, NEW cmp,
         Pair(t, H, K, X, f, num, p, a, b, cmp)
  PROVE  /\ InOrderNode(t, H, K, a, cmp) /\ InOrderNode(t, H, K, b, cmp)
         /\ f \in DOMAIN t.node /\ H[f] \in Nat /\ H[f] > 1
         /\ H[a] = H[f] - 1 /\ H[b] = H[f] - 1
         /\ a # b /\ a # f /\ b # f
         /\ Before(K[a], K[b], cmp)
         /\ Neighbours(t, f, p, a, b)
         /\ cmp[FirstRow(t, a)][FirstRow(t, b)] < 0
         /\ ~(cmp[FirstRow(t, b)][FirstRow(t, a)] < 0)
         /\ DOMAIN H = DOMAIN t.node /\ DOMAIN H \subseteq Nat
         /\ Good(t, H, K, X, cmp) /\ IsOrder(cmp)
<1>0. /\ Good(t, H, K, X, cmp) /\ IsOrder(cmp) /\ f \in DOMAIN t.node /\ H[f] > 1 /\ H[f] \in Nat
      /\ H \in [DOMAIN t.node -> Nat] /\ t \in Trees(DOMAIN cmp)
      /\ p \in 1 .. Len(t.node[f].row) /\ p + 1 \in 1 .. Len(t.node[f].row)
  BY DEF Pair, Repairable, Good, Typed
<1>1. /\ InOrderNode(t, H, K, a, cmp) /\ H[a] = H[f] - 1 /\ H[a] \in Nat /\ a # f
      /\ Items(t.node[f], H[f], K, p) = K[a]
      /\ \A S : (\A s \in S : s \in DOMAIN t.node /\ H[s] >= H[a]) => Named(t, a, S)
  <2>1. a = t.node[f].child[p] /\ Repairable(t, H, K, X, f, num, cmp) BY DEF Pair, Child
  <2>2. IthChild(t, H, K, f, p, a, cmp) BY <1>0, <2>1, Sibling
  <2> QED BY <2>2 DEF IthChild
<1>2. /\ InOrderNode(t, H, K, b, cmp) /\ H[b] = H[f] - 1 /\ H[b] \in Nat /\ b # f
      /\ Items(t.node[f], H[f], K, p + 1) = K[b]
      /\ \A S : (\A s \in S : s \in DOMAIN t.node /\ H[s] >= H[b]) => Named(t, b, S)
  <2>1. b = t.node[f].child[p + 1] /\ Repairable(t, H, K, X, f, num, cmp) BY DEF Pair, Child
  <2>2. IthChild(t, H, K, f, p + 1, b, cmp) BY <1>0, <2>1, Sibling
  <2> QED BY <2>2 DEF IthChild
<1>3. Before(K[a], K[b], cmp)
  <2>1. H[f] > 0 BY <1>0
  <2>2. NodeOK(t.node[f], H[f], K[f], H, K, cmp) BY <1>0, <2>1, UsedNode
  <2>3. p < p + 1 BY <1>0
  <2>4. Before(Items(t.node[f], H[f], K, p), Items(t.node[f], H[f], K, p + 1), cmp)
    BY <2>2, <2>3, <1>0 DEF NodeOK, Sorted
  <2> QED BY <2>4, <1>1, <1>2
<1>4. /\ a \in DOMAIN t.node /\ b \in DOMAIN t.node
      /\ FirstRow(t, a) \in K[a] /\ FirstRow(t, b) \in K[b]
      /\ K[a] \subseteq DOMAIN cmp /\ K[b] \subseteq DOMAIN cmp
  BY <1>1, <1>2 DEF InOrderNode, Least
<1>5. /\ cmp[FirstRow(t, a)][FirstRow(t, b)] < 0
      /\ ~(cmp[FirstRow(t, b)][FirstRow(t, a)] < 0)
  <2> DEFINE r == FirstRow(t, a)
             s == FirstRow(t, b)
  <2>1. r \in DOMAIN cmp /\ s \in DOMAIN cmp /\ cmp[r][s] < 0 BY <1>3, <1>4 DEF Before
  <2> HIDE DEF r, s
  <2>2. cmp[r][s] \in Int /\ cmp[s][r] \in Int /\ (cmp[r][s] < 0 <=> cmp[s][r] > 0) BY <2>1, <1>0 DEF IsOrder
  <2>3. ~(cmp[s][r] < 0) BY <2>1, <2>2
  <2> QED BY <2>1, <2>3 DEF r, s
<1>6. a # b
  <2>1. a = b => FALSE BY <1>5
  <2> QED BY <2>1
<1>7. Named(t, a, {a, b, f}) /\ Named(t, b, {a, b, f})
  <2>1. H[f] >= H[a] /\ H[a] >= H[a] /\ H[b] >= H[a] /\ H[f] >= H[b] /\ H[b] >= H[b] /\ H[a] >= H[b]
    BY <1>0, <1>1, <1>2
  <2>2. /\ \A s \in {a, b, f} : s \in DOMAIN t.node /\ H[s] >= H[a]
        /\ \A s \in {a, b, f} : s \in DOMAIN t.node /\ H[s] >= H[b]
    BY <2>1, <1>0, <1>4
  <2> QED BY <2>2, <1>1, <1>2
<1>8. Alike(t.node[a], t.node[b])
  <2>1. CASE H[a] = 1 BY <2>1, <1>1, <1>2 DEF InOrderNode, Alike
  <2>2. CASE H[a] # 1 BY <2>2, <1>1, <1>2 DEF InOrderNode, Alike
  <2> QED BY <2>1, <2>2
<1>9. Neighbours(t, f, p, a, b)
  <2>1. Child(t, f, p) = a /\ Child(t, f, p + 1) = b BY DEF Pair
  <2> QED BY <2>1, <1>0, <1>1, <1>2, <1>4, <1>6, <1>7, <1>8 DEF Neighbours
<1>10. DOMAIN H = DOMAIN t.node /\ DOMAIN H \subseteq Nat BY <1>0, TreeType
<1> QED BY <1>0, <1>1, <1>2, <1>3, <1>5, <1>6, <1>9, <1>10

LEMMA Narrow ==
  ASSUME NEW Q, NEW R, NEW u \in Trees(Q),
         \A a \in DOMAIN u.node : u.node[a] \in Content(R)
  PROVE  u \in Trees(R)
<1>1. u.node \in Seq(Content(R))
  <2>1. u.node \in Seq(Content(Q)) /\ DOMAIN u.node = 1 .. Len(u.node) /\ Len(u.node) \in Nat BY TreeType
  <2>2. u.node \in [1 .. Len(u.node) -> Content(R)] BY <2>1
  <2> QED BY <2>1, <2>2
<1>2. /\ u = [node |-> u.node, root |-> u.root, free |-> u.free]
      /\ u.root \in Nat /\ u.free \in Seq(Nat)
  BY DEF Trees
<1> QED BY <1>1, <1>2 DEF Trees

LEMMA NarrowRow ==
  ASSUME NEW Q, NEW R, NEW x \in Content(Q), \A i \in 1 .. Len(x.row) : x.row[i] \in R
  PROVE  x \in Content(R)
<1>1. x.row \in Seq(Q) /\ Len(x.row) \in Nat /\ DOMAIN x.row = 1 .. Len(x.row) BY ContentType
<1>2. x.row \in [1 .. Len(x.row) -> R] BY <1>1
<1>3. x.row \in Seq(R) BY <1>1, <1>2
<1>4. x = [row |-> x.row, child |-> x.child] /\ x.child \in Seq(Nat) BY DEF Content
<1> QED BY <1>3, <1>4 DEF Content

LEMMA Windows ==
  ASSUME NEW p \in Nat
  PROVE  /\ \A i : i \in p .. p + 2 - 1 <=> i = p \/ i = p + 1
         /\ \A i : i \in p .. p + 1 - 1 <=> i = p
<1>1. \A i : i \in p .. p + 2 - 1 <=> i \in Int /\ p <= i /\ i <= p + 1 OBVIOUS
<1>2. \A i \in Int : p <= i /\ i <= p + 1 => i = p \/ i = p + 1 OBVIOUS
<1>3. p \in Int /\ p + 1 \in Int /\ p <= p /\ p <= p + 1 /\ p + 1 <= p + 1 OBVIOUS
<1>4. \A i : i \in p .. p + 1 - 1 <=> i \in Int /\ p <= i /\ i <= p OBVIOUS
<1>5. \A i \in Int : p <= i /\ i <= p => i = p OBVIOUS
<1> QED BY <1>1, <1>2, <1>3, <1>4, <1>5

LEMMA LeastOne ==
  ASSUME NEW cmp, IsOrder(cmp), NEW A \in SUBSET DOMAIN cmp, NEW r, NEW s,
         Least(r, A, cmp), Least(s, A, cmp)
  PROVE  r = s
<1>1. r \in A /\ s \in A /\ (s = r \/ cmp[r][s] < 0) /\ (r = s \/ cmp[s][r] < 0) BY DEF Least
<1>2. cmp[r][s] \in Int /\ cmp[s][r] \in Int /\ (cmp[r][s] < 0 <=> cmp[s][r] > 0) BY <1>1 DEF IsOrder
<1> QED BY <1>1, <1>2

(* After moveitem, both nodes have something.                               *)
LEMMA PairMoved ==
  ASSUME NEW t, NEW H, NEW K, NEW X, NEW f, NEW num, NEW p, NEW a, NEW b, NEW cmp,
         Pair(t, H, K, X, f, num, p, a, b, cmp),
         NEW u, NEW z, NEW w, Repaired(t, u, DOMAIN cmp \union {NoRid}, f, p, a, b, z, w),
         Shared(t.node[a], t.node[b], z, w, H[f] - 1, K[a], K[b], H, K, cmp),
         Len(z.row) > 0, Len(w.row) > 0, z.row[1] = t.node[a].row[1]
  PROVE  \E J : Good(u, H, J, X, cmp) /\ J[t.root] = K[t.root]
<1> DEFINE R == DOMAIN cmp
           Q == R \union {NoRid}
           h == H[f] - 1
           S == Keys(z, h, K)
           T == Keys(w, h, K)
           J == [c \in DOMAIN t.node |-> IF c = a THEN S ELSE IF c = b THEN T ELSE K[c]]
           M == {a, b}
           r == t.node[f]
           v == u.node[f]
<1>1. /\ InOrderNode(t, H, K, a, cmp) /\ InOrderNode(t, H, K, b, cmp)
      /\ f \in DOMAIN t.node /\ H[f] \in Nat /\ H[f] > 1
      /\ H[a] = h /\ H[b] = h
      /\ a # b /\ a # f /\ b # f
      /\ DOMAIN H = DOMAIN t.node
      /\ Good(t, H, K, X, cmp) /\ IsOrder(cmp)
  BY PairFacts
<1>2. /\ p \in 1 .. Len(r.row) /\ p + 1 \in 1 .. Len(r.row) /\ num \in {p, p + 1}
      /\ r.child[p] = a /\ r.child[p + 1] = b
      /\ StaleAbove(X, t, H, f, num)
  BY DEF Pair, Child, Repairable
<1>3. a \in DOMAIN t.node /\ b \in DOMAIN t.node /\ a # t.root /\ b # t.root BY <1>1 DEF InOrderNode
<1>4. /\ Changed(t, u, Q, {a, b, f})
      /\ u.node[a] = z /\ u.node[b] = w
      /\ RowSet(r, v, {p, p + 1})
      /\ v.row[p] = r.row[p] \/ v.row[p] = FirstRow(u, a)
      /\ v.row[p + 1] = FirstRow(u, b)
  BY DEF Repaired, Moved, Holding, FirstKept
<1>5. /\ z \in Content(R) /\ w \in Content(R)
      /\ NodeOK(z, h, S, H, K, cmp) /\ AllFresh(z, h, K, cmp)
      /\ NodeOK(w, h, T, H, K, cmp) /\ AllFresh(w, h, K, cmp)
      /\ S \union T = K[a] \union K[b]
      /\ Before(S, T, cmp)
      /\ h # 1 => \A d : IsIn(t.node[a], d) \/ IsIn(t.node[b], d) => IsIn(z, d) \/ IsIn(w, d)
  BY DEF Shared
<1>6. /\ t \in Trees(R) /\ H \in [DOMAIN t.node -> Nat] /\ K \in [DOMAIN t.node -> SUBSET R]
      /\ Freelist(t, H) /\ Used(t, H, K, X, cmp)
  BY <1>1 DEF Good, Typed
<1>7. /\ r \in Content(R) /\ NodeOK(r, H[f], K[f], H, K, cmp) /\ Len(r.row) \in Nat
      /\ Len(r.child) = Len(r.row)
      /\ \A i \in 1 .. Len(r.row) : r.row[i] \in R
  <2>0. H[f] > 0 BY <1>1
  <2>1. r \in Content(R) /\ NodeOK(r, H[f], K[f], H, K, cmp) /\ Len(r.row) \in Nat BY <2>0, <1>1, UsedNode
  <2>2. Len(r.child) = Len(r.row) BY <2>1, <1>1 DEF NodeOK, Layer
  <2> QED BY <2>1, <2>2, ContentType
<1>8. Least(z.row[1], S, cmp) /\ Least(w.row[1], T, cmp) /\ z.row # <<>> /\ w.row # <<>>
  <2>1. Len(z.row) \in Nat \ {0} /\ Len(w.row) \in Nat \ {0} BY <1>5, ContentType
  <2>2. 1 \in 1 .. Len(z.row) /\ 1 \in 1 .. Len(w.row) BY <2>1
  <2>3. Fresh(z, h, K, cmp, 1) /\ Fresh(w, h, K, cmp, 1) BY <1>5, <2>2 DEF AllFresh
  <2>4. Least(z.row[1], S, cmp) BY <1>5, <2>1, <2>3, FirstLeast
  <2>5. Least(w.row[1], T, cmp) BY <1>5, <2>1, <2>3, FirstLeast
  <2> QED BY <2>1, <2>4, <2>5
<1>9. FirstRow(u, a) = z.row[1] /\ FirstRow(u, b) = w.row[1] BY <1>4, <1>8 DEF FirstRow
<1>10. K[a] \subseteq R /\ K[b] \subseteq R /\ Least(z.row[1], K[a], cmp)
  BY <1>1 DEF InOrderNode
<1> HIDE DEF S, T, h
<1>11. <<f, p>> \in X \/ Least(v.row[p], S, cmp)
  <2>1. CASE v.row[p] = FirstRow(u, a) BY <2>1, <1>8, <1>9
  <2>2. CASE v.row[p] = r.row[p] /\ <<f, p>> \notin X
    <3>1. Fresh(r, H[f], K, cmp, p) BY <2>2, <1>1, <1>2, <1>6 DEF Used
    <3>2. Items(r, H[f], K, p) = K[a] BY <1>1, <1>2 DEF Items
    <3>3. Least(r.row[p], K[a], cmp) BY <3>1, <3>2 DEF Fresh
    <3>4. r.row[p] = z.row[1] BY <3>3, <1>10, <1>1, LeastOne
    <3> QED BY <3>4, <2>2, <1>8
  <2> QED BY <2>1, <2>2, <1>4
<1>12. Least(v.row[p + 1], T, cmp) BY <1>4, <1>8, <1>9
<1> HIDE DEF J
<1>13. /\ J \in [DOMAIN t.node -> SUBSET R] /\ J[a] = S /\ J[b] = T
       /\ \A c \in DOMAIN t.node \ M : J[c] = K[c]
  <2>1. S \subseteq R /\ T \subseteq R BY <1>5, <1>10
  <2> QED BY <2>1, <1>1, <1>3, <1>6 DEF J
<1>14. Typed(u, H, J, R)
  <2>1. \A c \in DOMAIN u.node : u.node[c] \in Content(R)
    <3>1. ASSUME NEW c \in DOMAIN t.node \ {a, b, f} PROVE u.node[c] \in Content(R)
      BY <1>4, <1>6, TreeType DEF Changed
    <3>2. v \in Content(Q) /\ \A i \in 1 .. Len(v.row) : v.row[i] \in R
      <4>1. v \in Content(Q) BY <1>1, <1>4, TreeType DEF Changed
      <4>2. \A i \in 1 .. Len(r.row) : i \notin {p, p + 1} => v.row[i] = r.row[i] BY <1>4 DEF RowSet
      <4>3. Len(v.row) = Len(r.row) BY <1>4 DEF RowSet
      <4>4. v.row[p + 1] \in R BY <1>12, <1>5, <1>10 DEF Least
      <4>5. v.row[p] \in R
        <5>1. z.row[1] \in R BY <1>8, <1>5, <1>10 DEF Least
        <5> QED BY <5>1, <1>4, <1>9, <1>7, <1>2
      <4> QED BY <4>1, <4>2, <4>3, <4>4, <4>5, <1>7
    <3>3. v \in Content(R) BY <3>2, NarrowRow
    <3> QED BY <3>1, <3>3, <1>4, <1>5 DEF Changed
  <2>2. u \in Trees(R) BY <2>1, <1>4, Narrow DEF Changed
  <2> QED BY <2>2, <1>4, <1>6, <1>13 DEF Changed, Typed
<1>15. Freelist(u, H)
  <2>1. \A c \in DOMAIN t.node : H[c] = 0 => u.node[c] = t.node[c]
    <3>1. H[a] # 0 /\ H[b] # 0 /\ H[f] # 0 BY <1>1 DEF InOrderNode
    <3> QED BY <3>1, <1>4 DEF Changed
  <2> QED BY <2>1, <1>4, <1>6 DEF Changed, Freelist
<1>16. Outside(t, u, H, H, K, J, M \union {f})
  BY <1>4, <1>13 DEF Changed, Outside
<1>17. Spliced(r, v, p, 2, 2)
  <2>1. /\ v.child = r.child /\ Len(v.row) = Len(r.row)
        /\ \A i \in 1 .. Len(r.row) : i \notin {p, p + 1} => v.row[i] = r.row[i]
    BY <1>4 DEF RowSet
  <2>2. Len(r.row) = Len(r.row) - 2 + 2 /\ \A i \in 1 .. Len(r.row) : i - 2 + 2 = i BY <1>7
  <2>3. ASSUME NEW i \in 1 .. Len(r.row), i < p \/ i >= p + 2
        PROVE  v.row[i] = r.row[i] /\ v.child[i] = r.child[i] /\ i - 2 + 2 = i
    <3>1. i \notin {p, p + 1} /\ i - 2 + 2 = i BY <2>3, <1>2, <1>7
    <3> QED BY <3>1, <2>1
  <2>4. Len(v.row) = Len(r.row) - 2 + 2 /\ Len(v.child) = Len(v.row) BY <2>1, <2>2, <1>7
  <2> QED BY <2>3, <2>4 DEF Spliced
<1>18. v.child[p] = a /\ v.child[p + 1] = b BY <1>2, <1>4 DEF RowSet
<1>19. p \in Nat \ {0} /\ p + 2 - 1 <= Len(r.row) /\ 2 \in {1, 2} BY <1>2, <1>7
<1>20. /\ \A i : i \in p .. p + 2 - 1 <=> i = p \/ i = p + 1
       /\ p < p + 1 /\ ~(p + 1 < p) /\ ~(p < p) /\ ~(p + 1 < p + 1)
  BY <1>19, Windows
<1>21. /\ UNION {J[v.child[i]] : i \in p .. p + 2 - 1} = S \union T
       /\ UNION {K[r.child[i]] : i \in p .. p + 2 - 1} = K[a] \union K[b]
  <2>1. /\ \A e : e \in UNION {J[v.child[i]] : i \in p .. p + 2 - 1} <=> e \in S \/ e \in T
        /\ \A e : e \in UNION {K[r.child[i]] : i \in p .. p + 2 - 1} <=> e \in K[a] \/ e \in K[b]
    BY <1>2, <1>13, <1>18, <1>20
  <2> QED BY <2>1
<1>22. S # {} /\ T # {} BY <1>8 DEF Least
<1>23. /\ M \subseteq DOMAIN u.node /\ f \notin M /\ J[f] = K[f] /\ J[t.root] = K[t.root]
       /\ t.root \in DOMAIN t.node
  BY <1>1, <1>3, <1>4, <1>13 DEF Changed, Good, Rooted
<1>24. ASSUME NEW c \in M PROVE
          /\ \E i \in p .. p + 2 - 1 : r.child[i] = c
          /\ H[c] # 0 /\ H[c] = H[f] - 1 /\ J[c] # {}
          /\ \E i \in p .. p + 2 - 1 : v.child[i] = c
          /\ NodeOK(u.node[c], H[f] - 1, J[c], H, K, cmp)
          /\ AllFresh(u.node[c], H[f] - 1, K, cmp)
  <2>1. H[a] # 0 /\ H[b] # 0 /\ h = H[f] - 1 /\ H[a] = H[f] - 1 /\ H[b] = H[f] - 1
    BY <1>1 DEF InOrderNode, h
  <2>2. CASE c = a BY <2>1, <2>2, <1>2, <1>4, <1>5, <1>13, <1>18, <1>20, <1>22
  <2>3. CASE c = b BY <2>1, <2>3, <1>2, <1>4, <1>5, <1>13, <1>18, <1>20, <1>22
  <2> QED BY <2>2, <2>3
<1>25. \A i, k \in p .. p + 2 - 1 : i < k => Before(J[v.child[i]], J[v.child[k]], cmp)
  BY <1>5, <1>13, <1>18, <1>20
<1>26. \A i \in p .. p + 2 - 1 : <<f, i>> \in X \/ Least(v.row[i], J[v.child[i]], cmp)
  BY <1>11, <1>12, <1>13, <1>18, <1>20
<1>27. \A i \in Nat : <<f, i>> \in X => i \in p .. p + 2 - 1
  <2>1. ~(H[f] > H[f]) BY <1>1
  <2> QED BY <2>1, <1>1, <1>2, <1>20 DEF StaleAbove
<1>28. ASSUME H[f] > 2, NEW i \in p .. p + 2 - 1, NEW d, IsIn(t.node[r.child[i]], d)
       PROVE  \E k \in p .. p + 2 - 1 : IsIn(u.node[v.child[k]], d)
  <2>1. h # 1 BY <1>1, <1>28 DEF h
  <2>2. IsIn(t.node[a], d) \/ IsIn(t.node[b], d) BY <1>28, <1>2, <1>20
  <2>3. IsIn(z, d) \/ IsIn(w, d) BY <2>1, <2>2, <1>5
  <2> QED BY <2>3, <1>4, <1>18, <1>20
<1>29. /\ \A i \in p .. p + 2 - 1 : r.child[i] \in M
       /\ \A i \in p .. p + 2 - 1 : v.child[i] \in M /\ H[v.child[i]] > 0
  <2>1. H[a] > 0 /\ H[b] > 0 BY <1>1 DEF InOrderNode
  <2> QED BY <2>1, <1>2, <1>18, <1>20
<1>30. u.root = t.root BY <1>4, Zenon DEF Changed
<1>31. Windowed(t, u, H, H, K, J, f, p, 2, 2, M, X, cmp)
  <2> HIDE DEF M
  <2> QED BY <1>5, <1>14, <1>15, <1>16, <1>17, <1>21, <1>23, <1>24, <1>25, <1>26, <1>27, <1>28, <1>29, <1>30, Zenon
          DEF Windowed
<1>32. Good(u, H, J, X, cmp) BY <1>31, <1>1, <1>19, WindowGood
<1> QED BY <1>32, <1>23

(* b_tree_merge's last steps: a node goes to the free list.                  *)
FreedAt(t, u, Q, e) ==
    /\ u \in Trees(Q)
    /\ DOMAIN u.node = DOMAIN t.node
    /\ u.root = t.root /\ u.free = <<e>> \o t.free
    /\ u.node[e] = Empty
    /\ \A c \in DOMAIN t.node \ {e} : u.node[c] = t.node[c]

LEMMA FreedIs ==
  ASSUME NEW Q, NEW t \in Trees(Q), NEW e \in DOMAIN t.node, NEW u, u = Freed(t, e)
  PROVE  FreedAt(t, u, Q, e)
<1>1. /\ t.node \in Seq(Content(Q)) /\ DOMAIN t.node = 1 .. Len(t.node) /\ Len(t.node) \in Nat
      /\ t.root \in Nat /\ t.free \in Seq(Nat) /\ e \in Nat
  BY TreeType
<1>2. t = [node |-> t.node, root |-> t.root, free |-> t.free] BY DEF Trees
<1>3. u = [node |-> [t.node EXCEPT ![e] = Empty], root |-> t.root, free |-> <<e>> \o t.free]
  BY <1>2 DEF Freed
<1>4. Empty \in Content(Q) BY DEF Empty, Content
<1>5. [t.node EXCEPT ![e] = Empty] \in Seq(Content(Q)) BY <1>1, <1>4
<1>6. <<e>> \o t.free \in Seq(Nat) BY <1>1
<1>7. u \in Trees(Q) BY <1>1, <1>3, <1>5, <1>6 DEF Trees
<1>8. u.node = [t.node EXCEPT ![e] = Empty] /\ u.root = t.root /\ u.free = <<e>> \o t.free BY <1>3
<1> QED BY <1>7, <1>8 DEF FreedAt

Fronted(w, e, s) ==
    /\ Len(w) = Len(s) + 1 /\ Len(s) \in Nat /\ w[1] = e
    /\ \A i \in 1 .. Len(s) : w[i + 1] = s[i]
    /\ \A i \in 1 .. Len(s) + 1 : i = 1 \/ w[i] = s[i - 1]

LEMMA FreeFront ==
  ASSUME NEW s \in Seq(Nat), NEW e \in Nat
  PROVE  Fronted(<<e>> \o s, e, s)
<1> DEFINE w == <<e>> \o s
           n == Len(s)
<1>1. /\ Len(<<e>>) = 1 /\ <<e>>[1] = e /\ <<e>> \in Seq(Nat) /\ n \in Nat /\ Len(w) = n + 1 OBVIOUS
<1>2. \A i \in 1 .. n + 1 : w[i] = IF i <= 1 THEN <<e>>[i] ELSE s[i - 1] OBVIOUS
<1> HIDE DEF w, n
<1>3. \A i \in 1 .. n : i + 1 \in 1 .. n + 1 /\ ~(i + 1 <= 1) /\ i + 1 - 1 = i BY <1>1
<1>4. 1 \in 1 .. n + 1 /\ 1 <= 1 /\ \A i \in 1 .. n + 1 : i = 1 \/ ~(i <= 1) BY <1>1
<1> QED BY <1>1, <1>2, <1>3, <1>4 DEF w, n, Fronted

(* The list is still a list of the nodes of height 0.                       *)
LEMMA FreelistGrows ==
  ASSUME NEW t, NEW H, Freelist(t, H), NEW e \in DOMAIN t.node, e \in Nat, H[e] # 0, t.free \in Seq(Nat),
         NEW u, DOMAIN u.node = DOMAIN t.node, u.free = <<e>> \o t.free, u.node[e] = Empty,
         \A c \in DOMAIN t.node : H[c] = 0 => u.node[c] = t.node[c],
         NEW G, G[e] = 0, \A c \in DOMAIN t.node \ {e} : G[c] = H[c]
  PROVE  Freelist(u, G)
<1> DEFINE n == Len(t.free)
<1>1. /\ Len(u.free) = n + 1 /\ n \in Nat /\ u.free[1] = e
      /\ \A i \in 1 .. n : u.free[i + 1] = t.free[i]
      /\ \A i \in 1 .. n + 1 : i = 1 \/ u.free[i] = t.free[i - 1]
  <2>1. Fronted(u.free, e, t.free) BY FreeFront
  <2> QED BY <2>1 DEF Fronted
<1>2. \A i \in 1 .. n : t.free[i] \in DOMAIN t.node \ {e} /\ H[t.free[i]] = 0
  <2>1. \A i \in 1 .. n : t.free[i] \in DOMAIN t.node /\ H[t.free[i]] = 0 BY DEF Freelist
  <2> QED BY <2>1
<1> HIDE DEF n
<1>3. \A i \in 1 .. n + 1 : i = 1 \/ i - 1 \in 1 .. n BY <1>1
<1>4. ASSUME NEW i \in 1 .. n + 1 PROVE u.free[i] \in DOMAIN u.node /\ G[u.free[i]] = 0
  <2>1. CASE i = 1 BY <2>1, <1>1
  <2>2. CASE i # 1
    <3>1. i - 1 \in 1 .. n /\ u.free[i] = t.free[i - 1] BY <2>2, <1>1, <1>3
    <3> QED BY <3>1, <1>2
  <2> QED BY <2>1, <2>2
<1>5. ASSUME NEW i \in 1 .. n + 1, NEW k \in 1 .. n + 1, u.free[i] = u.free[k] PROVE i = k
  <2>1. ASSUME NEW j \in 1 .. n + 1, j # 1 PROVE u.free[j] # e
    <3>1. j - 1 \in 1 .. n /\ u.free[j] = t.free[j - 1] BY <2>1, <1>1, <1>3
    <3> QED BY <3>1, <1>2
  <2>3. CASE i = 1 \/ k = 1 BY <2>1, <2>3, <1>1, <1>5
  <2>2. CASE i # 1 /\ k # 1
    <3>1. i - 1 \in 1 .. n /\ k - 1 \in 1 .. n /\ t.free[i - 1] = t.free[k - 1] BY <2>2, <1>1, <1>3, <1>5
    <3>2. i - 1 = k - 1 BY <3>1 DEF Freelist, n
    <3> QED BY <3>2, <1>1
  <2> QED BY <2>2, <2>3
<1>6. ASSUME NEW c \in DOMAIN u.node, G[c] = 0
      PROVE  u.node[c] = Empty /\ \E i \in 1 .. n + 1 : u.free[i] = c
  <2>1. CASE c = e
    <3>1. 1 \in 1 .. n + 1 BY <1>1
    <3> QED BY <2>1, <3>1, <1>1
  <2>2. CASE c # e
    <3>1. H[c] = 0 BY <2>2, <1>6
    <3>2. PICK i \in 1 .. n : t.free[i] = c BY <3>1, <1>6 DEF Freelist, n
    <3>3. i + 1 \in 1 .. n + 1 /\ u.free[i + 1] = c BY <3>2, <1>1
    <3>4. u.node[c] = Empty BY <3>1, <1>6 DEF Freelist
    <3> QED BY <3>3, <3>4
  <2> QED BY <2>1, <2>2
<1>7. 1 .. Len(u.free) = 1 .. n + 1 BY <1>1
<1>8. \A i \in 1 .. Len(u.free) : u.free[i] \in DOMAIN u.node /\ G[u.free[i]] = 0 BY <1>4, <1>7
<1>9. \A i, k \in 1 .. Len(u.free) : u.free[i] = u.free[k] => i = k BY <1>5, <1>7
<1>10. \A c \in DOMAIN u.node : G[c] = 0 => u.node[c] = Empty /\ \E i \in 1 .. Len(u.free) : u.free[i] = c
  BY <1>6, <1>7
<1> QED BY <1>8, <1>9, <1>10 DEF Freelist

(* From t to u the nodes a and b, the p-th child of f and the next, become  *)
(* one: c has what both had and the other, e, is free.                      *)
Absorbed(t, u, Q, f, p, a, b, c, e) ==
    /\ u \in Trees(Q) /\ DOMAIN u.node = DOMAIN t.node
    /\ u.root = t.root /\ u.free = <<e>> \o t.free
    /\ (c = a /\ e = b) \/ (c = b /\ e = a)
    /\ u.node[e] = Empty /\ u.node[c] = Cat(t.node[a], t.node[b])
    /\ \A d \in DOMAIN t.node \ {a, b, f} : u.node[d] = t.node[d]
    /\ Spliced(t.node[f], u.node[f], p, 2, 1)
    /\ u.node[f].child[p] = c
    /\ u.node[f].row[p] = t.node[f].row[p] \/ u.node[f].row[p] = FirstRow(u, c)

NodeGone(t, u, H, K, X, e, cmp) ==
    \E G, J : /\ Good(u, G, J, X, cmp) /\ J[t.root] = K[t.root]
              /\ G[e] = 0 /\ \A d \in DOMAIN t.node \ {e} : G[d] = H[d]

LEMMA PairMerged ==
  ASSUME NEW t, NEW H, NEW K, NEW X, NEW f, NEW num, NEW p, NEW a, NEW b, NEW cmp,
         Pair(t, H, K, X, f, num, p, a, b, cmp),
         NEW u, NEW c, NEW e, Absorbed(t, u, DOMAIN cmp \union {NoRid}, f, p, a, b, c, e)
  PROVE  NodeGone(t, u, H, K, X, e, cmp)
<1> DEFINE R == DOMAIN cmp
           Q == R \union {NoRid}
           h == H[f] - 1
           x == Cat(t.node[a], t.node[b])
           S == K[a] \union K[b]
           G == [d \in DOMAIN t.node |-> IF d = e THEN 0 ELSE H[d]]
           J == [d \in DOMAIN t.node |-> IF d = e THEN {} ELSE IF d = c THEN S ELSE K[d]]
           M == {a, b}
           r == t.node[f]
           v == u.node[f]
<1>1. /\ InOrderNode(t, H, K, a, cmp) /\ InOrderNode(t, H, K, b, cmp)
      /\ f \in DOMAIN t.node /\ H[f] \in Nat /\ H[f] > 1
      /\ H[a] = h /\ H[b] = h
      /\ a # b /\ a # f /\ b # f
      /\ Before(K[a], K[b], cmp)
      /\ DOMAIN H = DOMAIN t.node /\ DOMAIN H \subseteq Nat
      /\ Good(t, H, K, X, cmp) /\ IsOrder(cmp)
  BY PairFacts
<1>2. /\ p \in 1 .. Len(r.row) /\ p + 1 \in 1 .. Len(r.row) /\ num \in {p, p + 1}
      /\ r.child[p] = a /\ r.child[p + 1] = b
      /\ StaleAbove(X, t, H, f, num)
  BY DEF Pair, Child, Repairable
<1>3. a \in DOMAIN t.node /\ b \in DOMAIN t.node /\ a # t.root /\ b # t.root BY <1>1 DEF InOrderNode
<1>4. /\ u \in Trees(Q) /\ DOMAIN u.node = DOMAIN t.node
      /\ u.root = t.root /\ u.free = <<e>> \o t.free
      /\ (c = a /\ e = b) \/ (c = b /\ e = a)
      /\ u.node[e] = Empty /\ u.node[c] = x
      /\ \A d \in DOMAIN t.node \ {a, b, f} : u.node[d] = t.node[d]
      /\ Spliced(r, v, p, 2, 1)
      /\ v.child[p] = c
      /\ v.row[p] = r.row[p] \/ v.row[p] = FirstRow(u, c)
  BY DEF Absorbed
<1>5. /\ t.node[a] \in Content(R) /\ t.node[b] \in Content(R)
      /\ Len(t.node[a].row) \in Nat \ {0} /\ Len(t.node[b].row) \in Nat \ {0}
      /\ NodeOK(t.node[a], h, K[a], H, K, cmp) /\ AllFresh(t.node[a], h, K, cmp)
      /\ NodeOK(t.node[b], h, K[b], H, K, cmp) /\ AllFresh(t.node[b], h, K, cmp)
      /\ K[a] \subseteq R /\ K[b] \subseteq R /\ K[a] # {}
      /\ Least(t.node[a].row[1], K[a], cmp) /\ h \in Nat \ {0}
  BY <1>1 DEF InOrderNode
<1> HIDE DEF h
<1>6. /\ x \in Content(R) /\ Glued(x, t.node[a], t.node[b], h, K)
      /\ NodeOK(x, h, S, H, K, cmp) /\ AllFresh(x, h, K, cmp)
  BY <1>1, <1>5, CatNode
<1>7. /\ t \in Trees(R) /\ H \in [DOMAIN t.node -> Nat] /\ K \in [DOMAIN t.node -> SUBSET R]
      /\ Freelist(t, H) /\ Used(t, H, K, X, cmp) /\ t.free \in Seq(Nat)
  BY <1>1, TreeType DEF Good, Typed
<1>8. /\ r \in Content(R) /\ NodeOK(r, H[f], K[f], H, K, cmp) /\ Len(r.row) \in Nat
      /\ Len(r.child) = Len(r.row)
      /\ \A i \in 1 .. Len(r.row) : r.row[i] \in R
  <2>0. H[f] > 0 BY <1>1
  <2>1. r \in Content(R) /\ NodeOK(r, H[f], K[f], H, K, cmp) /\ Len(r.row) \in Nat BY <2>0, <1>1, UsedNode
  <2>2. Len(r.child) = Len(r.row) BY <2>1, <1>1 DEF NodeOK, Layer
  <2> QED BY <2>1, <2>2, ContentType
<1>9. /\ Least(x.row[1], S, cmp) /\ x.row[1] = t.node[a].row[1] /\ x.row # <<>>
      /\ Len(x.row) = Len(t.node[a].row) + Len(t.node[b].row)
  <2>1. /\ Len(x.row) = Len(t.node[a].row) + Len(t.node[b].row)
        /\ \A i \in 1 .. Len(t.node[a].row) : x.row[i] = t.node[a].row[i]
    BY <1>6 DEF Glued
  <2> HIDE DEF x
  <2>2. /\ 1 \in 1 .. Len(t.node[a].row) /\ Len(x.row) \in Nat \ {0} /\ 1 \in 1 .. Len(x.row) /\ x.row # <<>>
    <3> DEFINE k == Len(t.node[a].row)
               l == Len(t.node[b].row)
    <3>1. k \in Nat \ {0} /\ l \in Nat \ {0} /\ Len(x.row) = k + l BY <2>1, <1>5
    <3> HIDE DEF k, l
    <3>2. 1 \in 1 .. k /\ Len(x.row) \in Nat \ {0} /\ 1 \in 1 .. Len(x.row) BY <3>1
    <3>3. x.row # <<>> BY <3>2
    <3> QED BY <3>2, <3>3 DEF k
  <2>3. Fresh(x, h, K, cmp, 1) BY <1>6, <2>2 DEF AllFresh
  <2>4. Least(x.row[1], S, cmp) BY <1>6, <2>2, <2>3, FirstLeast
  <2> QED BY <2>1, <2>2, <2>4
<1>10. FirstRow(u, c) = x.row[1] BY <1>4, <1>9 DEF FirstRow
<1> HIDE DEF x, S
<1>11. <<f, p>> \in X \/ Least(v.row[p], S, cmp)
  <2>1. CASE v.row[p] = FirstRow(u, c) BY <2>1, <1>9, <1>10
  <2>2. CASE v.row[p] = r.row[p] /\ <<f, p>> \notin X
    <3>1. Fresh(r, H[f], K, cmp, p) BY <2>2, <1>1, <1>2, <1>7 DEF Used
    <3>2. Items(r, H[f], K, p) = K[a] BY <1>1, <1>2 DEF Items
    <3>3. Least(r.row[p], K[a], cmp) BY <3>1, <3>2 DEF Fresh
    <3>4. r.row[p] = x.row[1] BY <3>3, <1>5, <1>9, <1>1, LeastOne
    <3> QED BY <3>4, <2>2, <1>9
  <2> QED BY <2>1, <2>2, <1>4
<1>12. S \subseteq R /\ S # {} BY <1>5 DEF S
<1>13. /\ G \in [DOMAIN t.node -> Nat] /\ G[e] = 0 /\ \A d \in DOMAIN t.node \ {e} : G[d] = H[d]
       /\ J \in [DOMAIN t.node -> SUBSET R] /\ J[e] = {} /\ J[c] = S
       /\ \A d \in DOMAIN t.node \ M : J[d] = K[d]
  BY <1>1, <1>3, <1>4, <1>7, <1>12
<1> HIDE DEF J, G
<1>14. Typed(u, G, J, R)
  <2>1. \A d \in DOMAIN u.node : u.node[d] \in Content(R)
    <3>1. ASSUME NEW d \in DOMAIN t.node \ {a, b, f} PROVE u.node[d] \in Content(R)
      BY <1>4, <1>7, TreeType
    <3>2. v \in Content(Q) /\ \A i \in 1 .. Len(v.row) : v.row[i] \in R
      <4>1. v \in Content(Q) BY <1>1, <1>4, TreeType
      <4>2. /\ \A i \in 1 .. Len(r.row) : i < p => v.row[i] = r.row[i]
            /\ \A i \in 1 .. Len(r.row) : i >= p + 2 => v.row[i - 2 + 1] = r.row[i]
            /\ Len(v.row) = Len(r.row) - 2 + 1
        BY <1>4 DEF Spliced
      <4>3. v.row[p] \in R
        <5>1. x.row[1] \in R BY <1>9, <1>12 DEF Least
        <5> QED BY <5>1, <1>4, <1>10, <1>8, <1>2
      <4>4. ASSUME NEW i \in 1 .. Len(v.row) PROVE v.row[i] \in R
        <5>1. CASE i < p
          <6>1. i \in 1 .. Len(r.row) BY <5>1, <1>2, <1>8
          <6> QED BY <6>1, <5>1, <4>2, <1>8
        <5>2. CASE i = p BY <5>2, <4>3
        <5>3. CASE ~(i < p) /\ i # p
          <6> DEFINE n == Len(r.row)
          <6>0. i \in 1 .. n - 2 + 1 /\ n \in Nat BY <4>2, <1>8
          <6> HIDE DEF n
          <6>3. i + 1 \in 1 .. n /\ i + 1 >= p + 2 /\ i + 1 - 2 + 1 = i BY <5>3, <6>0, <1>2
          <6>1. i + 1 \in 1 .. Len(r.row) /\ i + 1 >= p + 2 /\ i + 1 - 2 + 1 = i BY <6>3 DEF n
          <6>4. v.row[i + 1 - 2 + 1] = r.row[i + 1] BY <6>1, <4>2
          <6>2. v.row[i] = r.row[i + 1] BY <6>1, <6>4
          <6> QED BY <6>1, <6>2, <1>8
        <5> QED BY <5>1, <5>2, <5>3
      <4> QED BY <4>1, <4>4
    <3>3. v \in Content(R) BY <3>2, NarrowRow
    <3>4. Empty \in Content(R) BY DEF Empty, Content
    <3> QED BY <3>1, <3>3, <3>4, <1>4, <1>6
  <2>2. u \in Trees(R) BY <2>1, <1>4, Narrow
  <2> QED BY <2>2, <1>4, <1>13 DEF Typed
<1>15. Freelist(u, G)
  <2>1. H[a] # 0 /\ H[b] # 0 /\ H[f] # 0 /\ H[e] # 0 /\ e \in DOMAIN t.node /\ e \in Nat
    BY <1>1, <1>3, <1>4 DEF InOrderNode
  <2>2. \A d \in DOMAIN t.node : H[d] = 0 => u.node[d] = t.node[d] BY <2>1, <1>4
  <2>3. /\ Freelist(t, H) /\ t.free \in Seq(Nat) /\ DOMAIN u.node = DOMAIN t.node
        /\ u.free = <<e>> \o t.free /\ u.node[e] = Empty
        /\ G[e] = 0 /\ \A d \in DOMAIN t.node \ {e} : G[d] = H[d]
    BY <1>4, <1>7, <1>13
  <2> QED BY <2>1, <2>2, <2>3, FreelistGrows
<1>16. Outside(t, u, H, G, K, J, M \union {f})
  BY <1>4, <1>13 DEF Outside
<1>19. p \in Nat \ {0} /\ p + 2 - 1 <= Len(r.row) /\ 2 \in {1, 2} /\ 1 \in {1, 2} BY <1>2, <1>8
<1>20. /\ \A i : i \in p .. p + 2 - 1 <=> i = p \/ i = p + 1
       /\ \A i : i \in p .. p + 1 - 1 <=> i = p
       /\ ~(p < p)
  BY <1>19, Windows
<1>21. UNION {J[v.child[i]] : i \in p .. p + 1 - 1} = UNION {K[r.child[i]] : i \in p .. p + 2 - 1}
  <2>1. /\ \A y : y \in UNION {J[v.child[i]] : i \in p .. p + 1 - 1} <=> y \in S
        /\ \A y : y \in UNION {K[r.child[i]] : i \in p .. p + 2 - 1} <=> y \in K[a] \/ y \in K[b]
    BY <1>2, <1>4, <1>13, <1>20
  <2>2. \A y : y \in S <=> y \in K[a] \/ y \in K[b] BY DEF S
  <2> QED BY <2>1, <2>2
<1>23. /\ M \subseteq DOMAIN u.node /\ f \notin M /\ J[f] = K[f] /\ G[f] = H[f] /\ J[t.root] = K[t.root]
       /\ t.root \in DOMAIN t.node
  BY <1>1, <1>3, <1>4, <1>13 DEF Good, Rooted
<1>24. ASSUME NEW d \in M PROVE
          /\ \E i \in p .. p + 2 - 1 : r.child[i] = d
          /\ G[d] = 0 => J[d] = {}
          /\ G[d] > 0 => /\ G[d] = H[f] - 1 /\ J[d] # {}
                         /\ \E i \in p .. p + 1 - 1 : v.child[i] = d
                         /\ NodeOK(u.node[d], H[f] - 1, J[d], H, K, cmp)
                         /\ AllFresh(u.node[d], H[f] - 1, K, cmp)
  <2>0. h = H[f] - 1 /\ G[c] = H[f] - 1 /\ G[c] # 0
    <3>1. h # 0 /\ h = H[f] - 1 /\ G[c] = h BY <1>1, <1>3, <1>4, <1>5, <1>13 DEF h
    <3> QED BY <3>1
  <2>1. \E i \in p .. p + 2 - 1 : r.child[i] = d BY <1>2, <1>20
  <2>2. CASE d = e
    <3>1. ~(0 > 0) OBVIOUS
    <3> QED BY <3>1, <2>1, <2>2, <1>13
  <2>3. CASE d = c BY <2>0, <2>1, <2>3, <1>4, <1>6, <1>12, <1>13, <1>20
  <2> QED BY <2>2, <2>3, <1>4
<1>25. \A i, k \in p .. p + 1 - 1 : i < k => Before(J[v.child[i]], J[v.child[k]], cmp) BY <1>20
<1>26. \A i \in p .. p + 1 - 1 : <<f, i>> \in X \/ Least(v.row[i], J[v.child[i]], cmp)
  BY <1>4, <1>11, <1>13, <1>20
<1>27. \A i \in Nat : <<f, i>> \in X => i \in p .. p + 2 - 1
  <2>1. ~(H[f] > H[f]) BY <1>1
  <2> QED BY <2>1, <1>1, <1>2, <1>20 DEF StaleAbove
<1>28. ASSUME H[f] > 2, NEW i \in p .. p + 2 - 1, NEW d, IsIn(t.node[r.child[i]], d)
       PROVE  \E k \in p .. p + 1 - 1 : IsIn(u.node[v.child[k]], d)
  <2>1. h \in Nat \ {1} BY <1>1, <1>28 DEF h
  <2>2. IsIn(t.node[a], d) \/ IsIn(t.node[b], d) BY <1>28, <1>2, <1>20
  <2>3. Layer(t.node[a], h, H) /\ Layer(t.node[b], h, H) BY <1>5 DEF NodeOK
  <2>4. IsIn(Cat(t.node[a], t.node[b]), d) BY <2>1, <2>2, <2>3, <1>1, <1>5, CatHas
  <2> QED BY <2>4, <1>4, <1>20 DEF x
<1>29. /\ \A i \in p .. p + 2 - 1 : r.child[i] \in M
       /\ \A i \in p .. p + 1 - 1 : v.child[i] \in M /\ G[v.child[i]] > 0
  <2>1. H[a] > 0 /\ H[b] > 0 BY <1>1 DEF InOrderNode
  <2>2. G[c] > 0 /\ c \in M BY <2>1, <1>1, <1>3, <1>4, <1>13, Zenon
  <2> QED BY <2>2, <1>2, <1>4, <1>20
<1>31. Windowed(t, u, H, G, K, J, f, p, 2, 1, M, X, cmp)
  <2> HIDE DEF M
  <2> QED BY <1>4, <1>14, <1>15, <1>16, <1>21, <1>23, <1>24, <1>25, <1>26, <1>27, <1>28, <1>29, Zenon
          DEF Windowed
<1>32. Good(u, G, J, X, cmp) BY <1>31, <1>1, <1>19, WindowGood
<1>33. J[t.root] = K[t.root] /\ G[e] = 0 /\ \A d \in DOMAIN t.node \ {e} : G[d] = H[d]
  BY <1>13, <1>23
<1> HIDE DEF G, J
<1> QED BY <1>32, <1>33 DEF NodeGone

LEMMA TreesWiden ==
  ASSUME NEW R, NEW Q, R \subseteq Q, NEW t \in Trees(R)
  PROVE  t \in Trees(Q)
<1>1. /\ t.node \in Seq(Content(R)) /\ DOMAIN t.node = 1 .. Len(t.node) /\ Len(t.node) \in Nat
      /\ t.root \in Nat /\ t.free \in Seq(Nat)
  BY TreeType
<1>2. \A a \in DOMAIN t.node : t.node[a] \in Content(Q)
  <2> SUFFICES ASSUME NEW x \in Content(R) PROVE x \in Content(Q) BY TreeType
  <2>1. x = [row |-> x.row, child |-> x.child] /\ x.row \in Seq(R) /\ x.child \in Seq(Nat) BY DEF Content
  <2>2. x.row \in Seq(Q) BY <2>1
  <2> QED BY <2>1, <2>2 DEF Content
<1>3. t.node \in [1 .. Len(t.node) -> Content(Q)] BY <1>1, <1>2
<1>4. t.node \in Seq(Content(Q)) BY <1>1, <1>3
<1>5. t = [node |-> t.node, root |-> t.root, free |-> t.free] BY DEF Trees
<1> QED BY <1>1, <1>4, <1>5 DEF Trees

(* w is s without its i-th, or with e as that.                              *)
Lacking(w, s, i) ==
    /\ Len(w) = Len(s) - 1
    /\ \A k \in 1 .. Len(s) : k < i => w[k] = s[k]
    /\ \A k \in 1 .. Len(s) : k > i => w[k - 1] = s[k]

With(w, s, i, e) ==
    /\ Len(w) = Len(s) + 1
    /\ w[i] = e
    /\ \A k \in 1 .. Len(s) : k < i => w[k] = s[k]
    /\ \A k \in 1 .. Len(s) : k >= i => w[k + 1] = s[k]

LEMMA RemoveAtIs ==
  ASSUME NEW R, NEW s \in Seq(R), NEW i \in 1 .. Len(s), NEW w, w = RemoveAt(s, i)
  PROVE  Lacking(w, s, i) /\ w \in Seq(R)
<1>1. /\ RemoveAt(s, i) \in Seq(R)
      /\ Len(RemoveAt(s, i)) = Len(s) - 1
      /\ \A k \in 1 .. Len(s) : k < i => RemoveAt(s, i)[k] = s[k]
      /\ \A k \in 1 .. Len(s) : k > i => RemoveAt(s, i)[k - 1] = s[k]
  BY Removed
<1> QED BY <1>1 DEF Lacking

LEMMA InsertAtIs ==
  ASSUME NEW R, NEW s \in Seq(R), NEW e \in R, NEW i \in 1 .. Len(s) + 1, NEW w, w = InsertAt(s, i, e)
  PROVE  With(w, s, i, e) /\ w \in Seq(R)
<1>1. /\ InsertAt(s, i, e) \in Seq(R)
      /\ Len(InsertAt(s, i, e)) = Len(s) + 1
      /\ InsertAt(s, i, e)[i] = e
      /\ \A k \in 1 .. Len(s) : k < i => InsertAt(s, i, e)[k] = s[k]
      /\ \A k \in 1 .. Len(s) : k >= i => InsertAt(s, i, e)[k + 1] = s[k]
  BY Inserted
<1> QED BY <1>1 DEF With

(* One of two neighbours has been emptied into the other, and goes.          *)
LEMMA OneGone ==
  ASSUME NEW Q, NoRid \in Q, NEW t \in Trees(Q), NEW f, NEW p, NEW a, NEW b, Neighbours(t, f, p, a, b),
         Len(t.node[f].child) = Len(t.node[f].row),
         NEW s, NEW z, NEW w, Repaired(t, s, Q, f, p, a, b, z, w),
         NEW c, NEW e, NEW q,
         \/ c = a /\ e = b /\ q = p + 1 /\ z = Cat(t.node[a], t.node[b])
         \/ c = b /\ e = a /\ q = p /\ w = Cat(t.node[a], t.node[b]),
         NEW u, u = Freed(RemoveChild(s, f, q), e)
  PROVE  Absorbed(t, u, Q, f, p, a, b, c, e)
<1> DEFINE r == t.node[f]
           y == s.node[f]
           n == Len(r.row)
           v == u.node[f]
           o == RemoveChild(s, f, q)
<1>1. /\ f \in DOMAIN t.node /\ a \in DOMAIN t.node /\ b \in DOMAIN t.node
      /\ a # b /\ a # f /\ b # f
      /\ p \in 1 .. n /\ p + 1 \in 1 .. n
      /\ r.child[p] = a /\ r.child[p + 1] = b
  BY DEF Neighbours, Child
<1>2. /\ s \in Trees(Q) /\ DOMAIN s.node = DOMAIN t.node /\ s.root = t.root /\ s.free = t.free
      /\ \A d \in DOMAIN t.node \ {a, b, f} : s.node[d] = t.node[d]
      /\ s.node[a] = z /\ s.node[b] = w
      /\ y.child = r.child /\ Len(y.row) = n
      /\ \A i \in 1 .. n : i \notin {p, p + 1} => y.row[i] = r.row[i]
      /\ y.row[p] = r.row[p] \/ y.row[p] = FirstRow(s, a)
      /\ y.row[p + 1] = FirstRow(s, b)
  BY DEF Repaired, Moved, Holding, Changed, RowSet, FirstKept
<1>3. /\ r \in Content(Q) /\ y \in Content(Q) /\ n \in Nat
      /\ y.row \in Seq(Q) /\ y.child \in Seq(Nat)
  <2>1. r \in Content(Q) /\ y \in Content(Q) BY <1>1, <1>2, TreeType
  <2> QED BY <2>1, ContentType
<1>4. q \in 1 .. n /\ c # e /\ c # f /\ e # f /\ e \in DOMAIN t.node /\ c \in DOMAIN t.node
  BY <1>1
<1>5. ChildOut(s, o, Q, f, q)
  <2>1. q \in 1 .. Len(s.node[f].row) /\ Len(s.node[f].child) = Len(s.node[f].row) /\ f \in DOMAIN s.node
    BY <1>1, <1>2, <1>4
  <2> QED BY <2>1, <1>2, RemoveChildIs
<1>6. /\ o \in Trees(Q) /\ DOMAIN o.node = DOMAIN t.node /\ o.root = t.root /\ o.free = t.free
      /\ \A d \in DOMAIN t.node \ {f} : o.node[d] = s.node[d]
      /\ o.node[f] = [row |-> RemoveAt(y.row, q), child |-> RemoveAt(y.child, q)]
  BY <1>2, <1>5 DEF ChildOut, Changed
<1> HIDE DEF o
<1>7. FreedAt(o, u, Q, e)
  <2>1. u = Freed(o, e) BY DEF o
  <2> QED BY <2>1, <1>4, <1>6, FreedIs
<1>8. /\ u \in Trees(Q) /\ DOMAIN u.node = DOMAIN t.node /\ u.root = t.root /\ u.free = <<e>> \o t.free
      /\ u.node[e] = Empty /\ u.node[c] = s.node[c]
      /\ \A d \in DOMAIN t.node \ {a, b, f} : u.node[d] = t.node[d]
  BY <1>2, <1>4, <1>6, <1>7 DEF FreedAt
<1>9. v.row = RemoveAt(y.row, q) /\ v.child = RemoveAt(y.child, q) BY <1>1, <1>4, <1>6, <1>7 DEF FreedAt
<1> DEFINE k == Len(y.child)
<1>10. k = n BY <1>2
<1>11. /\ Len(v.row) = n - 1
       /\ \A i \in 1 .. n : i < q => v.row[i] = y.row[i]
       /\ \A i \in 1 .. n : i > q => v.row[i - 1] = y.row[i]
  <2>1. q \in 1 .. Len(y.row) BY <1>2, <1>4
  <2>2. Lacking(v.row, y.row, q) BY <2>1, <1>3, <1>9, RemoveAtIs
  <2> HIDE DEF n, y, v
  <2> QED BY <2>2, <1>2 DEF Lacking
<1>12. /\ Len(v.child) = n - 1
       /\ \A i \in 1 .. n : i < q => v.child[i] = y.child[i]
       /\ \A i \in 1 .. n : i > q => v.child[i - 1] = y.child[i]
  <2>1. q \in 1 .. Len(y.child) BY <1>4, <1>10
  <2>2. Lacking(v.child, y.child, q) BY <2>1, <1>3, <1>9, RemoveAtIs
  <2> HIDE DEF n, y, v
  <2> QED BY <2>2, <1>10 DEF Lacking, k
<1> HIDE DEF k, n, v, y, r
<1>13. p \in Nat \ {0} /\ q \in Nat /\ (q = p \/ q = p + 1) BY <1>1
<1>14. Spliced(r, v, p, 2, 1)
  <2>1. n - 1 = n - 2 + 1 BY <1>3
  <2>2. ASSUME NEW i \in 1 .. n, i < p PROVE v.row[i] = r.row[i] /\ v.child[i] = r.child[i]
    <3>1. i < q /\ i \notin {p, p + 1} BY <2>2, <1>13, <1>3
    <3> QED BY <3>1, <1>2, <1>11, <1>12
  <2>3. ASSUME NEW i \in 1 .. n, i >= p + 2 PROVE v.row[i - 2 + 1] = r.row[i] /\ v.child[i - 2 + 1] = r.child[i]
    <3>1. i > q /\ i \notin {p, p + 1} /\ i - 2 + 1 = i - 1 BY <2>3, <1>13, <1>3
    <3> QED BY <3>1, <1>2, <1>11, <1>12
  <2> QED BY <2>1, <2>2, <2>3, <1>11, <1>12 DEF Spliced, n
<1>15. FirstRow(u, c) = FirstRow(s, c) BY <1>8 DEF FirstRow
<1>16. v.child[p] = c /\ (v.row[p] = r.row[p] \/ v.row[p] = FirstRow(u, c))
  <2>1. CASE q = p + 1 /\ c = a
    <3>1. p < q BY <2>1, <1>13
    <3> QED BY <3>1, <2>1, <1>1, <1>2, <1>11, <1>12, <1>15
  <2>2. CASE q = p /\ c = b
    <3>1. p + 1 > q /\ p + 1 - 1 = p BY <2>2, <1>13
    <3>2. v.row[p + 1 - 1] = y.row[p + 1] /\ v.child[p + 1 - 1] = y.child[p + 1] BY <3>1, <1>1, <1>11, <1>12
    <3> QED BY <3>1, <3>2, <2>2, <1>1, <1>2, <1>15
  <2> QED BY <2>1, <2>2
<1>17. u.node[c] = Cat(t.node[a], t.node[b]) BY <1>2, <1>8
<1>18. (c = a /\ e = b) \/ (c = b /\ e = a) OBVIOUS
<1>19. /\ Spliced(t.node[f], u.node[f], p, 2, 1) /\ u.node[f].child[p] = c
       /\ u.node[f].row[p] = t.node[f].row[p] \/ u.node[f].row[p] = FirstRow(u, c)
  BY <1>14, <1>16 DEF v, r
<1> QED BY <1>8, <1>17, <1>18, <1>19 DEF Absorbed

(* b_tree_merge, into either neighbour.                                      *)
LEMMA MergeAbsorbs ==
  ASSUME NEW t, NEW H, NEW K, NEW X, NEW f, NEW p, NEW a, NEW b, NEW cmp, NEW num,
         Pair(t, H, K, X, f, num, p, a, b, cmp), NEW u,
         \/ u = Freed(RemoveChild(MoveItem(t, cmp, f, p + 1, b, a, Size(t, b)), f, p + 1), b)
         \/ u = Freed(RemoveChild(MoveItem(t, cmp, f, p, a, b, Size(t, a)), f, p), a)
  PROVE  \E c, e : Absorbed(t, u, DOMAIN cmp \union {NoRid}, f, p, a, b, c, e)
<1> DEFINE Q == DOMAIN cmp \union {NoRid}
           x == t.node[a]
           y == t.node[b]
<1>1. /\ Neighbours(t, f, p, a, b) /\ InOrderNode(t, H, K, a, cmp) /\ InOrderNode(t, H, K, b, cmp)
      /\ cmp[FirstRow(t, a)][FirstRow(t, b)] < 0
      /\ ~(cmp[FirstRow(t, b)][FirstRow(t, a)] < 0)
      /\ Good(t, H, K, X, cmp) /\ f \in DOMAIN t.node /\ H[f] \in Nat /\ H[f] > 1
  BY PairFacts
<1>2. t \in Trees(Q) /\ NoRid \in Q
  <2>1. t \in Trees(DOMAIN cmp) BY <1>1 DEF Good, Typed
  <2> QED BY <2>1, TreesWiden
<1>3. /\ x \in Content(Q) /\ y \in Content(Q)
      /\ Leaf(x) \/ Len(x.child) = Len(x.row)
      /\ Leaf(y) \/ Len(y.child) = Len(y.row)
      /\ Len(x.row) \in Nat /\ Len(y.row) \in Nat
  <2>1. a \in DOMAIN t.node /\ b \in DOMAIN t.node BY <1>1, Zenon DEF Neighbours
  <2>2. /\ Leaf(x) \/ Len(x.child) = Len(x.row)
        /\ Leaf(y) \/ Len(y.child) = Len(y.row)
    BY <1>1, Zenon DEF InOrderNode
  <2> QED BY <2>1, <2>2, <1>2, TreeType
<1>4. Len(t.node[f].child) = Len(t.node[f].row)
  <2>1. NodeOK(t.node[f], H[f], K[f], H, K, cmp)
    <3>1. H[f] > 0 BY <1>1
    <3> QED BY <3>1, <1>1, UsedNode
  <2> QED BY <2>1, <1>1 DEF NodeOK, Layer
<1>5. CASE u = Freed(RemoveChild(MoveItem(t, cmp, f, p + 1, b, a, Size(t, b)), f, p + 1), b)
  <2> DEFINE s == MoveItem(t, cmp, f, p + 1, b, a, Len(y.row))
  <2>1. Repaired(t, s, Q, f, p, a, b, Cat(x, Part(y, 1, Len(y.row))), Part(y, Len(y.row) + 1, Len(y.row)))
    <3>1. Len(y.row) \in 0 .. Len(t.node[b].row) BY <1>3
    <3> QED BY <3>1, <1>1, <1>2, MovedLeft
  <2>2. Part(y, 1, Len(y.row)) = y BY <1>3, Wholes
  <2>3. u = Freed(RemoveChild(s, f, p + 1), b) BY <1>5 DEF Size
  <2> HIDE DEF s
  <2>4. Cat(x, Part(y, 1, Len(y.row))) = Cat(x, y) BY <2>2
  <2>5. Absorbed(t, u, Q, f, p, a, b, a, b)
    BY <2>1, <2>3, <2>4, <1>1, <1>2, <1>4, OneGone
  <2> QED BY <2>5
<1>6. CASE u = Freed(RemoveChild(MoveItem(t, cmp, f, p, a, b, Size(t, a)), f, p), a)
  <2> DEFINE n == Len(x.row)
             s == MoveItem(t, cmp, f, p, a, b, n)
             w == Cat(Part(x, n - n + 1, n), y)
  <2>1. Repaired(t, s, Q, f, p, a, b, Part(x, 1, n - n), w)
    <3>1. n \in 0 .. Len(t.node[a].row) BY <1>3
    <3> QED BY <3>1, <1>1, <1>2, MovedRight
  <2>2. w = Cat(x, y)
    <3>1. n - n + 1 = 1 BY <1>3
    <3>2. Part(x, 1, n) = x BY <1>3, Wholes
    <3> QED BY <3>1, <3>2
  <2>3. u = Freed(RemoveChild(s, f, p), a) BY <1>6 DEF Size
  <2> HIDE DEF s, w
  <2>4. Absorbed(t, u, Q, f, p, a, b, b, a)
    BY <2>1, <2>2, <2>3, <1>1, <1>2, <1>4, OneGone
  <2> QED BY <2>4
<1> QED BY <1>5, <1>6

(* A node taken from the free list or from the end of the file.              *)
Fetched(t, u, Q, e, H) ==
    /\ u \in Trees(Q) /\ DOMAIN u.node = DOMAIN t.node \union {e}
    /\ u.root = t.root
    /\ e \in Nat /\ (e \in DOMAIN t.node => H[e] = 0)
    /\ u.node[e] = Empty
    /\ \A d \in DOMAIN t.node : u.node[d] = t.node[d]
    /\ \A G : G[e] # 0 /\ (\A d \in DOMAIN t.node \ {e} : G[d] = H[d]) => Freelist(u, G)

LEMMA TailIs ==
  ASSUME NEW s \in Seq(Nat), s # <<>>
  PROVE  /\ Head(s) = s[1] /\ Len(s) \in Nat /\ 1 \in 1 .. Len(s)
         /\ Tail(s) \in Seq(Nat) /\ Len(Tail(s)) = Len(s) - 1
         /\ \A i \in 1 .. Len(s) - 1 : Tail(s)[i] = s[i + 1]
<1>1. /\ Head(s) = s[1] /\ Len(s) \in Nat /\ Len(s) # 0
      /\ Tail(s) \in Seq(Nat) /\ Len(Tail(s)) = Len(s) - 1
  OBVIOUS
<1>2. \A i \in 1 .. Len(Tail(s)) : Tail(s)[i] = s[i + 1] OBVIOUS
<1>3. \A n \in Nat : n # 0 => 1 \in 1 .. n OBVIOUS
<1> QED BY <1>1, <1>2, <1>3

LEMMA FetchOld ==
  ASSUME NEW Q, NEW t \in Trees(Q), NEW H, Freelist(t, H), t.free # <<>>,
         NEW u, u = WithNode(t), NEW e, e = NewNode(t)
  PROVE  Fetched(t, u, Q, e, H)
<1> DEFINE s == t.free
           n == Len(s)
<1>1. /\ s \in Seq(Nat) /\ t.root \in Nat /\ t.node \in Seq(Content(Q))
      /\ \A d \in DOMAIN t.node : d \in Nat
  BY TreeType
<1>2. /\ e = s[1] /\ n \in Nat /\ 1 \in 1 .. n
      /\ Tail(s) \in Seq(Nat) /\ Len(Tail(s)) = n - 1
      /\ \A i \in 1 .. n - 1 : Tail(s)[i] = s[i + 1]
  <2>1. e = Head(s) BY DEF NewNode
  <2> QED BY <2>1, <1>1, TailIs
<1>3. t = [node |-> t.node, root |-> t.root, free |-> s] BY DEF Trees
<1>4. u = [t EXCEPT !.free = Tail(@)] BY DEF WithNode
<1>5. u.node = t.node /\ u.root = t.root /\ u.free = Tail(s)
      /\ u = [node |-> t.node, root |-> t.root, free |-> Tail(s)]
  BY <1>3, <1>4
<1>6. u \in Trees(Q) BY <1>1, <1>2, <1>5 DEF Trees
<1>7. /\ \A i \in 1 .. n : s[i] \in DOMAIN t.node /\ H[s[i]] = 0
      /\ \A i, k \in 1 .. n : s[i] = s[k] => i = k
      /\ \A a \in DOMAIN t.node : H[a] = 0 =>
            t.node[a] = Empty /\ \E i \in 1 .. n : s[i] = a
  BY DEF Freelist
<1>8. e \in DOMAIN t.node /\ H[e] = 0 /\ t.node[e] = Empty BY <1>2, <1>7
<1> HIDE DEF s, n
<1>9. ASSUME NEW G, G[e] # 0, \A d \in DOMAIN t.node \ {e} : G[d] = H[d] PROVE Freelist(u, G)
  <2>1. \A i \in 1 .. n - 1 : i + 1 \in 1 .. n /\ i + 1 # 1 BY <1>2
  <2>2. \A i \in 1 .. n - 1 : u.free[i] = s[i + 1] /\ s[i + 1] \in DOMAIN t.node /\ H[s[i + 1]] = 0 /\ s[i + 1] # e
    BY <2>1, <1>2, <1>5, <1>7
  <2>3. Len(u.free) = n - 1 BY <1>2, <1>5
  <2>4. \A i \in 1 .. n - 1 : u.free[i] \in DOMAIN u.node /\ G[u.free[i]] = 0 BY <2>2, <1>5, <1>9
  <2>5. ASSUME NEW i \in 1 .. n - 1, NEW k \in 1 .. n - 1, u.free[i] = u.free[k] PROVE i = k
    <3>1. i + 1 = k + 1 BY <2>1, <2>2, <2>5, <1>7
    <3> QED BY <3>1, <1>2
  <2>6. ASSUME NEW a \in DOMAIN u.node, G[a] = 0
        PROVE  u.node[a] = Empty /\ \E i \in 1 .. n - 1 : u.free[i] = a
    <3>1. a \in DOMAIN t.node \ {e} /\ H[a] = 0 BY <2>6, <1>5, <1>9
    <3>2. PICK i \in 1 .. n : s[i] = a BY <3>1, <1>7
    <3>3. i # 1 BY <3>1, <3>2, <1>2
    <3>4. i - 1 \in 1 .. n - 1 /\ i - 1 + 1 = i BY <3>3, <1>2
    <3>5. u.free[i - 1] = a BY <3>2, <3>4, <2>2
    <3> QED BY <3>1, <3>4, <3>5, <1>5, <1>7
  <2>7. /\ \A i \in 1 .. Len(u.free) : u.free[i] \in DOMAIN u.node /\ G[u.free[i]] = 0
        /\ \A i, k \in 1 .. Len(u.free) : u.free[i] = u.free[k] => i = k
        /\ \A a \in DOMAIN u.node : G[a] = 0 =>
              u.node[a] = Empty /\ \E i \in 1 .. Len(u.free) : u.free[i] = a
    BY <2>3, <2>4, <2>5, <2>6
  <2> QED BY <2>7 DEF Freelist
<1> QED BY <1>1, <1>5, <1>6, <1>8, <1>9 DEF Fetched

LEMMA FetchNew ==
  ASSUME NEW Q, NEW t \in Trees(Q), NEW H, Freelist(t, H), t.free = <<>>,
         NEW u, u = WithNode(t), NEW e, e = NewNode(t)
  PROVE  Fetched(t, u, Q, e, H)
<1> DEFINE n == Len(t.node)
<1>1. /\ t.node \in Seq(Content(Q)) /\ DOMAIN t.node = 1 .. n /\ n \in Nat
      /\ t.root \in Nat /\ t.free \in Seq(Nat)
  BY TreeType
<1>2. e = n + 1 BY DEF NewNode
<1>3. t = [node |-> t.node, root |-> t.root, free |-> t.free] BY DEF Trees
<1>4. u = [t EXCEPT !.node = Append(@, Empty)] BY DEF WithNode
<1>5. /\ u.node = Append(t.node, Empty) /\ u.root = t.root /\ u.free = t.free
      /\ u = [node |-> Append(t.node, Empty), root |-> t.root, free |-> t.free]
  BY <1>3, <1>4
<1>6. Empty \in Content(Q) BY DEF Empty, Content
<1>7. /\ u.node \in Seq(Content(Q)) /\ Len(u.node) = n + 1
      /\ u.node[n + 1] = Empty /\ \A d \in 1 .. n : u.node[d] = t.node[d]
  <2>1. Append(t.node, Empty) \in Seq(Content(Q)) /\ Len(Append(t.node, Empty)) = n + 1 BY <1>1, <1>6
  <2>2. \A d \in 1 .. n + 1 : Append(t.node, Empty)[d] = IF d <= n THEN t.node[d] ELSE Empty BY <1>1, <1>6
  <2> HIDE DEF n
  <2>3. n + 1 \in 1 .. n + 1 /\ ~(n + 1 <= n) /\ \A d \in 1 .. n : d <= n /\ d \in 1 .. n + 1 BY <1>1
  <2> QED BY <2>1, <2>2, <2>3, <1>5
<1>8. u \in Trees(Q) BY <1>1, <1>5, <1>7 DEF Trees
<1>9. DOMAIN u.node = 1 .. n + 1 BY <1>7
<1> HIDE DEF n
<1>10. DOMAIN u.node = DOMAIN t.node \union {e} /\ e \in Nat /\ e \notin DOMAIN t.node BY <1>1, <1>2, <1>9
<1>11. ASSUME NEW G, G[e] # 0, \A d \in DOMAIN t.node \ {e} : G[d] = H[d] PROVE Freelist(u, G)
  <2>1. Len(u.free) = 0 /\ Len(t.free) = 0 BY <1>5
  <2>2. 1 .. 0 = {} OBVIOUS
  <2>3. ASSUME NEW a \in DOMAIN u.node, G[a] = 0 PROVE FALSE
    <3>1. a \in DOMAIN t.node /\ H[a] = 0 BY <2>3, <1>10, <1>11
    <3> QED BY <3>1, <2>1, <2>2 DEF Freelist
  <2> QED BY <2>1, <2>2, <2>3 DEF Freelist
<1> QED BY <1>1, <1>2, <1>5, <1>7, <1>8, <1>10, <1>11 DEF Fetched

LEMMA Fetch ==
  ASSUME NEW Q, NEW t \in Trees(Q), NEW H, Freelist(t, H),
         NEW u, u = WithNode(t), NEW e, e = NewNode(t)
  PROVE  Fetched(t, u, Q, e, H)
<1>1. CASE t.free = <<>> BY <1>1, FetchNew
<1>2. CASE t.free # <<>> BY <1>2, FetchOld
<1> QED BY <1>1, <1>2

LEMMA FreelistSame ==
  ASSUME NEW t, NEW u, NEW G, Freelist(t, G), DOMAIN u.node = DOMAIN t.node, u.free = t.free,
         \A d \in DOMAIN t.node : G[d] = 0 => u.node[d] = t.node[d]
  PROVE  Freelist(u, G)
BY DEF Freelist

(* splitnodes: a has x, and a new node, e, has y.                            *)
Halved(t, u, Q, a, e, x, y, H) ==
    /\ u \in Trees(Q) /\ DOMAIN u.node = DOMAIN t.node \union {e} /\ u.root = t.root
    /\ e \in Nat /\ (e \in DOMAIN t.node => H[e] = 0) /\ e # a
    /\ u.node[a] = x /\ u.node[e] = y
    /\ \A d \in DOMAIN t.node \ {a, e} : u.node[d] = t.node[d]
    /\ \A G : G[e] # 0 /\ G[a] # 0 /\ (\A d \in DOMAIN t.node \ {e} : G[d] = H[d]) => Freelist(u, G)

HalfOf(t, a, e, x, y) == [WithNode(t) EXCEPT !.node[a] = x, !.node[e] = y]

LEMMA HalfIs ==
  ASSUME NEW Q, NEW t \in Trees(Q), NEW H, Freelist(t, H),
         NEW a \in DOMAIN t.node, H[a] # 0, NEW x \in Content(Q), NEW y \in Content(Q),
         NEW e, e = NewNode(t), NEW u, u = HalfOf(t, a, e, x, y)
  PROVE  Halved(t, u, Q, a, e, x, y, H)
<1> DEFINE s == WithNode(t)
           w == Put(s, a, x)
<1>1. Fetched(t, s, Q, e, H) BY Fetch
<1> HIDE DEF s
<1>2. /\ s \in Trees(Q) /\ DOMAIN s.node = DOMAIN t.node \union {e} /\ s.root = t.root
      /\ e \in Nat /\ (e \in DOMAIN t.node => H[e] = 0)
      /\ \A d \in DOMAIN t.node : s.node[d] = t.node[d]
      /\ \A G : G[e] # 0 /\ (\A d \in DOMAIN t.node \ {e} : G[d] = H[d]) => Freelist(s, G)
  BY <1>1 DEF Fetched
<1>3. e # a BY <1>2
<1>4. Replaced(s, w, Q, a, x) BY <1>2, PutNode
<1>5. u = Put(w, e, y) BY DEF Put, s, HalfOf
<1> HIDE DEF w
<1>6. Changed(s, w, Q, {a}) /\ w.node[a] = x /\ w \in Trees(Q) /\ e \in DOMAIN w.node
  BY <1>2, <1>4 DEF Replaced, Changed
<1>7. Replaced(w, u, Q, e, y) BY <1>5, <1>6, PutNode
<1>8. Changed(w, u, Q, {e}) /\ u.node[e] = y BY <1>7 DEF Replaced
<1>9. /\ u \in Trees(Q) /\ DOMAIN u.node = DOMAIN s.node /\ u.root = s.root /\ u.free = s.free
      /\ u.node[a] = x /\ u.node[e] = y
      /\ \A d \in DOMAIN s.node \ {a, e} : u.node[d] = s.node[d]
  BY <1>2, <1>3, <1>6, <1>8 DEF Changed
<1>10. ASSUME NEW G, G[e] # 0, G[a] # 0, \A d \in DOMAIN t.node \ {e} : G[d] = H[d] PROVE Freelist(u, G)
  <2>1. Freelist(s, G) BY <1>2, <1>10
  <2>2. \A d \in DOMAIN s.node : G[d] = 0 => u.node[d] = s.node[d] BY <1>9, <1>10
  <2>3. DOMAIN u.node = DOMAIN s.node /\ u.free = s.free BY <1>9
  <2> QED BY <2>1, <2>2, <2>3, FreelistSame
<1> QED BY <1>2, <1>3, <1>9, <1>10 DEF Halved

(* A node behind another, below their father.                                *)
SplitBelow(t, u, Q, f, p, a, e, x, y, H) ==
    /\ u \in Trees(Q) /\ DOMAIN u.node = DOMAIN t.node \union {e} /\ u.root = t.root
    /\ e \in Nat /\ (e \in DOMAIN t.node => H[e] = 0) /\ e # a /\ e # f
    /\ u.node[a] = x /\ u.node[e] = y
    /\ \A d \in DOMAIN t.node \ {a, e, f} : u.node[d] = t.node[d]
    /\ Spliced(t.node[f], u.node[f], p, 1, 2)
    /\ u.node[f].child[p] = t.node[f].child[p] /\ u.node[f].child[p + 1] = e
    /\ u.node[f].row[p] = t.node[f].row[p] /\ u.node[f].row[p + 1] = FirstRow(u, e)
    /\ \A G : G[e] # 0 /\ G[a] # 0 /\ G[f] # 0 /\ (\A d \in DOMAIN t.node \ {e} : G[d] = H[d]) => Freelist(u, G)

LEMMA SplitsBelow ==
  ASSUME NEW Q, NoRid \in Q, NEW t \in Trees(Q), NEW H, Freelist(t, H),
         NEW a \in DOMAIN t.node, H[a] # 0, NEW x \in Content(Q), NEW y \in Content(Q),
         NEW f \in DOMAIN t.node, H[f] # 0, f # a, NEW p \in 1 .. Len(t.node[f].row),
         Len(t.node[f].child) = Len(t.node[f].row),
         NEW e, NEW s, Halved(t, s, Q, a, e, x, y, H),
         NEW u, u = InsertChild(s, f, p + 1, e)
  PROVE  SplitBelow(t, u, Q, f, p, a, e, x, y, H)
<1> DEFINE r == t.node[f]
           n == Len(r.row)
           v == u.node[f]
           k == Len(r.child)
<1>1. /\ s \in Trees(Q) /\ DOMAIN s.node = DOMAIN t.node \union {e} /\ s.root = t.root
      /\ e \in Nat /\ (e \in DOMAIN t.node => H[e] = 0) /\ e # a
      /\ s.node[a] = x /\ s.node[e] = y
      /\ \A d \in DOMAIN t.node \ {a, e} : s.node[d] = t.node[d]
      /\ \A G : G[e] # 0 /\ G[a] # 0 /\ (\A d \in DOMAIN t.node \ {e} : G[d] = H[d]) => Freelist(s, G)
  BY DEF Halved
<1>2. e # f /\ s.node[f] = r BY <1>1
<1>3. /\ r \in Content(Q) /\ n \in Nat /\ r.row \in Seq(Q) /\ r.child \in Seq(Nat)
      /\ FirstRow(s, e) \in Q /\ k = n
  BY <1>1, TreeType, ContentType
<1>4. p \in Nat \ {0} /\ p + 1 \in 1 .. n + 1 /\ p < p + 1 /\ p \in 1 .. n BY <1>3
<1>5. ChildIn(s, u, Q, f, p + 1, e)
  <2>1. /\ f \in DOMAIN s.node /\ e \in DOMAIN s.node
        /\ p + 1 \in 1 .. Len(s.node[f].row) + 1 /\ Len(s.node[f].child) = Len(s.node[f].row)
    BY <1>1, <1>2, <1>4
  <2> QED BY <2>1, <1>1, InsertChildIs
<1>6. /\ Changed(s, u, Q, {f})
      /\ v = [row |-> InsertAt(r.row, p + 1, FirstRow(s, e)), child |-> InsertAt(r.child, p + 1, e)]
  BY <1>2, <1>5 DEF ChildIn
<1>7. v.row = InsertAt(r.row, p + 1, FirstRow(s, e)) /\ v.child = InsertAt(r.child, p + 1, e) BY <1>6
<1>8. With(v.row, r.row, p + 1, FirstRow(s, e)) /\ With(v.child, r.child, p + 1, e)
  <2>1. With(v.row, r.row, p + 1, FirstRow(s, e)) BY <1>3, <1>4, <1>7, InsertAtIs
  <2>2. p + 1 \in 1 .. Len(r.child) + 1 BY <1>3, <1>4
  <2>3. With(v.child, r.child, p + 1, e) BY <2>2, <1>1, <1>3, <1>7, InsertAtIs
  <2> QED BY <2>1, <2>3
<1> HIDE DEF v, r
<1>9. /\ Len(v.row) = n + 1 /\ v.row[p + 1] = FirstRow(s, e)
      /\ \A i \in 1 .. n : i < p + 1 => v.row[i] = r.row[i]
      /\ \A i \in 1 .. n : i >= p + 1 => v.row[i + 1] = r.row[i]
      /\ Len(v.child) = n + 1 /\ v.child[p + 1] = e
      /\ \A i \in 1 .. n : i < p + 1 => v.child[i] = r.child[i]
      /\ \A i \in 1 .. n : i >= p + 1 => v.child[i + 1] = r.child[i]
  BY <1>3, <1>8 DEF With
<1> HIDE DEF n, k
<1>10. Spliced(r, v, p, 1, 2)
  <2>1. n + 1 = n - 1 + 2 BY <1>3
  <2>2. \A i \in 1 .. n : (i < p => i < p + 1) /\ i - 1 + 2 = i + 1 BY <1>3, <1>4
  <2>3. \A i \in 1 .. n : i >= p + 1 => v.row[i - 1 + 2] = r.row[i] /\ v.child[i - 1 + 2] = r.child[i]
    BY <2>2, <1>9
  <2>4. \A i \in 1 .. n : i < p => v.row[i] = r.row[i] /\ v.child[i] = r.child[i] BY <2>2, <1>9
  <2> QED BY <2>1, <2>3, <2>4, <1>9 DEF Spliced, n
<1>11. /\ v.child[p] = r.child[p] /\ v.child[p + 1] = e
       /\ v.row[p] = r.row[p] /\ v.row[p + 1] = FirstRow(s, e)
  BY <1>4, <1>9
<1>12. /\ u \in Trees(Q) /\ DOMAIN u.node = DOMAIN t.node \union {e} /\ u.root = t.root /\ u.free = s.free
       /\ u.node[a] = x /\ u.node[e] = y
       /\ \A d \in DOMAIN t.node \ {a, e, f} : u.node[d] = t.node[d]
       /\ \A d \in DOMAIN s.node \ {f} : u.node[d] = s.node[d]
  BY <1>1, <1>2, <1>6 DEF Changed
<1>13. FirstRow(u, e) = FirstRow(s, e) BY <1>1, <1>12 DEF FirstRow
<1>14. ASSUME NEW G, G[e] # 0, G[a] # 0, G[f] # 0, \A d \in DOMAIN t.node \ {e} : G[d] = H[d] PROVE Freelist(u, G)
  <2>1. Freelist(s, G) BY <1>1, <1>14
  <2>2. \A d \in DOMAIN s.node : G[d] = 0 => u.node[d] = s.node[d] BY <1>12, <1>14
  <2>3. DOMAIN u.node = DOMAIN s.node /\ u.free = s.free BY <1>1, <1>12
  <2> QED BY <2>1, <2>2, <2>3, FreelistSame
<1>15. /\ Spliced(t.node[f], u.node[f], p, 1, 2)
       /\ u.node[f].child[p] = t.node[f].child[p] /\ u.node[f].child[p + 1] = e
       /\ u.node[f].row[p] = t.node[f].row[p] /\ u.node[f].row[p + 1] = FirstRow(u, e)
  BY <1>10, <1>11, <1>13 DEF v, r
<1> QED BY <1>1, <1>2, <1>12, <1>14, <1>15 DEF SplitBelow

(* The two parts of a node in order.                                         *)
Halves(r, x, y, h, S, T, H, K, cmp) ==
    /\ x \in Content(DOMAIN cmp) /\ y \in Content(DOMAIN cmp)
    /\ NodeOK(x, h, S, H, K, cmp) /\ AllFresh(x, h, K, cmp)
    /\ NodeOK(y, h, T, H, K, cmp) /\ AllFresh(y, h, K, cmp)
    /\ x.row # <<>> /\ y.row # <<>> /\ x.row[1] = r.row[1]
    /\ Least(x.row[1], S, cmp) /\ Least(y.row[1], T, cmp)
    /\ Before(S, T, cmp)
    /\ h # 1 => \A d : IsIn(r, d) => IsIn(x, d) \/ IsIn(y, d)

CutInTwo(r, x, y, k, h, S, H, K, cmp) ==
    /\ Halves(r, x, y, h, Keys(x, h, K), Keys(y, h, K), H, K, cmp)
    /\ S = Keys(x, h, K) \union Keys(y, h, K)
    /\ Len(x.row) = k /\ Len(y.row) = Len(r.row) - k

LEMMA HalvesIs ==
  ASSUME NEW cmp, NEW r \in Content(DOMAIN cmp), NEW h \in Nat, NEW H, NEW K, NEW S,
         DOMAIN H \subseteq Nat,
         NodeOK(r, h, S, H, K, cmp), AllFresh(r, h, K, cmp), NEW k \in 1 .. Len(r.row) - 1,
         NEW x, NEW y, x = Part(r, 1, k), y = Part(r, k + 1, Len(r.row))
  PROVE  CutInTwo(r, x, y, k, h, S, H, K, cmp)
<1> DEFINE n == Len(r.row)
<1>0. n \in Nat /\ k \in Nat BY ContentType
<1>1. /\ k + 1 \in Nat \ {0} /\ n \in 0 .. n /\ k + 1 <= n + 1 /\ k \in 0 .. n /\ 1 <= k + 1 /\ 1 \in Nat \ {0}
      /\ n - (k + 1) + 1 = n - k /\ k - 1 + 1 = k /\ 1 \in 1 .. k /\ 1 \in 1 .. n - k
      /\ k \in Nat \ {0} /\ n - k \in Nat \ {0} /\ 1 + 1 - 1 = 1
  BY <1>0
<1>2. /\ x \in Content(DOMAIN cmp) /\ Sliced(x, r, 1, k, h, K)
      /\ NodeOK(x, h, Keys(x, h, K), H, K, cmp) /\ AllFresh(x, h, K, cmp)
  BY <1>1, PartNode
<1>3. /\ y \in Content(DOMAIN cmp) /\ Sliced(y, r, k + 1, n, h, K)
      /\ NodeOK(y, h, Keys(y, h, K), H, K, cmp) /\ AllFresh(y, h, K, cmp)
  <2>1. /\ Part(r, k + 1, Len(r.row)) \in Content(DOMAIN cmp) /\ Sliced(Part(r, k + 1, Len(r.row)), r, k + 1, Len(r.row), h, K)
        /\ NodeOK(Part(r, k + 1, Len(r.row)), h, Keys(Part(r, k + 1, Len(r.row)), h, K), H, K, cmp)
        /\ AllFresh(Part(r, k + 1, Len(r.row)), h, K, cmp)
    BY <1>1, PartNode
  <2> QED BY <2>1
<1>4. S = Keys(x, h, K) \union Keys(y, h, K) /\ Before(Keys(x, h, K), Keys(y, h, K), cmp)
  BY <1>1, CutNode
<1>5. Len(x.row) = k /\ x.row[1] = r.row[1]
  <2>1. Len(x.row) = k - 1 + 1 /\ \A i \in 1 .. k - 1 + 1 : x.row[i] = r.row[1 + i - 1] BY <1>2 DEF Sliced
  <2>2. x.row[1] = r.row[1 + 1 - 1] BY <2>1, <1>1
  <2> QED BY <2>1, <2>2, <1>1
<1>6. Len(y.row) = n - k BY <1>1, <1>3 DEF Sliced
<1>7. h # 1 => \A d : IsIn(r, d) => IsIn(x, d) \/ IsIn(y, d)
  <2> SUFFICES ASSUME h # 1, NEW d, IsIn(r, d) PROVE IsIn(x, d) \/ IsIn(y, d) OBVIOUS
  <2>1. h \in Nat \ {1} /\ Layer(r, h, H) BY DEF NodeOK
  <2> QED BY <2>1, <1>1, PartHas
<1> HIDE DEF n
<1>8. Len(x.row) \in Nat \ {0} /\ Len(y.row) \in Nat \ {0} /\ 1 \in 1 .. Len(x.row) /\ 1 \in 1 .. Len(y.row)
  BY <1>1, <1>5, <1>6
<1>9. Fresh(x, h, K, cmp, 1) /\ Fresh(y, h, K, cmp, 1) BY <1>2, <1>3, <1>8 DEF AllFresh
<1>10. Least(x.row[1], Keys(x, h, K), cmp) BY <1>2, <1>8, <1>9, FirstLeast
<1>11. Least(y.row[1], Keys(y, h, K), cmp) BY <1>3, <1>8, <1>9, FirstLeast
<1>12. x.row # <<>> /\ y.row # <<>> BY <1>8
<1>13. Halves(r, x, y, h, Keys(x, h, K), Keys(y, h, K), H, K, cmp)
  BY <1>2, <1>3, <1>4, <1>5, <1>7, <1>10, <1>11, <1>12 DEF Halves
<1> QED BY <1>4, <1>5, <1>6, <1>13 DEF n, CutInTwo

NodeAdded(t, u, H, K, X, f, e, cmp) ==
    \E G, J : /\ Good(u, G, J, X, cmp) /\ J[t.root] = K[t.root]
              /\ G[e] = H[f] - 1 /\ \A d \in DOMAIN t.node \ {e} : G[d] = H[d]

LEMMA SplitGood ==
  ASSUME NEW t, NEW H, NEW K, NEW X, NEW f, NEW p, NEW cmp, Repairable(t, H, K, X, f, p, cmp),
         NEW a, Child(t, f, p) = a, NEW x, NEW y, NEW S, NEW T,
         Halves(t.node[a], x, y, H[f] - 1, S, T, H, K, cmp), K[a] = S \union T,
         NEW e, NEW u, SplitBelow(t, u, DOMAIN cmp \union {NoRid}, f, p, a, e, x, y, H)
  PROVE  NodeAdded(t, u, H, K, X, f, e, cmp)
<1> DEFINE R == DOMAIN cmp
           Q == R \union {NoRid}
           h == H[f] - 1
           N == DOMAIN t.node \union {e}
           G == [d \in N |-> IF d = e THEN h ELSE H[d]]
           J == [d \in N |-> IF d = a THEN S ELSE IF d = e THEN T ELSE K[d]]
           M == {a, e}
           r == t.node[f]
           v == u.node[f]
<1>1. /\ Good(t, H, K, X, cmp) /\ IsOrder(cmp)
      /\ f \in DOMAIN t.node /\ H[f] > 1 /\ p \in 1 .. Len(r.row) /\ StaleAbove(X, t, H, f, p)
  BY DEF Repairable
<1>2. /\ t \in Trees(R) /\ H \in [DOMAIN t.node -> Nat] /\ K \in [DOMAIN t.node -> SUBSET R]
      /\ Freelist(t, H) /\ Used(t, H, K, X, cmp) /\ H[f] \in Nat /\ t.root \in DOMAIN t.node /\ H[t.root] > 0
  BY <1>1, Zenon DEF Good, Typed, Rooted
<1>3. /\ a \in DOMAIN t.node /\ H[a] = h /\ a # f /\ r.child[p] = a /\ a # t.root
      /\ Items(r, H[f], K, p) = K[a]
      /\ t.node[a].row[1] = FirstRow(t, a) /\ Least(FirstRow(t, a), K[a], cmp)
      /\ K[a] \subseteq R
  <2>1. a = t.node[f].child[p] BY DEF Child
  <2>2. IthChild(t, H, K, f, p, a, cmp) BY <2>1, <1>1, Sibling
  <2> QED BY <2>1, <2>2, Zenon DEF IthChild, InOrderNode
<1>4. /\ u \in Trees(Q) /\ DOMAIN u.node = N /\ u.root = t.root
      /\ e \in Nat /\ (e \in DOMAIN t.node => H[e] = 0) /\ e # a /\ e # f
      /\ u.node[a] = x /\ u.node[e] = y
      /\ \A d \in DOMAIN t.node \ {a, e, f} : u.node[d] = t.node[d]
      /\ Spliced(r, v, p, 1, 2)
      /\ v.child[p] = a /\ v.child[p + 1] = e
      /\ v.row[p] = r.row[p] /\ v.row[p + 1] = FirstRow(u, e)
  BY <1>3 DEF SplitBelow
<1>5. h \in Nat \ {0} /\ H[f] # 0 BY <1>1, <1>2
<1>6. /\ x \in Content(R) /\ y \in Content(R)
      /\ NodeOK(x, h, S, H, K, cmp) /\ AllFresh(x, h, K, cmp)
      /\ NodeOK(y, h, T, H, K, cmp) /\ AllFresh(y, h, K, cmp)
      /\ x.row # <<>> /\ y.row # <<>> /\ x.row[1] = t.node[a].row[1]
      /\ Least(x.row[1], S, cmp) /\ Least(y.row[1], T, cmp)
      /\ Before(S, T, cmp)
      /\ h # 1 => \A d : IsIn(t.node[a], d) => IsIn(x, d) \/ IsIn(y, d)
  BY DEF Halves
<1>7. /\ r \in Content(R) /\ Len(r.row) \in Nat
      /\ \A i \in 1 .. Len(r.row) : r.row[i] \in R
  BY <1>1, <1>2, TreeType, ContentType
<1>8. S # {} /\ T # {} /\ S \subseteq R /\ T \subseteq R BY <1>3, <1>6 DEF Least
<1>9. e # t.root BY <1>2, <1>4
<1> HIDE DEF h
<1>10. /\ G \in [N -> Nat] /\ G[e] = h /\ \A d \in DOMAIN t.node \ {e} : G[d] = H[d]
       /\ J \in [N -> SUBSET R] /\ J[a] = S /\ J[e] = T
       /\ \A d \in N \ M : J[d] = K[d]
  BY <1>2, <1>3, <1>4, <1>5, <1>8
<1>11. G[a] = h /\ G[f] = H[f] /\ J[f] = K[f] /\ J[t.root] = K[t.root] BY <1>1, <1>2, <1>3, <1>4, <1>9, <1>10
<1>12. <<f, p>> \in X \/ Least(v.row[p], S, cmp)
  <2> SUFFICES ASSUME <<f, p>> \notin X PROVE Least(v.row[p], S, cmp) OBVIOUS
  <2>1. Fresh(r, H[f], K, cmp, p) BY <1>1, <1>2 DEF Used
  <2>2. Least(r.row[p], K[a], cmp) BY <2>1, <1>3 DEF Fresh
  <2>3. r.row[p] = FirstRow(t, a) BY <2>2, <1>3, <1>1, LeastOne
  <2> QED BY <2>3, <1>3, <1>4, <1>6
<1>13. Least(v.row[p + 1], T, cmp)
  <2>1. FirstRow(u, e) = y.row[1] BY <1>4, <1>6 DEF FirstRow
  <2> QED BY <2>1, <1>4, <1>6
<1> HIDE DEF J, G, N
<1>14. Typed(u, G, J, R)
  <2>1. \A d \in DOMAIN u.node : u.node[d] \in Content(R)
    <3>1. ASSUME NEW d \in DOMAIN t.node \ {a, e, f} PROVE u.node[d] \in Content(R)
      BY <1>4, <1>2, TreeType
    <3>2. v \in Content(Q) /\ \A i \in 1 .. Len(v.row) : v.row[i] \in R
      <4>1. v \in Content(Q) BY <1>1, <1>4, TreeType DEF N
      <4>2. /\ \A i \in 1 .. Len(r.row) : i < p => v.row[i] = r.row[i]
            /\ \A i \in 1 .. Len(r.row) : i >= p + 1 => v.row[i - 1 + 2] = r.row[i]
            /\ Len(v.row) = Len(r.row) - 1 + 2
        BY <1>4 DEF Spliced
      <4>3. v.row[p] \in R /\ v.row[p + 1] \in R
        <5>1. v.row[p + 1] \in R BY <1>13, <1>8 DEF Least
        <5> QED BY <5>1, <1>1, <1>4, <1>7
      <4>4. ASSUME NEW i \in 1 .. Len(v.row) PROVE v.row[i] \in R
        <5> DEFINE n == Len(r.row)
        <5>0. i \in 1 .. n - 1 + 2 /\ n \in Nat /\ p \in 1 .. n BY <4>2, <1>1, <1>7
        <5> HIDE DEF n
        <5>1. CASE i < p
          <6>1. i \in 1 .. n BY <5>1, <5>0
          <6> QED BY <6>1, <5>1, <4>2, <1>7 DEF n
        <5>2. CASE i = p \/ i = p + 1 BY <5>2, <4>3
        <5>3. CASE ~(i < p) /\ i # p /\ i # p + 1
          <6>1. i - 1 \in 1 .. n /\ i - 1 >= p + 1 /\ i - 1 - 1 + 2 = i BY <5>3, <5>0
          <6>2. v.row[i - 1 - 1 + 2] = r.row[i - 1] BY <6>1, <4>2 DEF n
          <6>3. v.row[i] = r.row[i - 1] BY <6>1, <6>2
          <6> QED BY <6>1, <6>3, <1>7 DEF n
        <5> QED BY <5>1, <5>2, <5>3
      <4> QED BY <4>1, <4>4
    <3>3. v \in Content(R) BY <3>2, NarrowRow
    <3>4. \A d \in DOMAIN u.node : d \in DOMAIN t.node \/ d = e BY <1>4 DEF N
    <3> QED BY <3>1, <3>3, <3>4, <1>4, <1>6
  <2>2. u \in Trees(R) BY <2>1, <1>4, Narrow
  <2> QED BY <2>2, <1>4, <1>10 DEF Typed
<1>15. Freelist(u, G)
  <2>1. G[e] # 0 /\ G[a] # 0 /\ G[f] # 0 BY <1>5, <1>10, <1>11
  <2>2. \A F : F[e] # 0 /\ F[a] # 0 /\ F[f] # 0 /\ (\A d \in DOMAIN t.node \ {e} : F[d] = H[d]) => Freelist(u, F)
    BY DEF SplitBelow
  <2> QED BY <2>1, <2>2, <1>10
<1>16. Outside(t, u, H, G, K, J, M \union {f})
  BY <1>4, <1>10 DEF Outside, N
<1>19. p \in Nat \ {0} /\ p + 1 - 1 <= Len(r.row) /\ 2 \in {1, 2} /\ 1 \in {1, 2} BY <1>1, <1>7
<1>20. /\ \A i : i \in p .. p + 2 - 1 <=> i = p \/ i = p + 1
       /\ \A i : i \in p .. p + 1 - 1 <=> i = p
       /\ p < p + 1 /\ ~(p + 1 < p) /\ ~(p < p) /\ ~(p + 1 < p + 1)
  BY <1>19, Windows
<1>21. UNION {J[v.child[i]] : i \in p .. p + 2 - 1} = UNION {K[r.child[i]] : i \in p .. p + 1 - 1}
  <2>1. /\ \A z : z \in UNION {J[v.child[i]] : i \in p .. p + 2 - 1} <=> z \in S \/ z \in T
        /\ \A z : z \in UNION {K[r.child[i]] : i \in p .. p + 1 - 1} <=> z \in K[a]
    BY <1>3, <1>4, <1>10, <1>20
  <2> QED BY <2>1
<1>23. M \subseteq DOMAIN u.node /\ f \notin M BY <1>3, <1>4 DEF N
<1>24. ASSUME NEW d \in M PROVE
          /\ d \in DOMAIN t.node /\ H[d] > 0 => \E i \in p .. p + 1 - 1 : r.child[i] = d
          /\ G[d] # 0 /\ G[d] = H[f] - 1 /\ J[d] # {}
          /\ \E i \in p .. p + 2 - 1 : v.child[i] = d
          /\ NodeOK(u.node[d], H[f] - 1, J[d], H, K, cmp)
          /\ AllFresh(u.node[d], H[f] - 1, K, cmp)
  <2>0. h = H[f] - 1 /\ h # 0 BY <1>5 DEF h
  <2>1. CASE d = a BY <2>0, <2>1, <1>3, <1>4, <1>6, <1>8, <1>10, <1>11, <1>20
  <2>2. CASE d = e
    <3>1. ~(0 > 0) OBVIOUS
    <3> QED BY <3>1, <2>0, <2>2, <1>3, <1>4, <1>6, <1>8, <1>10, <1>11, <1>20
  <2> QED BY <2>1, <2>2
<1>25. \A i, k \in p .. p + 2 - 1 : i < k => Before(J[v.child[i]], J[v.child[k]], cmp)
  BY <1>4, <1>6, <1>10, <1>20
<1>26. \A i \in p .. p + 2 - 1 : <<f, i>> \in X \/ Least(v.row[i], J[v.child[i]], cmp)
  BY <1>4, <1>10, <1>12, <1>13, <1>20
<1>27. \A i \in Nat : <<f, i>> \in X => i \in p .. p + 1 - 1
  <2>1. ~(H[f] > H[f]) BY <1>2
  <2> QED BY <2>1, <1>1, <1>20 DEF StaleAbove
<1>28. ASSUME H[f] > 2, NEW i \in p .. p + 1 - 1, NEW d, IsIn(t.node[r.child[i]], d)
       PROVE  \E k \in p .. p + 2 - 1 : IsIn(u.node[v.child[k]], d)
  <2>1. h # 1 BY <1>2, <1>28 DEF h
  <2>2. IsIn(x, d) \/ IsIn(y, d) BY <2>1, <1>3, <1>6, <1>20, <1>28
  <2> QED BY <2>2, <1>4, <1>20
<1>29. /\ \A i \in p .. p + 1 - 1 : r.child[i] \in M
       /\ \A i \in p .. p + 2 - 1 : v.child[i] \in M /\ G[v.child[i]] > 0
  <2>1. G[a] > 0 /\ G[e] > 0 BY <1>5, <1>10, <1>11, SMTT(20)
  <2> QED BY <2>1, <1>3, <1>4, <1>20
<1>31. Windowed(t, u, H, G, K, J, f, p, 1, 2, M, X, cmp)
  <2> HIDE DEF M
  <2> QED BY <1>4, <1>11, <1>14, <1>15, <1>16, <1>21, <1>23, <1>24, <1>25, <1>26, <1>27, <1>28, <1>29, Zenon
          DEF Windowed
<1>32. Good(u, G, J, X, cmp) BY <1>31, <1>1, <1>19, WindowGood
<1>33. J[t.root] = K[t.root] /\ G[e] = H[f] - 1 /\ \A d \in DOMAIN t.node \ {e} : G[d] = H[d]
  BY <1>10, <1>11 DEF h
<1> HIDE DEF G, J
<1> QED BY <1>32, <1>33 DEF NodeAdded
-----------------------------------------------------------------------------
(* One repair: what it does to the father, the child and its neighbour.     *)

(* A father's row is brought up to date.                                     *)
UpToDate(t, u, H, K, X, f, i, cmp) ==
    /\ Good(u, H, K, X \ {<<f, i>>}, cmp)
    /\ Changed(t, u, DOMAIN cmp \union {NoRid}, {f})
    /\ Len(u.node[f].row) = Len(t.node[f].row)

LEMMA RefreshGood ==
  ASSUME NEW t, NEW H, NEW K, NEW X, NEW f, NEW i, NEW cmp, Repairable(t, H, K, X, f, i, cmp),
         NEW u, u = Refresh(t, f, i)
  PROVE  UpToDate(t, u, H, K, X, f, i, cmp)
<1> DEFINE R == DOMAIN cmp
           Q == R \union {NoRid}
           x == t.node[f]
           y == u.node[f]
           n == Len(x.row)
           c == x.child[i]
           Z == X \ {<<f, i>>}
<1>1. /\ Good(t, H, K, X, cmp) /\ IsOrder(cmp)
      /\ f \in DOMAIN t.node /\ H[f] > 1 /\ i \in 1 .. n
  BY DEF Repairable
<1>2. /\ t \in Trees(R) /\ H \in [DOMAIN t.node -> Nat] /\ K \in [DOMAIN t.node -> SUBSET R]
      /\ Freelist(t, H) /\ Used(t, H, K, X, cmp) /\ H[f] \in Nat /\ Rooted(t, H, K)
      /\ Apart(t, H, K) /\ Kin(t, H, K)
  BY <1>1, Zenon DEF Good, Typed
<1>3. /\ c \in DOMAIN t.node /\ c # f /\ Child(t, f, i) = c
      /\ Least(FirstRow(t, c), K[c], cmp) /\ K[c] \subseteq R
      /\ Items(x, H[f], K, i) = K[c]
  <2>1. IthChild(t, H, K, f, i, c, cmp) BY <1>1, Sibling
  <2> QED BY <2>1, Zenon DEF IthChild, InOrderNode
<1>4. /\ x \in Content(R) /\ n \in Nat /\ NodeOK(x, H[f], K[f], H, K, cmp)
      /\ \A k \in 1 .. n : x.row[k] \in R
  <2>1. H[f] > 0 BY <1>1, <1>2
  <2>2. x \in Content(R) /\ n \in Nat /\ NodeOK(x, H[f], K[f], H, K, cmp) BY <1>1, <2>1, UsedNode
  <2> QED BY <2>2, ContentType
<1>5. t \in Trees(Q) /\ NoRid \in Q BY <1>2, TreesWiden
<1>6. Refreshed(t, u, Q, f, i, c)
  <2> HIDE DEF Q, c
  <2> QED BY <1>1, <1>3, <1>5, RefreshIs
<1> HIDE DEF c
<1>7. /\ Changed(t, u, Q, {f}) /\ u \in Trees(Q) /\ DOMAIN u.node = DOMAIN t.node
      /\ u.root = t.root /\ u.free = t.free
      /\ \A a \in DOMAIN t.node \ {f} : u.node[a] = t.node[a]
      /\ y.child = x.child /\ Len(y.row) = n
      /\ \A k \in 1 .. n : k # i => y.row[k] = x.row[k]
      /\ y.row[i] = FirstRow(u, c)
  BY <1>6 DEF Refreshed, Changed, RowSet
<1>8. FirstRow(u, c) = FirstRow(t, c) BY <1>3, <1>7 DEF FirstRow
<1> HIDE DEF y, x, n
<1>9. Typed(u, H, K, R)
  <2>1. \A a \in DOMAIN u.node : u.node[a] \in Content(R)
    <3>1. y \in Content(Q) BY <1>1, <1>7, TreeType DEF y
    <3>2. \A k \in 1 .. Len(y.row) : y.row[k] \in R BY <1>3, <1>4, <1>7, <1>8 DEF Least
    <3>3. y \in Content(R) BY <3>1, <3>2, NarrowRow
    <3>4. \A a \in DOMAIN u.node \ {f} : u.node[a] \in Content(R) BY <1>2, <1>7, TreeType
    <3> QED BY <3>3, <3>4 DEF y
  <2>2. u \in Trees(R) BY <2>1, <1>7, Narrow
  <2> QED BY <2>2, <1>2, <1>7 DEF Typed
<1>10. Freelist(u, H)
  <2>1. \A d \in DOMAIN t.node : H[d] = 0 => u.node[d] = t.node[d] BY <1>1, <1>7
  <2> QED BY <2>1, <1>2, <1>7, FreelistSame
<1>11. Rooted(u, H, K) BY <1>2, <1>7 DEF Rooted
<1>12. \A k : Items(y, H[f], K, k) = Items(x, H[f], K, k) BY <1>1, <1>7 DEF Items
<1>13. NodeOK(y, H[f], K[f], H, K, cmp)
  <2>1. Layer(y, H[f], H) BY <1>1, <1>4, <1>7 DEF NodeOK, Layer, n
  <2>2. Sorted(y, H[f], K, cmp) BY <1>4, <1>7, <1>12 DEF NodeOK, Sorted, n
  <2>3. K[f] = Keys(y, H[f], K)
    <3>1. K[f] = UNION {Items(x, H[f], K, k) : k \in 1 .. n} BY <1>4 DEF NodeOK, Keys, n
    <3>2. {Items(x, H[f], K, k) : k \in 1 .. n} = {Items(y, H[f], K, k) : k \in 1 .. n} BY <1>12
    <3> QED BY <3>1, <3>2, <1>7 DEF Keys
  <2> QED BY <2>1, <2>2, <2>3 DEF NodeOK
<1>14. ASSUME NEW k \in 1 .. n PROVE <<f, k>> \in Z \/ Fresh(y, H[f], K, cmp, k)
  <2>1. CASE k = i
    <3>1. Least(y.row[i], Items(y, H[f], K, i), cmp) BY <1>3, <1>7, <1>8, <1>12
    <3> QED BY <3>1, <2>1 DEF Fresh
  <2>2. CASE k # i
    <3>1. <<f, k>> \in X \/ Fresh(x, H[f], K, cmp, k) BY <1>1, <1>2 DEF Used, x, n
    <3>2. <<f, k>> # <<f, i>> BY <2>2
    <3>3. y.row[k] = x.row[k] /\ Items(y, H[f], K, k) = Items(x, H[f], K, k) BY <2>2, <1>7, <1>12
    <3> QED BY <3>1, <3>2, <3>3 DEF Fresh
  <2> QED BY <2>1, <2>2
<1>15. Used(u, H, K, Z, cmp)
  <2>1. ASSUME NEW a \in DOMAIN u.node, H[a] > 0
        PROVE  /\ NodeOK(u.node[a], H[a], K[a], H, K, cmp)
               /\ \A k \in 1 .. Len(u.node[a].row) : <<a, k>> \in Z \/ Fresh(u.node[a], H[a], K, cmp, k)
    <3>1. CASE a = f BY <3>1, <1>7, <1>13, <1>14 DEF y
    <3>2. CASE a # f
      <4>1. u.node[a] = t.node[a] /\ a \in DOMAIN t.node BY <3>2, <2>1, <1>7
      <4>2. \A k : <<a, k>> # <<f, i>> BY <3>2
      <4>3. /\ NodeOK(t.node[a], H[a], K[a], H, K, cmp)
            /\ \A k \in 1 .. Len(t.node[a].row) : <<a, k>> \in X \/ Fresh(t.node[a], H[a], K, cmp, k)
        BY <4>1, <2>1, <1>2 DEF Used
      <4> QED BY <4>1, <4>2, <4>3
    <3> QED BY <3>1, <3>2
  <2> HIDE DEF Z
  <2> QED BY <2>1 DEF Used
<1>16. Apart(u, H, K) BY <1>2, <1>7 DEF Apart
<1>17. Kin(u, H, K)
  <2>1. ASSUME NEW d \in DOMAIN t.node, HasFather(t, H, d) PROVE HasFather(u, H, d)
    <3>1. PICK a \in DOMAIN t.node : H[a] = H[d] + 1 /\ \E k \in 1 .. Len(t.node[a].row) : t.node[a].child[k] = d
      BY <2>1 DEF HasFather
    <3>2. CASE a = f BY <3>1, <3>2, <1>7 DEF HasFather, x, y, n
    <3>3. CASE a # f BY <3>1, <3>3, <1>7 DEF HasFather
    <3> QED BY <3>2, <3>3
  <2> QED BY <2>1, <1>2, <1>7 DEF Kin
<1> QED BY <1>7, <1>9, <1>10, <1>11, <1>15, <1>16, <1>17 DEF Good, UpToDate, x, y, n

(* Sizes: e may be short of less rows, or have more than it may keep.        *)
Lowest(t, H, c) == IF c # t.root THEN DEGREE ELSE IF H[c] > 1 THEN 2 ELSE 0

Within(t, H, c, less, more) ==
    /\ Len(t.node[c].row) >= Lowest(t, H, c) - less
    /\ Len(t.node[c].row) <= 2 * DEGREE + more

SizedBut(t, H, e, less, more) ==
    \A c \in DOMAIN t.node : H[c] > 0 => Within(t, H, c, IF c = e THEN less ELSE 0, IF c = e THEN more ELSE 0)

(* What a repair below f leaves alone.                                       *)
Steady(t, u, H, G, f) ==
    /\ u.root = t.root /\ DOMAIN t.node \subseteq DOMAIN u.node
    /\ \A d \in DOMAIN t.node : H[d] >= H[f] => G[d] = H[d] /\ (d # f => u.node[d] = t.node[d])

(* After the repair of a node below f, without and with its last step.        *)
Treated(t, u, H, K, X, f, cmp, less, more) ==
    \E G, J : /\ Good(u, G, J, X, cmp) /\ J[t.root] = K[t.root]
              /\ Steady(t, u, H, G, f) /\ SizedBut(u, G, f, less, more)

LEMMA TreatedThenRefreshed ==
  ASSUME NEW t, NEW H, NEW K, NEW X, NEW f, NEW i, NEW cmp, Repairable(t, H, K, X, f, i, cmp),
         NEW less, NEW more,
         NEW u, Treated(t, u, H, K, X, f, cmp, less, more), NEW v, v = Refresh(u, f, i)
  PROVE  Treated(t, v, H, K, X \ {<<f, i>>}, f, cmp, less, more)
<1>1. PICK G, J : /\ Good(u, G, J, X, cmp) /\ J[t.root] = K[t.root]
                  /\ Steady(t, u, H, G, f) /\ SizedBut(u, G, f, less, more)
  BY DEF Treated
<1>2. /\ IsOrder(cmp) /\ f \in DOMAIN t.node /\ H[f] > 1 /\ H[f] \in Nat /\ i \in 1 .. Len(t.node[f].row)
      /\ \A c, k : <<c, k>> \in X => c \in DOMAIN t.node /\ (H[c] > H[f] \/ (c = f /\ k = i))
      /\ H \in [DOMAIN t.node -> Nat] /\ t \in Trees(DOMAIN cmp)
  BY DEF Repairable, StaleAbove, Good, Typed
<1>3. /\ u.root = t.root /\ DOMAIN t.node \subseteq DOMAIN u.node
      /\ \A d \in DOMAIN t.node : H[d] >= H[f] => G[d] = H[d] /\ (d # f => u.node[d] = t.node[d])
  BY <1>1 DEF Steady
<1>4. f \in DOMAIN u.node /\ G[f] = H[f] /\ f # NoNode /\ i \in Nat
  <2>1. H[f] >= H[f] /\ i \in Nat BY <1>2, TreeType
  <2> QED BY <2>1, <1>2, <1>3, TreeType
<1>5. u \in Trees(DOMAIN cmp) /\ Len(u.node[f].row) \in Nat
  <2>1. u \in Trees(DOMAIN cmp) BY <1>1 DEF Good, Typed
  <2> QED BY <2>1, <1>4, TreeType
<1>6. CASE i <= Len(u.node[f].row)
  <2>1. i \in 1 .. Len(u.node[f].row) BY <1>2, <1>4, <1>5, <1>6
  <2>2. StaleAbove(X, u, G, f, i)
    <3> SUFFICES ASSUME NEW c, NEW k, <<c, k>> \in X PROVE c \in DOMAIN u.node /\ (G[c] > G[f] \/ (c = f /\ k = i))
      BY DEF StaleAbove
    <3>1. c \in DOMAIN t.node /\ (H[c] > H[f] \/ (c = f /\ k = i)) BY <1>2
    <3>2. H[c] > H[f] => H[c] >= H[f] BY <3>1, <1>2
    <3> QED BY <3>1, <3>2, <1>3, <1>4
  <2>3. Repairable(u, G, J, X, f, i, cmp) BY <1>1, <1>2, <1>4, <2>1, <2>2 DEF Repairable
  <2>4. /\ Good(v, G, J, X \ {<<f, i>>}, cmp)
        /\ Changed(u, v, DOMAIN cmp \union {NoRid}, {f})
        /\ Len(v.node[f].row) = Len(u.node[f].row)
    <3>1. UpToDate(u, v, G, J, X, f, i, cmp) BY <2>3, RefreshGood
    <3> QED BY <3>1 DEF UpToDate
  <2>5. /\ DOMAIN v.node = DOMAIN u.node /\ v.root = u.root
        /\ \A a \in DOMAIN u.node \ {f} : v.node[a] = u.node[a]
    BY <2>4 DEF Changed
  <2>6. Steady(t, v, H, G, f) BY <1>3, <2>5 DEF Steady
  <2>7. SizedBut(v, G, f, less, more)
    <3>1. \A c \in DOMAIN u.node : Len(v.node[c].row) = Len(u.node[c].row) BY <2>4, <2>5
    <3>2. \A c : Lowest(v, G, c) = Lowest(u, G, c) BY <2>5 DEF Lowest
    <3> QED BY <3>1, <3>2, <2>5, <1>1 DEF SizedBut, Within
  <2> QED BY <1>1, <2>4, <2>6, <2>7 DEF Treated
<1>7. CASE ~(i <= Len(u.node[f].row))
  <2>1. i > Len(u.node[f].row) BY <1>4, <1>5, <1>7
  <2>2. v = u BY <2>1 DEF Refresh, Size
  <2>3. Good(u, G, J, X \ {<<f, i>>}, cmp)
    <3>1. Used(u, G, J, X, cmp) BY <1>1 DEF Good
    <3>2. Used(u, G, J, X \ {<<f, i>>}, cmp)
      <4> SUFFICES ASSUME NEW a \in DOMAIN u.node, G[a] > 0, NEW k \in 1 .. Len(u.node[a].row)
                   PROVE  <<a, k>> # <<f, i>>
        BY <3>1 DEF Used
      <4>1. f = a => i # k BY <1>5, <1>7
      <4> QED BY <4>1
    <3> QED BY <1>1, <3>2 DEF Good
  <2> QED BY <2>2, <2>3, <1>1 DEF Treated
<1> QED BY <1>6, <1>7

(* A repair below f changes f and the nodes of M, which it leaves in order.  *)
RepairsOnly(t, u, H, G, M, f) ==
    /\ u.root = t.root
    /\ \A c \in DOMAIN u.node \ (M \union {f}) : c \in DOMAIN t.node /\ u.node[c] = t.node[c] /\ G[c] = H[c]
    /\ \A c \in M : G[c] > 0 => /\ c # u.root
                                 /\ Len(u.node[c].row) >= DEGREE /\ Len(u.node[c].row) <= 2 * DEGREE

LEMMA SizedAfter ==
  ASSUME NEW t, NEW H, NEW a, NEW l, NEW m, SizedBut(t, H, a, l, m),
         NEW u, NEW G, NEW M, NEW f, a \in M, RepairsOnly(t, u, H, G, M, f),
         NEW less, NEW more, Within(u, G, f, less, more), f \notin M
  PROVE  SizedBut(u, G, f, less, more)
<1>4. /\ u.root = t.root
      /\ \A c \in DOMAIN u.node \ (M \union {f}) : c \in DOMAIN t.node /\ u.node[c] = t.node[c] /\ G[c] = H[c]
      /\ \A c \in M : G[c] > 0 => /\ c # u.root
                                   /\ Len(u.node[c].row) >= DEGREE /\ Len(u.node[c].row) <= 2 * DEGREE
  BY DEF RepairsOnly
<1> SUFFICES ASSUME NEW c \in DOMAIN u.node, G[c] > 0
             PROVE  Within(u, G, c, IF c = f THEN less ELSE 0, IF c = f THEN more ELSE 0)
  BY DEF SizedBut
<1>0. DEGREE \in Nat BY DegreeAssumption
<1>1. CASE c = f BY <1>1
<1>2. CASE c # f /\ c \in M
  <2>1. c # u.root /\ Len(u.node[c].row) >= DEGREE /\ Len(u.node[c].row) <= 2 * DEGREE BY <1>2, <1>4
  <2>2. Lowest(u, G, c) = DEGREE BY <2>1 DEF Lowest
  <2>3. DEGREE - 0 = DEGREE /\ 2 * DEGREE + 0 = 2 * DEGREE BY <1>0
  <2> QED BY <1>2, <2>1, <2>2, <2>3 DEF Within
<1>3. CASE c # f /\ c \notin M
  <2>1. c \in DOMAIN t.node /\ u.node[c] = t.node[c] /\ G[c] = H[c] /\ c # a BY <1>3, <1>4
  <2>2. Within(t, H, c, 0, 0) BY <2>1 DEF SizedBut
  <2>3. Lowest(u, G, c) = Lowest(t, H, c) BY <2>1, <1>4 DEF Lowest
  <2> QED BY <1>3, <2>1, <2>2, <2>3 DEF Within
<1> QED BY <1>1, <1>2, <1>3

LEMMA SizeOf ==
  ASSUME NEW t, NEW H, NEW K, NEW X, NEW cmp, Good(t, H, K, X, cmp),
         NEW a, NEW less \in Nat, NEW more \in Nat, SizedBut(t, H, a, less, more),
         NEW c \in DOMAIN t.node, H[c] > 0
  PROVE  /\ Len(t.node[c].row) \in Nat
         /\ c # t.root => Len(t.node[c].row) >= DEGREE - less
         /\ c # t.root /\ c # a => Len(t.node[c].row) >= DEGREE
         /\ c = t.root /\ H[c] > 1 => Len(t.node[c].row) >= 2 - less
         /\ c = t.root /\ H[c] > 1 /\ c # a => Len(t.node[c].row) >= 2
         /\ Len(t.node[c].row) <= 2 * DEGREE + more
         /\ c # a => Len(t.node[c].row) <= 2 * DEGREE
<1> DEFINE n == Len(t.node[c].row)
<1>0. DEGREE \in Nat BY DegreeAssumption
<1>1. n \in Nat
  <2>1. t \in Trees(DOMAIN cmp) BY DEF Good, Typed
  <2> QED BY <2>1, TreeType
<1>2. CASE c = a
  <2>1. n >= Lowest(t, H, c) - less /\ n <= 2 * DEGREE + more BY <1>2 DEF SizedBut, Within
  <2> HIDE DEF n
  <2> QED BY <1>0, <1>1, <1>2, <2>1 DEF Lowest, n
<1>3. CASE c # a
  <2>1. n >= Lowest(t, H, c) - 0 /\ n <= 2 * DEGREE + 0 BY <1>3 DEF SizedBut, Within
  <2>2. /\ c # t.root => Lowest(t, H, c) = DEGREE
        /\ c = t.root /\ H[c] > 1 => Lowest(t, H, c) = 2
    BY DEF Lowest
  <2> HIDE DEF n
  <2>3. /\ c # t.root => n >= DEGREE
        /\ c = t.root /\ H[c] > 1 => n >= 2
        /\ n <= 2 * DEGREE
    BY <1>0, <1>1, <2>1, <2>2
  <2>4. /\ n >= DEGREE => n >= DEGREE - less
        /\ n >= 2 => n >= 2 - less
        /\ n <= 2 * DEGREE => n <= 2 * DEGREE + more
    BY <1>0, <1>1
  <2> QED BY <1>1, <1>3, <2>3, <2>4 DEF n
<1> QED BY <1>2, <1>3

(* One row, or child, goes from a node to its neighbour.                     *)
LEMMA OneMoved ==
  ASSUME NEW t, NEW H, NEW K, NEW X, NEW f, NEW num, NEW p, NEW a, NEW b, NEW cmp,
         Pair(t, H, K, X, f, num, p, a, b, cmp), NEW less \in Nat, NEW more \in Nat,
         NEW c \in {a, b}, NEW l \in Nat, NEW m \in Nat, SizedBut(t, H, c, l, m), NEW u,
         \/ /\ u = MoveItem(t, cmp, f, p, a, b, 1)
            /\ Len(t.node[a].row) \in DEGREE + 1 .. 2 * DEGREE + 1
            /\ Len(t.node[b].row) \in DEGREE - 1 .. 2 * DEGREE - 1
         \/ /\ u = MoveItem(t, cmp, f, p + 1, b, a, 1)
            /\ Len(t.node[b].row) \in DEGREE + 1 .. 2 * DEGREE + 1
            /\ Len(t.node[a].row) \in DEGREE - 1 .. 2 * DEGREE - 1
  PROVE  Treated(t, u, H, K, X, f, cmp, less, more)
<1> DEFINE R == DOMAIN cmp
           Q == R \union {NoRid}
           h == H[f] - 1
           x == t.node[a]
           y == t.node[b]
<1>0. DEGREE \in Nat /\ DEGREE >= 2 BY DegreeAssumption
<1>1. /\ InOrderNode(t, H, K, a, cmp) /\ InOrderNode(t, H, K, b, cmp)
      /\ f \in DOMAIN t.node /\ H[f] \in Nat /\ H[f] > 1
      /\ H[a] = h /\ H[b] = h /\ a # b /\ a # f /\ b # f
      /\ Before(K[a], K[b], cmp)
      /\ Neighbours(t, f, p, a, b)
      /\ cmp[FirstRow(t, a)][FirstRow(t, b)] < 0
      /\ ~(cmp[FirstRow(t, b)][FirstRow(t, a)] < 0)
      /\ DOMAIN H = DOMAIN t.node /\ DOMAIN H \subseteq Nat
      /\ Good(t, H, K, X, cmp) /\ IsOrder(cmp)
  BY PairFacts
<1>2. /\ x \in Content(R) /\ y \in Content(R) /\ h \in Nat
      /\ NodeOK(x, h, K[a], H, K, cmp) /\ AllFresh(x, h, K, cmp)
      /\ NodeOK(y, h, K[b], H, K, cmp) /\ AllFresh(y, h, K, cmp)
      /\ a # t.root /\ b # t.root /\ a \in DOMAIN t.node /\ b \in DOMAIN t.node
      /\ Len(x.row) \in Nat /\ Len(y.row) \in Nat
  BY <1>1, Zenon DEF InOrderNode
<1>3. t \in Trees(Q) /\ NoRid \in Q /\ H \in [DOMAIN t.node -> Nat]
  <2>1. t \in Trees(R) /\ H \in [DOMAIN t.node -> Nat] BY <1>1 DEF Good, Typed
  <2> QED BY <2>1, TreesWiden
<1> HIDE DEF h
<1>4. \E z, w : /\ Repaired(t, u, Q, f, p, a, b, z, w)
                /\ Shared(x, y, z, w, h, K[a], K[b], H, K, cmp)
                /\ z.row[1] = x.row[1]
                /\ Len(z.row) >= DEGREE /\ Len(z.row) <= 2 * DEGREE
                /\ Len(w.row) >= DEGREE /\ Len(w.row) <= 2 * DEGREE
  <2>1. CASE /\ u = MoveItem(t, cmp, f, p, a, b, 1)
             /\ Len(x.row) \in DEGREE + 1 .. 2 * DEGREE + 1
             /\ Len(y.row) \in DEGREE - 1 .. 2 * DEGREE - 1
    <3> DEFINE n == Len(x.row)
               k == n - 1
               z == Part(x, 1, k)
               w == Cat(Part(x, k + 1, n), y)
    <3>1. 1 \in 0 .. n BY <2>1, <1>0, <1>2
    <3>2. Repaired(t, u, Q, f, p, a, b, Part(x, 1, n - 1), Cat(Part(x, n - 1 + 1, n), y))
      <4> HIDE DEF Q
      <4> QED BY <3>1, <1>1, <1>3, <2>1, MovedRight
    <3>3. k \in 0 .. n /\ k > 0
      <4>1. n \in Nat /\ n >= DEGREE + 1 BY <2>1, <1>0, <1>2
      <4> HIDE DEF n
      <4> QED BY <4>1, <1>0
    <3>4. /\ Shared(x, y, z, w, h, K[a], K[b], H, K, cmp)
          /\ Len(z.row) = k /\ (k > 0 => z.row[1] = x.row[1])
          /\ Len(w.row) = n - k + Len(y.row)
      <4>1. x \in Content(DOMAIN cmp) /\ y \in Content(DOMAIN cmp) /\ h \in Nat BY <1>2
      <4>2. NodeOK(x, h, K[a], H, K, cmp) BY <1>2
      <4>3. NodeOK(y, h, K[b], H, K, cmp) BY <1>2
      <4>4. AllFresh(x, h, K, cmp) BY <1>2
      <4>5. AllFresh(y, h, K, cmp) BY <1>2
      <4>6. Before(K[a], K[b], cmp) BY <1>1
      <4>7. DOMAIN H \subseteq Nat BY <1>1
      <4>8. k \in 0 .. Len(x.row) BY <3>3
      <4> HIDE DEF h, x, y
      <4>9. /\ Shared(x, y, Part(x, 1, k), Cat(Part(x, k + 1, Len(x.row)), y), h, K[a], K[b], H, K, cmp)
            /\ Len(Part(x, 1, k).row) = k
            /\ k > 0 => Part(x, 1, k).row[1] = x.row[1]
            /\ Len(Cat(Part(x, k + 1, Len(x.row)), y).row) = Len(x.row) - k + Len(y.row)
        <5> HIDE DEF k
        <5>1. RightShare(x, y, k, h, K[a], K[b], H, K, cmp)
          BY <4>1, <4>2, <4>3, <4>4, <4>5, <4>6, <4>7, <4>8, ShareRight
        <5> QED BY <5>1 DEF RightShare
      <4> QED BY <4>9
    <3>5. /\ k >= DEGREE /\ k <= 2 * DEGREE
          /\ n - k + Len(y.row) >= DEGREE /\ n - k + Len(y.row) <= 2 * DEGREE
      <4> DEFINE o == Len(y.row)
      <4>1. n \in DEGREE + 1 .. 2 * DEGREE + 1 /\ o \in DEGREE - 1 .. 2 * DEGREE - 1 BY <2>1
      <4> HIDE DEF n, o
      <4>2. k >= DEGREE /\ k <= 2 * DEGREE /\ n - k + o >= DEGREE /\ n - k + o <= 2 * DEGREE BY <4>1, <1>0
      <4> QED BY <4>2 DEF o
    <3>6. Repaired(t, u, Q, f, p, a, b, z, w) BY <3>2
    <3> HIDE DEF z, w, k, n
    <3> QED BY <3>3, <3>4, <3>5, <3>6
  <2>2. CASE /\ u = MoveItem(t, cmp, f, p + 1, b, a, 1)
             /\ Len(y.row) \in DEGREE + 1 .. 2 * DEGREE + 1
             /\ Len(x.row) \in DEGREE - 1 .. 2 * DEGREE - 1
    <3> DEFINE n == Len(y.row)
               z == Cat(x, Part(y, 1, 1))
               w == Part(y, 1 + 1, n)
    <3>1. 1 \in 0 .. n BY <2>2, <1>0, <1>2
    <3>2. Repaired(t, u, Q, f, p, a, b, z, w)
      <4> HIDE DEF Q
      <4> QED BY <3>1, <1>1, <1>3, <2>2, MovedLeft
    <3>4. /\ Shared(x, y, z, w, h, K[a], K[b], H, K, cmp)
          /\ Len(w.row) = n - 1
          /\ Len(x.row) > 0 => z.row[1] = x.row[1]
          /\ Len(z.row) = Len(x.row) + 1
      <4>1. x \in Content(DOMAIN cmp) /\ y \in Content(DOMAIN cmp) /\ h \in Nat BY <1>2
      <4>2. NodeOK(x, h, K[a], H, K, cmp) BY <1>2
      <4>3. NodeOK(y, h, K[b], H, K, cmp) BY <1>2
      <4>4. AllFresh(x, h, K, cmp) BY <1>2
      <4>5. AllFresh(y, h, K, cmp) BY <1>2
      <4>6. Before(K[a], K[b], cmp) BY <1>1
      <4>7. DOMAIN H \subseteq Nat BY <1>1
      <4>8. 1 \in 0 .. Len(y.row) BY <3>1
      <4> HIDE DEF h, x, y
      <4>9. /\ Shared(x, y, Cat(x, Part(y, 1, 1)), Part(y, 1 + 1, Len(y.row)), h, K[a], K[b], H, K, cmp)
            /\ Len(Part(y, 1 + 1, Len(y.row)).row) = Len(y.row) - 1
            /\ Len(x.row) > 0 => Cat(x, Part(y, 1, 1)).row[1] = x.row[1]
            /\ Len(Cat(x, Part(y, 1, 1)).row) = Len(x.row) + 1
        BY <4>1, <4>2, <4>3, <4>4, <4>5, <4>6, <4>7, <4>8, ShareLeft
      <4> QED BY <4>9
    <3>5. /\ n - 1 >= DEGREE /\ n - 1 <= 2 * DEGREE
          /\ Len(x.row) + 1 >= DEGREE /\ Len(x.row) + 1 <= 2 * DEGREE /\ Len(x.row) > 0
      <4> DEFINE o == Len(x.row)
      <4>1. n \in DEGREE + 1 .. 2 * DEGREE + 1 /\ o \in DEGREE - 1 .. 2 * DEGREE - 1 BY <2>2
      <4> HIDE DEF n, o
      <4>2. n - 1 >= DEGREE /\ n - 1 <= 2 * DEGREE /\ o + 1 >= DEGREE /\ o + 1 <= 2 * DEGREE /\ o > 0 BY <4>1, <1>0
      <4> QED BY <4>2 DEF o
    <3> HIDE DEF z, w, n
    <3> QED BY <3>2, <3>4, <3>5
  <2> QED BY <2>1, <2>2
<1>5. PICK z, w : /\ Repaired(t, u, Q, f, p, a, b, z, w)
                  /\ Shared(x, y, z, w, h, K[a], K[b], H, K, cmp)
                  /\ z.row[1] = x.row[1]
                  /\ Len(z.row) >= DEGREE /\ Len(z.row) <= 2 * DEGREE
                  /\ Len(w.row) >= DEGREE /\ Len(w.row) <= 2 * DEGREE
  BY <1>4
<1>6. Len(z.row) > 0 /\ Len(w.row) > 0
  <2>1. Len(z.row) \in Nat /\ Len(w.row) \in Nat BY <1>5, ContentType DEF Shared
  <2> QED BY <2>1, <1>0, <1>5
<1>7. \E J : Good(u, H, J, X, cmp) /\ J[t.root] = K[t.root]
  <2>1. Shared(t.node[a], t.node[b], z, w, H[f] - 1, K[a], K[b], H, K, cmp) BY <1>5 DEF h
  <2> QED BY <2>1, <1>5, <1>6, PairMoved
<1>8. /\ DOMAIN u.node = DOMAIN t.node /\ u.root = t.root
      /\ \A d \in DOMAIN t.node \ {a, b, f} : u.node[d] = t.node[d]
      /\ u.node[a] = z /\ u.node[b] = w
      /\ Len(u.node[f].row) = Len(t.node[f].row)
  BY <1>5 DEF Repaired, Moved, Holding, Changed, RowSet
<1>9. Steady(t, u, H, H, f)
  <2>1. ~(H[a] >= H[f]) /\ ~(H[b] >= H[f]) BY <1>1 DEF h
  <2> QED BY <2>1, <1>8 DEF Steady
<1>10. Within(u, H, f, less, more)
  <2>1. Within(t, H, f, 0, 0)
    <3>1. H[f] > 0 /\ f # c BY <1>1
    <3> QED BY <3>1, <1>1 DEF SizedBut
  <2>2. Lowest(u, H, f) = Lowest(t, H, f) /\ Lowest(t, H, f) \in Nat BY <1>0, <1>8 DEF Lowest
  <2> DEFINE n == Len(t.node[f].row)
             o == Lowest(t, H, f)
  <2>3. n \in Nat /\ n >= o - 0 /\ n <= 2 * DEGREE + 0 BY <1>1, <1>3, <2>1, TreeType DEF Within
  <2> HIDE DEF n, o
  <2>4. n >= o - less /\ n <= 2 * DEGREE + more BY <2>2, <2>3, <1>0 DEF o
  <2> QED BY <2>2, <2>4, <1>8 DEF Within, n, o
<1>11. SizedBut(u, H, f, less, more)
  <2> DEFINE M == {a, b}
  <2>1. \A d \in DOMAIN u.node \ (M \union {f}) : d \in DOMAIN t.node /\ u.node[d] = t.node[d] /\ H[d] = H[d]
    BY <1>8
  <2>2. \A d \in M : H[d] > 0 => /\ d # u.root
                                 /\ Len(u.node[d].row) >= DEGREE /\ Len(u.node[d].row) <= 2 * DEGREE
    BY <1>2, <1>5, <1>8
  <2>3. c \in M /\ f \notin M BY <1>1
  <2> HIDE DEF M
  <2>4. RepairsOnly(t, u, H, H, M, f) BY <2>1, <2>2, <1>8 DEF RepairsOnly
  <2> QED BY <1>1, <1>10, <2>3, <2>4, SizedAfter
<1> QED BY <1>7, <1>9, <1>11 DEF Treated

LEMMA TreatedFrom ==
  ASSUME NEW t, NEW H, NEW K, NEW X, NEW cmp, NEW a, NEW l, NEW m, SizedBut(t, H, a, l, m),
         NEW f, NEW M, a \in M, f \notin M, H \in [DOMAIN t.node -> Nat], f \in DOMAIN t.node,
         NEW u, NEW G, NEW J, Good(u, G, J, X, cmp), J[t.root] = K[t.root],
         DOMAIN t.node \subseteq DOMAIN u.node, G[f] = H[f],
         RepairsOnly(t, u, H, G, M, f), \A c \in M : c \in DOMAIN t.node => H[c] < H[f],
         NEW less, NEW more, Within(u, G, f, less, more)
  PROVE  Treated(t, u, H, K, X, f, cmp, less, more)
<1>1. SizedBut(u, G, f, less, more) BY SizedAfter
<1>2. Steady(t, u, H, G, f)
  <2> SUFFICES ASSUME NEW d \in DOMAIN t.node, H[d] >= H[f]
               PROVE  G[d] = H[d] /\ (d # f => u.node[d] = t.node[d])
    BY DEF Steady, RepairsOnly
  <2>1. d \notin M
    <3>1. H[d] \in Nat /\ H[f] \in Nat OBVIOUS
    <3>2. ~(H[d] < H[f]) BY <3>1
    <3> QED BY <3>2
  <2> QED BY <2>1 DEF RepairsOnly
<1> QED BY <1>1, <1>2 DEF Treated

LEMMA FatherWithin ==
  ASSUME NEW t, NEW H, NEW c, NEW l, NEW m, SizedBut(t, H, c, l, m),
         NEW f \in DOMAIN t.node, H[f] > 0, f # c, Len(t.node[f].row) \in Nat,
         NEW u, NEW G, u.root = t.root, G[f] = H[f]
  PROVE  /\ Len(u.node[f].row) = Len(t.node[f].row) + 1 => Within(u, G, f, 0, 1)
         /\ Len(u.node[f].row) = Len(t.node[f].row) - 1 => Within(u, G, f, 1, 0)
<1> DEFINE n == Len(t.node[f].row)
           k == Len(u.node[f].row)
           o == Lowest(t, H, f)
<1>0. DEGREE \in Nat /\ o \in Nat BY DegreeAssumption DEF Lowest
<1>1. Lowest(u, G, f) = o BY DEF Lowest
<1>2. n >= o - 0 /\ n <= 2 * DEGREE + 0 BY DEF SizedBut, Within
<1>3. n \in Nat OBVIOUS
<1> HIDE DEF n, k, o
<1>4. k = n + 1 => k >= o - 0 /\ k <= 2 * DEGREE + 1 BY <1>0, <1>2, <1>3
<1>5. k = n - 1 => k >= o - 1 /\ k <= 2 * DEGREE + 0 BY <1>0, <1>2, <1>3
<1>6. k = n + 1 => Within(u, G, f, 0, 1) BY <1>1, <1>4 DEF Within, k
<1>7. k = n - 1 => Within(u, G, f, 1, 0) BY <1>1, <1>5 DEF Within, k
<1> QED BY <1>6, <1>7 DEF n, k

(* A node with one row too many is split.                                    *)
LEMMA SplitTreated ==
  ASSUME NEW t, NEW H, NEW K, NEW X, NEW f, NEW p, NEW cmp, Repairable(t, H, K, X, f, p, cmp),
         NEW a, Child(t, f, p) = a, SizedBut(t, H, a, 0, 1), Len(t.node[a].row) = 2 * DEGREE + 1,
         NEW u, u = Split(t, f, p, a)
  PROVE  Treated(t, u, H, K, X, f, cmp, 0, 1)
<1> DEFINE R == DOMAIN cmp
           Q == R \union {NoRid}
           h == H[f] - 1
           r == t.node[a]
           x == Part(r, 1, DEGREE)
           y == Part(r, DEGREE + 1, Len(r.row))
           e == NewNode(t)
           s == HalfOf(t, a, e, x, y)
           S == Keys(x, h, K)
           T == Keys(y, h, K)
<1>0. DEGREE \in Nat /\ DEGREE >= 2 BY DegreeAssumption
<1>1. /\ IsOrder(cmp) /\ Good(t, H, K, X, cmp)
      /\ f \in DOMAIN t.node /\ H[f] > 1 /\ p \in 1 .. Len(t.node[f].row)
  BY DEF Repairable
<1>2. /\ t \in Trees(R) /\ H \in [DOMAIN t.node -> Nat] /\ Freelist(t, H)
      /\ t.root \in DOMAIN t.node /\ H[t.root] > 0
  BY <1>1 DEF Good, Typed, Rooted
<1>3. t \in Trees(Q) /\ NoRid \in Q BY <1>2, TreesWiden
<1>4. InOrderNode(t, H, K, a, cmp) /\ H[a] = h /\ a # f /\ h \in Nat /\ H[f] \in Nat
  <2>1. a = t.node[f].child[p] BY DEF Child
  <2>2. IthChild(t, H, K, f, p, a, cmp) BY <1>1, <2>1, Sibling
  <2> QED BY <2>2 DEF IthChild
<1>5. /\ a \in DOMAIN t.node /\ h > 0 /\ a # t.root
      /\ r \in Content(R) /\ NodeOK(r, h, K[a], H, K, cmp) /\ AllFresh(r, h, K, cmp)
  BY <1>4 DEF InOrderNode
<1> HIDE DEF h
<1>6. /\ Halves(r, x, y, h, S, T, H, K, cmp)
      /\ K[a] = S \union T
      /\ Len(x.row) = DEGREE /\ Len(y.row) = Len(r.row) - DEGREE
  <2>1. DEGREE \in 1 .. Len(r.row) - 1
    <3> DEFINE n == Len(r.row)
    <3>1. n = 2 * DEGREE + 1 OBVIOUS
    <3> HIDE DEF n
    <3>2. DEGREE \in 1 .. n - 1 BY <3>1, <1>0
    <3> QED BY <3>2 DEF n
  <2>2. DOMAIN H \subseteq Nat BY <1>2, TreeType
  <2> HIDE DEF r, x, y
  <2>3. x = Part(r, 1, DEGREE) /\ y = Part(r, DEGREE + 1, Len(r.row)) BY DEF x, y
  <2>4. r \in Content(DOMAIN cmp) BY <1>5
  <2>5. NodeOK(r, h, K[a], H, K, cmp) BY <1>5
  <2>6. AllFresh(r, h, K, cmp) BY <1>5
  <2>7. h \in Nat BY <1>4
  <2>8. CutInTwo(r, x, y, DEGREE, h, K[a], H, K, cmp)
    BY <2>1, <2>2, <2>3, <2>4, <2>5, <2>6, <2>7, HalvesIs
  <2> QED BY <2>8 DEF CutInTwo
<1>7. Len(y.row) = DEGREE + 1
  <2>1. Len(y.row) = 2 * DEGREE + 1 - DEGREE BY <1>6
  <2>2. 2 * DEGREE + 1 - DEGREE = DEGREE + 1 BY <1>0
  <2> QED BY <2>1, <2>2
<1>8. u = InsertChild(s, f, p + 1, e)
  <2>1. (2 * DEGREE + 1) \div 2 = DEGREE BY <1>0
  <2>2. f # NoNode BY <1>1, <1>2, TreeType
  <2> QED BY <2>1, <2>2 DEF Split, HalfOf
<1> HIDE DEF x, y, S, T, s, e, r
<1>9. x \in Content(Q) /\ y \in Content(Q)
  <2>1. x \in Content(R) /\ y \in Content(R) BY <1>6 DEF Halves
  <2> QED BY <2>1 DEF Content
<1>10. Halved(t, s, Q, a, e, x, y, H)
  <2>1. H[a] # 0 BY <1>4, <1>5
  <2>2. e = NewNode(t) /\ s = HalfOf(t, a, e, x, y) BY DEF e, s
  <2> QED BY <1>2, <1>3, <1>5, <1>9, <2>1, <2>2, HalfIs
<1>11. SplitBelow(t, u, Q, f, p, a, e, x, y, H)
  <2>1. H[a] # 0 /\ H[f] # 0 BY <1>1, <1>4, <1>5
  <2>2. Len(t.node[f].child) = Len(t.node[f].row)
    <3>1. H[f] > 0 BY <1>1, <1>4
    <3>2. NodeOK(t.node[f], H[f], K[f], H, K, cmp) BY <1>1, <3>1 DEF Good, Used
    <3> QED BY <3>2, <1>1, <1>4 DEF NodeOK, Layer
  <2> HIDE DEF Q
  <2> QED BY <1>1, <1>2, <1>3, <1>4, <1>5, <1>8, <1>9, <1>10, <2>1, <2>2, SplitsBelow
<1>12. PICK G, J : /\ Good(u, G, J, X, cmp) /\ J[t.root] = K[t.root]
                   /\ G[e] = H[f] - 1 /\ \A d \in DOMAIN t.node \ {e} : G[d] = H[d]
  <2>1. Halves(t.node[a], x, y, H[f] - 1, S, T, H, K, cmp) BY <1>6 DEF r, h
  <2>2. K[a] = S \union T BY <1>6
  <2>3. SplitBelow(t, u, DOMAIN cmp \union {NoRid}, f, p, a, e, x, y, H) BY <1>11
  <2>4. NodeAdded(t, u, H, K, X, f, e, cmp) BY <2>1, <2>2, <2>3, SplitGood
  <2> QED BY <2>4 DEF NodeAdded
<1>13. /\ DOMAIN u.node = DOMAIN t.node \union {e} /\ u.root = t.root
       /\ (e \in DOMAIN t.node => H[e] = 0) /\ e # a /\ e # f
       /\ u.node[a] = x /\ u.node[e] = y
       /\ \A d \in DOMAIN t.node \ {a, e, f} : u.node[d] = t.node[d]
       /\ Spliced(t.node[f], u.node[f], p, 1, 2)
  BY <1>11 DEF SplitBelow
<1>14. Within(u, G, f, 0, 1)
  <2>1. Len(t.node[f].row) \in Nat BY <1>1, <1>2, TreeType
  <2>2. Len(u.node[f].row) = Len(t.node[f].row) + 1
    <3>1. Len(u.node[f].row) = Len(t.node[f].row) - 1 + 2 BY <1>13 DEF Spliced
    <3> QED BY <3>1, <2>1
  <2>3. H[f] > 0 /\ G[f] = H[f] BY <1>1, <1>4, <1>12, <1>13
  <2> QED BY <1>1, <1>4, <1>13, <2>1, <2>2, <2>3, FatherWithin
<1> DEFINE M == {a, e}
<1>15. a \in M /\ f \notin M /\ DOMAIN t.node \subseteq DOMAIN u.node /\ G[f] = H[f]
  BY <1>1, <1>4, <1>12, <1>13
<1>16. \A c \in DOMAIN u.node \ (M \union {f}) : c \in DOMAIN t.node /\ u.node[c] = t.node[c] /\ G[c] = H[c]
  BY <1>12, <1>13
<1>17. \A c \in M : c \in DOMAIN t.node => H[c] < H[f]
  <2>1. H[a] < H[f] BY <1>4 DEF h
  <2>2. 0 < H[f] BY <1>1, <1>4
  <2> QED BY <2>1, <2>2, <1>13
<1>18. \A c \in M : G[c] > 0 => /\ c # u.root
                                /\ Len(u.node[c].row) >= DEGREE /\ Len(u.node[c].row) <= 2 * DEGREE
  <2>1. a # u.root /\ e # u.root BY <1>2, <1>5, <1>13
  <2>2. DEGREE >= DEGREE /\ DEGREE <= 2 * DEGREE /\ DEGREE + 1 >= DEGREE /\ DEGREE + 1 <= 2 * DEGREE BY <1>0
  <2> QED BY <2>1, <2>2, <1>6, <1>7, <1>13
<1> HIDE DEF M
<1>19. RepairsOnly(t, u, H, G, M, f) BY <1>13, <1>16, <1>18 DEF RepairsOnly
<1>20. f \in DOMAIN t.node /\ H \in [DOMAIN t.node -> Nat] BY <1>1, <1>2
<1> QED BY <1>12, <1>14, <1>15, <1>17, <1>19, <1>20, <1>13, TreatedFrom

(* Two neighbours become one.                                                *)
(* The b of the neighbours a and b goes into a, or a into b.                 *)
Merges(t, u, cmp, f, p, a, b) ==
    \/ u = Freed(RemoveChild(MoveItem(t, cmp, f, p + 1, b, a, Size(t, b)), f, p + 1), b)
    \/ u = Freed(RemoveChild(MoveItem(t, cmp, f, p, a, b, Size(t, a)), f, p), a)

LEMMA MergeTreated ==
  ASSUME NEW t, NEW H, NEW K, NEW X, NEW f, NEW num, NEW p, NEW a, NEW b, NEW cmp,
         Pair(t, H, K, X, f, num, p, a, b, cmp),
         NEW c \in {a, b}, NEW l, NEW m, SizedBut(t, H, c, l, m),
         Len(t.node[a].row) + Len(t.node[b].row) \in DEGREE .. 2 * DEGREE, NEW u,
         Merges(t, u, cmp, f, p, a, b)
  PROVE  Treated(t, u, H, K, X, f, cmp, 1, 0)
<1> DEFINE R == DOMAIN cmp
           Q == R \union {NoRid}
           M == {a, b}
<1>0. DEGREE \in Nat /\ DEGREE >= 2 BY DegreeAssumption
<1>1. /\ InOrderNode(t, H, K, a, cmp) /\ InOrderNode(t, H, K, b, cmp)
      /\ f \in DOMAIN t.node /\ H[f] \in Nat /\ H[f] > 1
      /\ H[a] = H[f] - 1 /\ H[b] = H[f] - 1 /\ a # b /\ a # f /\ b # f
      /\ Good(t, H, K, X, cmp)
  BY PairFacts
<1>2. PICK d, e : Absorbed(t, u, Q, f, p, a, b, d, e) BY MergeAbsorbs DEF Merges
<1>3. PICK G, J : /\ Good(u, G, J, X, cmp) /\ J[t.root] = K[t.root]
                  /\ G[e] = 0 /\ \A g \in DOMAIN t.node \ {e} : G[g] = H[g]
  <2>1. NodeGone(t, u, H, K, X, e, cmp)
    <3>1. Absorbed(t, u, DOMAIN cmp \union {NoRid}, f, p, a, b, d, e) BY <1>2
    <3> QED BY <3>1, PairMerged
  <2> QED BY <2>1 DEF NodeGone
<1>4. /\ DOMAIN u.node = DOMAIN t.node /\ u.root = t.root
      /\ (d = a /\ e = b) \/ (d = b /\ e = a)
      /\ u.node[d] = Cat(t.node[a], t.node[b])
      /\ \A g \in DOMAIN t.node \ {a, b, f} : u.node[g] = t.node[g]
      /\ Spliced(t.node[f], u.node[f], p, 2, 1)
  BY <1>2 DEF Absorbed
<1>5. t \in Trees(R) /\ H \in [DOMAIN t.node -> Nat] BY <1>1 DEF Good, Typed
<1>6. /\ t.node[a] \in Content(R) /\ t.node[b] \in Content(R) /\ a # t.root /\ b # t.root
      /\ a \in DOMAIN t.node /\ b \in DOMAIN t.node
  BY <1>1 DEF InOrderNode
<1>7. Len(u.node[d].row) >= DEGREE /\ Len(u.node[d].row) <= 2 * DEGREE
  <2>1. t.node[a].row \in Seq(R) /\ t.node[b].row \in Seq(R) BY <1>6, ContentType
  <2>2. Len(t.node[a].row \o t.node[b].row) = Len(t.node[a].row) + Len(t.node[b].row) BY <2>1, ConcatProperties, Zenon
  <2>3. u.node[d].row = t.node[a].row \o t.node[b].row
    <3>1. Cat(t.node[a], t.node[b]).row = t.node[a].row \o t.node[b].row BY DEF Cat
    <3> QED BY <3>1, <1>4
  <2> DEFINE n == Len(u.node[d].row)
  <2>4. n \in DEGREE .. 2 * DEGREE BY <2>2, <2>3
  <2> HIDE DEF n
  <2>5. n >= DEGREE /\ n <= 2 * DEGREE BY <2>4, <1>0
  <2> QED BY <2>5 DEF n
<1>8. Within(u, G, f, 1, 0)
  <2>1. Len(t.node[f].row) \in Nat BY <1>1, <1>5, TreeType
  <2>2. Len(u.node[f].row) = Len(t.node[f].row) - 1
    <3>1. Len(u.node[f].row) = Len(t.node[f].row) - 2 + 1 BY <1>4 DEF Spliced
    <3> QED BY <3>1, <2>1
  <2>3. H[f] > 0 /\ G[f] = H[f] /\ f # c BY <1>1, <1>3, <1>4
  <2> QED BY <1>1, <1>4, <2>1, <2>2, <2>3, FatherWithin
<1>9. c \in M /\ f \notin M /\ DOMAIN t.node \subseteq DOMAIN u.node /\ G[f] = H[f]
  BY <1>1, <1>3, <1>4
<1>10. \A g \in DOMAIN u.node \ (M \union {f}) : g \in DOMAIN t.node /\ u.node[g] = t.node[g] /\ G[g] = H[g]
  BY <1>3, <1>4
<1>11. \A g \in M : g \in DOMAIN t.node => H[g] < H[f] BY <1>1
<1>12. \A g \in M : G[g] > 0 => /\ g # u.root
                                /\ Len(u.node[g].row) >= DEGREE /\ Len(u.node[g].row) <= 2 * DEGREE
  <2>1. ~(G[e] > 0) BY <1>3
  <2> QED BY <2>1, <1>4, <1>6, <1>7
<1> HIDE DEF M
<1>13. RepairsOnly(t, u, H, G, M, f) BY <1>4, <1>10, <1>12 DEF RepairsOnly
<1> QED BY <1>1, <1>3, <1>4, <1>5, <1>8, <1>9, <1>11, <1>13, TreatedFrom

NeighbourAt(t, f, num, sizes, b) ==
    /\ b # 0 => /\ b = num - 1 \/ b = num + 1
                /\ b \in 1 .. Size(t, f) /\ Size(t, Child(t, f, b)) \in sizes
    /\ b = 0 => \A i \in 1 .. Size(t, f) :
                   i = num - 1 \/ i = num + 1 => Size(t, Child(t, f, i)) \notin sizes

LEMMA NeighbourIs ==
  ASSUME NEW t, NEW f, NEW num, num \in 1 .. Size(t, f), Size(t, f) \in Nat, NEW sizes,
         NEW b, b = Neighbour(t, f, num, sizes)
  PROVE  NeighbourAt(t, f, num, sizes, b)
<1> DEFINE Fits(i) == i \in 1 .. Size(t, f) /\ Size(t, Child(t, f, i)) \in sizes
<1>1. b = IF Fits(num - 1) THEN num - 1 ELSE IF Fits(num + 1) THEN num + 1 ELSE 0 BY DEF Neighbour
<1>2. num + 1 # 0 /\ ~(0 \in 1 .. Size(t, f)) OBVIOUS
<1>3. CASE Fits(num - 1)
  <2>1. b = num - 1 BY <1>1, <1>3
  <2>2. b # 0 BY <2>1, <1>2, <1>3
  <2> QED BY <2>1, <2>2, <1>3 DEF NeighbourAt
<1>4. CASE ~Fits(num - 1) /\ Fits(num + 1)
  <2>1. b = num + 1 BY <1>1, <1>4
  <2>2. b # 0 BY <2>1, <1>2
  <2> QED BY <2>1, <2>2, <1>4 DEF NeighbourAt
<1>5. CASE ~Fits(num - 1) /\ ~Fits(num + 1)
  <2>1. b = 0 BY <1>1, <1>5
  <2> QED BY <2>1, <1>5 DEF NeighbourAt
<1> QED BY <1>3, <1>4, <1>5

(* Nothing to repair.                                                        *)
LEMMA TreatedAlready ==
  ASSUME NEW t, NEW H, NEW K, NEW X, NEW f, NEW p, NEW cmp, Repairable(t, H, K, X, f, p, cmp),
         NEW a, a # f, a # t.root, NEW l \in Nat, NEW m \in Nat, SizedBut(t, H, a, l, m),
         a \in DOMAIN t.node, Len(t.node[a].row) >= DEGREE, Len(t.node[a].row) <= 2 * DEGREE,
         NEW less \in Nat, NEW more \in Nat
  PROVE  Treated(t, t, H, K, X, f, cmp, less, more)
<1>0. DEGREE \in Nat BY DegreeAssumption
<1>1. /\ Good(t, H, K, X, cmp) /\ f \in DOMAIN t.node /\ H[f] > 1
      /\ t \in Trees(DOMAIN cmp) /\ H \in [DOMAIN t.node -> Nat]
  BY DEF Repairable, Good, Typed
<1>2. Steady(t, t, H, H, f) BY DEF Steady
<1>3. SizedBut(t, H, f, less, more)
  <2> SUFFICES ASSUME NEW c \in DOMAIN t.node, H[c] > 0
               PROVE  Within(t, H, c, IF c = f THEN less ELSE 0, IF c = f THEN more ELSE 0)
    BY DEF SizedBut
  <2>1. CASE c = a
    <3>1. Lowest(t, H, c) = DEGREE BY <2>1 DEF Lowest
    <3>2. DEGREE - 0 = DEGREE /\ 2 * DEGREE + 0 = 2 * DEGREE BY <1>0
    <3> QED BY <3>1, <3>2, <2>1 DEF Within
  <2>2. CASE c # a
    <3>1. Within(t, H, c, 0, 0) BY <2>2 DEF SizedBut
    <3> DEFINE n == Len(t.node[c].row)
               o == Lowest(t, H, c)
    <3>2. n >= o - 0 /\ n <= 2 * DEGREE + 0 BY <3>1 DEF Within
    <3>3. n \in Nat /\ o \in Nat BY <1>0, <1>1, TreeType DEF Lowest
    <3> HIDE DEF n, o
    <3>4. n >= o - less /\ n <= 2 * DEGREE + more BY <3>2, <3>3, <1>0
    <3>5. Within(t, H, c, less, more) BY <3>4 DEF Within, n, o
    <3> QED BY <3>1, <3>5
  <2> QED BY <2>1, <2>2
<1> QED BY <1>1, <1>2, <1>3 DEF Treated

(* The num-th child and a neighbour are a pair.                              *)
LEMMA PairOf ==
  ASSUME NEW t, NEW H, NEW K, NEW X, NEW f, NEW num, NEW cmp, Repairable(t, H, K, X, f, num, cmp),
         NEW i \in 1 .. Len(t.node[f].row)
  PROVE  /\ i = num + 1 => Pair(t, H, K, X, f, num, num, Child(t, f, num), Child(t, f, i), cmp)
         /\ i = num - 1 => Pair(t, H, K, X, f, num, i, Child(t, f, i), Child(t, f, num), cmp)
                           /\ i + 1 = num
<1>1. num \in 1 .. Len(t.node[f].row) BY DEF Repairable
<1>2. i = num + 1 => num \in {num, num + 1} /\ num + 1 \in 1 .. Len(t.node[f].row) /\ Child(t, f, num + 1) = Child(t, f, i)
  OBVIOUS
<1>3. i = num - 1 => i + 1 = num /\ num \in {i, i + 1} /\ Child(t, f, i + 1) = Child(t, f, num) /\ i + 1 \in 1 .. Len(t.node[f].row)
  BY <1>1
<1> QED BY <1>1, <1>2, <1>3 DEF Pair

(* A node of the height of f's children.                                     *)
ChildFacts(t, H, K, X, f, i, cmp) ==
    /\ Child(t, f, i) \in DOMAIN t.node /\ Child(t, f, i) # f /\ Child(t, f, i) # t.root
    /\ H[Child(t, f, i)] > 0 /\ Len(t.node[Child(t, f, i)].row) \in Nat

LEMMA ChildIs ==
  ASSUME NEW t, NEW H, NEW K, NEW X, NEW f, NEW p, NEW cmp, Repairable(t, H, K, X, f, p, cmp),
         NEW i \in 1 .. Len(t.node[f].row)
  PROVE  /\ ChildFacts(t, H, K, X, f, i, cmp)
         /\ i # p => Child(t, f, i) # Child(t, f, p)
<1> DEFINE c == t.node[f].child[i]
           d == t.node[f].child[p]
<1>1. c = Child(t, f, i) /\ d = Child(t, f, p) BY DEF Child
<1>2. p \in 1 .. Len(t.node[f].row) BY DEF Repairable
<1> HIDE DEF c, d
<1>3. IthChild(t, H, K, f, i, c, cmp) BY Sibling DEF c
<1>4. ChildFacts(t, H, K, X, f, i, cmp) BY <1>1, <1>3 DEF ChildFacts, IthChild, InOrderNode
<1>5. ASSUME i # p PROVE c # d
  <2>1. IthChild(t, H, K, f, p, d, cmp) BY <1>2, Sibling DEF d
  <2>2. Items(t.node[f], H[f], K, i) = K[c] /\ Items(t.node[f], H[f], K, p) = K[d] /\ K[c] # {} /\ K[c] \subseteq DOMAIN cmp
    BY <1>3, <2>1 DEF IthChild, InOrderNode
  <2>3. Sorted(t.node[f], H[f], K, cmp) /\ H[f] \in Nat /\ Len(t.node[f].row) \in Nat
    <3>1. /\ Good(t, H, K, X, cmp) /\ f \in DOMAIN t.node /\ H[f] > 1 BY DEF Repairable
    <3>2. H[f] \in Nat BY <3>1 DEF Good, Typed
    <3>3. H[f] > 0 BY <3>1, <3>2
    <3>4. t \in Trees(DOMAIN cmp) BY <3>1 DEF Good, Typed
    <3>5. Len(t.node[f].row) \in Nat BY <3>1, <3>4, TreeType
    <3> QED BY <3>1, <3>2, <3>3, <3>5 DEF Good, Used, NodeOK
  <2>4. i < p \/ p < i BY <1>2, <1>5, <2>3
  <2>5. Before(K[c], K[d], cmp) \/ Before(K[d], K[c], cmp) BY <2>2, <2>3, <2>4, <1>2 DEF Sorted
  <2>6. IsOrder(cmp) BY DEF Repairable
  <2>7. \A r \in DOMAIN cmp : ~(cmp[r][r] < 0)
    <3>1. \A r \in DOMAIN cmp : cmp[r][r] = 0 BY <2>6 DEF IsOrder
    <3> QED BY <3>1
  <2> QED BY <2>2, <2>5, <2>7 DEF Before
<1> QED BY <1>1, <1>4, <1>5


(* insertnode's repair of a node below f.                                    *)
LEMMA InsertRepaired ==
  ASSUME NEW t, NEW H, NEW K, NEW X, NEW f, NEW num, NEW cmp, Repairable(t, H, K, X, f, num, cmp),
         NEW a, Child(t, f, num) = a, SizedBut(t, H, a, 0, 1),
         NEW v, v.addr = a, v.father = f, v.num = num,
         NEW u, u = InsertRepair(t, cmp, v)
  PROVE  Treated(t, u, H, K, X \ {<<f, num>>}, f, cmp, 0, 1)
<1> DEFINE b == WithRoom(t, f, num)
           n == Size(t, a)
           w == IF n <= 2 * DEGREE THEN t
                ELSE IF f = NoNode \/ b = 0 THEN Split(t, f, num, a)
                ELSE MoveItem(t, cmp, f, num, a, Child(t, f, b), 1)
<1>0. DEGREE \in Nat /\ DEGREE >= 2 BY DegreeAssumption
<1>1. /\ IsOrder(cmp) /\ Good(t, H, K, X, cmp)
      /\ f \in DOMAIN t.node /\ H[f] > 1 /\ num \in 1 .. Len(t.node[f].row)
  BY DEF Repairable
<1>2. t \in Trees(DOMAIN cmp) BY <1>1 DEF Good, Typed
<1>3. f # NoNode /\ Size(t, f) \in Nat /\ Size(t, f) = Len(t.node[f].row) BY <1>1, <1>2, TreeType DEF Size
<1>4. a \in DOMAIN t.node /\ a # f /\ a # t.root /\ H[a] > 0 /\ n \in Nat /\ n = Len(t.node[a].row)
  <2>1. ChildFacts(t, H, K, X, f, num, cmp) BY <1>1, ChildIs
  <2> QED BY <2>1 DEF ChildFacts, Size
<1>5. n >= DEGREE /\ n <= 2 * DEGREE + 1
  <2>1. /\ n >= DEGREE - 0 /\ n <= 2 * DEGREE + 1
    <3> HIDE DEF n
    <3>1. /\ a # t.root => Len(t.node[a].row) >= DEGREE - 0
          /\ Len(t.node[a].row) <= 2 * DEGREE + 1
      BY <1>1, <1>4, SizeOf
    <3> QED BY <3>1, <1>4
  <2> HIDE DEF n
  <2> QED BY <2>1, <1>0, <1>4
<1>6. u = Refresh(w, f, num) BY DEF InsertRepair
<1> HIDE DEF n, b
<1>7. Treated(t, w, H, K, X, f, cmp, 0, 1)
  <2>1. CASE n <= 2 * DEGREE
    <3>1. w = t BY <2>1
    <3>2. Treated(t, t, H, K, X, f, cmp, 0, 1) BY <1>4, <1>5, <2>1, TreatedAlready
    <3> QED BY <3>1, <3>2
  <2>2. CASE ~(n <= 2 * DEGREE) /\ b = 0
    <3>1. w = Split(t, f, num, a) BY <2>2
    <3> HIDE DEF w
    <3>2. n = 2 * DEGREE + 1 BY <1>0, <1>4, <1>5, <2>2
    <3>3. Len(t.node[a].row) = 2 * DEGREE + 1 BY <1>4, <3>2
    <3> QED BY <3>1, <3>3, SplitTreated
  <2>3. CASE ~(n <= 2 * DEGREE) /\ b # 0
    <3> DEFINE c == Child(t, f, b)
    <3>1. w = MoveItem(t, cmp, f, num, a, c, 1) BY <2>3, <1>3
    <3> HIDE DEF w
    <3>2. n \in DEGREE + 1 .. 2 * DEGREE + 1
      <4>1. n = 2 * DEGREE + 1 BY <1>0, <1>4, <1>5, <2>3
      <4> QED BY <4>1, <1>0
    <3>3. /\ b = num - 1 \/ b = num + 1
          /\ b \in 1 .. Len(t.node[f].row) /\ Size(t, c) \in 0 .. 2 * DEGREE - 1
      <4>1. b = Neighbour(t, f, num, 0 .. 2 * DEGREE - 1) BY DEF b, WithRoom
      <4>2. num \in 1 .. Size(t, f) BY <1>1, <1>3
      <4>3. NeighbourAt(t, f, num, 0 .. 2 * DEGREE - 1, b) BY <4>1, <4>2, <1>3, NeighbourIs
      <4> QED BY <4>3, <2>3, <1>3 DEF NeighbourAt
    <3>4. b # num BY <3>3, <1>1
    <3>5. c \in DOMAIN t.node /\ c # t.root /\ c # a /\ H[c] > 0
      <4>1. ChildFacts(t, H, K, X, f, b, cmp) /\ c # Child(t, f, num) BY <3>3, <3>4, ChildIs
      <4> QED BY <4>1 DEF ChildFacts
    <3> HIDE DEF c
    <3>6. Len(t.node[c].row) \in DEGREE - 1 .. 2 * DEGREE - 1
      <4>1. /\ Len(t.node[c].row) \in Nat
            /\ c # t.root /\ c # a => Len(t.node[c].row) >= DEGREE
        BY <1>1, <3>5, SizeOf
      <4>2. Len(t.node[c].row) \in 0 .. 2 * DEGREE - 1 BY <3>3 DEF Size
      <4> DEFINE k == Len(t.node[c].row)
      <4>3. k \in Nat /\ k >= DEGREE /\ k \in 0 .. 2 * DEGREE - 1 BY <4>1, <4>2, <3>5
      <4> HIDE DEF k
      <4>4. k \in DEGREE - 1 .. 2 * DEGREE - 1 BY <4>3, <1>0
      <4> QED BY <4>4 DEF k
    <3>7. CASE b = num + 1
      <4>1. Pair(t, H, K, X, f, num, num, a, c, cmp)
        <5>1. Pair(t, H, K, X, f, num, num, Child(t, f, num), Child(t, f, b), cmp) BY <3>3, <3>7, PairOf
        <5> QED BY <5>1 DEF c
      <4>2. Len(t.node[a].row) \in DEGREE + 1 .. 2 * DEGREE + 1 BY <3>2, <1>4
      <4>3. 0 \in Nat /\ 1 \in Nat /\ a \in {a, c} OBVIOUS
      <4> QED BY <3>1, <3>6, <4>1, <4>2, <4>3, OneMoved
    <3>8. CASE b = num - 1
      <4>1. Pair(t, H, K, X, f, num, b, c, a, cmp) /\ b + 1 = num
        <5>1. Pair(t, H, K, X, f, num, b, Child(t, f, b), Child(t, f, num), cmp) /\ b + 1 = num BY <3>3, <3>8, PairOf
        <5> QED BY <5>1 DEF c
      <4>2. Len(t.node[a].row) \in DEGREE + 1 .. 2 * DEGREE + 1 BY <3>2, <1>4
      <4>3. 0 \in Nat /\ 1 \in Nat /\ a \in {c, a} OBVIOUS
      <4>4. w = MoveItem(t, cmp, f, b + 1, a, c, 1) BY <3>1, <4>1
      <4> QED BY <3>6, <4>1, <4>2, <4>3, <4>4, OneMoved
    <3> QED BY <3>3, <3>7, <3>8
  <2> QED BY <2>1, <2>2, <2>3
<1> HIDE DEF w
<1> QED BY <1>6, <1>7, TreatedThenRefreshed

(* deletenode's repair of a node below f.                                    *)
LEMMA DeleteRepaired ==
  ASSUME NEW t, NEW H, NEW K, NEW X, NEW f, NEW num, NEW cmp, Repairable(t, H, K, X, f, num, cmp),
         NEW a, Child(t, f, num) = a, SizedBut(t, H, a, 1, 0),
         NEW v, v.addr = a, v.father = f, v.num = num,
         NEW u, u = DeleteRepair(t, cmp, v)
  PROVE  Treated(t, u, H, K, X \ {<<f, num>>}, f, cmp, 1, 0)
<1> DEFINE b == WithSpare(t, f, num)
           n == Size(t, a)
           w == Refilled(t, cmp, v)
           c == Child(t, f, b)
           i == Absorber(num)
           d == Child(t, f, i)
<1>0. DEGREE \in Nat /\ DEGREE >= 2 BY DegreeAssumption
<1>1. /\ IsOrder(cmp) /\ Good(t, H, K, X, cmp)
      /\ f \in DOMAIN t.node /\ H[f] > 1 /\ num \in 1 .. Len(t.node[f].row)
  BY DEF Repairable
<1>2. t \in Trees(DOMAIN cmp) /\ H \in [DOMAIN t.node -> Nat] BY <1>1 DEF Good, Typed
<1>3. f # NoNode /\ Size(t, f) \in Nat /\ Size(t, f) = Len(t.node[f].row) BY <1>1, <1>2, TreeType DEF Size
<1>4. a \in DOMAIN t.node /\ a # f /\ a # t.root /\ H[a] > 0 /\ n \in Nat /\ n = Len(t.node[a].row)
  <2>1. ChildFacts(t, H, K, X, f, num, cmp) BY <1>1, ChildIs
  <2> QED BY <2>1 DEF ChildFacts, Size
<1>5. n >= DEGREE - 1 /\ n <= 2 * DEGREE
  <2>1. /\ n >= DEGREE - 1 /\ n <= 2 * DEGREE + 0
    <3> HIDE DEF n
    <3>1. /\ a # t.root => Len(t.node[a].row) >= DEGREE - 1
          /\ Len(t.node[a].row) <= 2 * DEGREE + 0
      BY <1>1, <1>4, SizeOf
    <3> QED BY <3>1, <1>4
  <2> HIDE DEF n
  <2> QED BY <2>1, <1>0, <1>4
<1>6. u = Refresh(w, f, num) BY <1>3 DEF DeleteRepair
<1>7. w = IF n >= DEGREE THEN t
          ELSE IF b # 0 THEN MoveItem(t, cmp, f, b, c, a, 1)
          ELSE Freed(RemoveChild(MoveItem(t, cmp, f, num, a, d, n), f, num), a)
  BY DEF Refilled, Merge
<1> HIDE DEF n, b, w, c, d, i
<1>8. \A k \in 1 .. Len(t.node[f].row) : k # num =>
          /\ Child(t, f, k) \in DOMAIN t.node /\ Child(t, f, k) # t.root /\ Child(t, f, k) # a
          /\ Size(t, Child(t, f, k)) \in DEGREE .. 2 * DEGREE
  <2> SUFFICES ASSUME NEW k \in 1 .. Len(t.node[f].row), k # num
               PROVE  /\ Child(t, f, k) \in DOMAIN t.node /\ Child(t, f, k) # t.root /\ Child(t, f, k) # a
                      /\ Size(t, Child(t, f, k)) \in DEGREE .. 2 * DEGREE
    OBVIOUS
  <2> DEFINE g == Child(t, f, k)
  <2>1. g \in DOMAIN t.node /\ g # t.root /\ g # a /\ H[g] > 0
    <3>1. ChildFacts(t, H, K, X, f, k, cmp) /\ Child(t, f, k) # Child(t, f, num) BY ChildIs
    <3> QED BY <3>1 DEF ChildFacts
  <2> HIDE DEF g
  <2>2. /\ Len(t.node[g].row) \in Nat
        /\ g # t.root /\ g # a => Len(t.node[g].row) >= DEGREE
        /\ g # a => Len(t.node[g].row) <= 2 * DEGREE
    BY <1>1, <2>1, SizeOf
  <2> DEFINE o == Len(t.node[g].row)
  <2>3. o \in Nat /\ o >= DEGREE /\ o <= 2 * DEGREE BY <2>1, <2>2
  <2> HIDE DEF o
  <2>4. o \in DEGREE .. 2 * DEGREE BY <2>3, <1>0
  <2> QED BY <2>1, <2>4 DEF g, o, Size
<1>9. /\ b # 0 => /\ b = num - 1 \/ b = num + 1
                  /\ b \in 1 .. Len(t.node[f].row) /\ Size(t, c) \in DEGREE + 1 .. 2 * DEGREE + 1
      /\ b = 0 => \A k \in 1 .. Len(t.node[f].row) :
                     k = num - 1 \/ k = num + 1 => Size(t, Child(t, f, k)) \notin DEGREE + 1 .. 2 * DEGREE + 1
  <2>1. b = Neighbour(t, f, num, DEGREE + 1 .. 2 * DEGREE + 1) BY DEF b, WithSpare
  <2>2. num \in 1 .. Size(t, f) BY <1>1, <1>3
  <2>3. NeighbourAt(t, f, num, DEGREE + 1 .. 2 * DEGREE + 1, b) BY <2>1, <2>2, <1>3, NeighbourIs
  <2> QED BY <2>3, <1>3 DEF c, NeighbourAt
<1>10. Treated(t, w, H, K, X, f, cmp, 1, 0)
  <2>1. CASE n >= DEGREE
    <3>1. w = t BY <2>1, <1>7
    <3>2. Treated(t, t, H, K, X, f, cmp, 1, 0)
      <4>1. Len(t.node[a].row) >= DEGREE /\ Len(t.node[a].row) <= 2 * DEGREE BY <1>4, <1>5, <2>1
      <4>2. 0 \in Nat /\ 1 \in Nat OBVIOUS
      <4> QED BY <1>4, <4>1, <4>2, TreatedAlready
    <3> QED BY <3>1, <3>2
  <2>2. CASE ~(n >= DEGREE) /\ b # 0
    <3>1. w = MoveItem(t, cmp, f, b, c, a, 1) BY <2>2, <1>7
    <3>2. n \in DEGREE - 1 .. 2 * DEGREE - 1 BY <1>0, <1>4, <1>5, <2>2
    <3>3. Len(t.node[a].row) \in DEGREE - 1 .. 2 * DEGREE - 1 BY <3>2, <1>4
    <3>4. Len(t.node[c].row) \in DEGREE + 1 .. 2 * DEGREE + 1 BY <1>9, <2>2 DEF Size
    <3>5. 0 \in Nat /\ 1 \in Nat /\ a \in {c, a} OBVIOUS
    <3>6. CASE b = num + 1
      <4>1. Pair(t, H, K, X, f, num, num, a, c, cmp)
        <5>1. Pair(t, H, K, X, f, num, num, Child(t, f, num), Child(t, f, b), cmp) BY <1>9, <2>2, <3>6, PairOf
        <5> QED BY <5>1 DEF c
      <4>2. w = MoveItem(t, cmp, f, num + 1, c, a, 1) BY <3>1, <3>6
      <4> QED BY <3>3, <3>4, <3>5, <4>1, <4>2, OneMoved
    <3>7. CASE b = num - 1
      <4>1. Pair(t, H, K, X, f, num, b, c, a, cmp)
        <5>1. Pair(t, H, K, X, f, num, b, Child(t, f, b), Child(t, f, num), cmp) BY <1>9, <2>2, <3>7, PairOf
        <5> QED BY <5>1 DEF c
      <4> QED BY <3>1, <3>3, <3>4, <3>5, <4>1, OneMoved
    <3> QED BY <3>6, <3>7, <1>9, <2>2
  <2>3. CASE ~(n >= DEGREE) /\ b = 0
    <3>1. w = Freed(RemoveChild(MoveItem(t, cmp, f, num, a, d, n), f, num), a) BY <2>3, <1>7
    <3>2. n = DEGREE - 1 BY <1>0, <1>4, <1>5, <2>3
    <3>3. i \in 1 .. Len(t.node[f].row) /\ (i = num - 1 \/ i = num + 1)
      <4>1. Len(t.node[f].row) >= 2 /\ Len(t.node[f].row) \in Nat
        <5>1. H[f] > 0 BY <1>1, <1>2
        <5>2. /\ Len(t.node[f].row) \in Nat
              /\ f # t.root /\ f # a => Len(t.node[f].row) >= DEGREE
              /\ f = t.root /\ H[f] > 1 /\ f # a => Len(t.node[f].row) >= 2
          BY <1>1, <5>1, SizeOf
        <5> QED BY <5>2, <1>0, <1>1, <1>4
      <4>2. i = IF num > 1 THEN num - 1 ELSE 2 BY DEF i, Absorber
      <4> DEFINE l == Len(t.node[f].row)
      <4>3. l \in Nat /\ l >= 2 /\ num \in 1 .. l BY <4>1, <1>1
      <4> HIDE DEF l
      <4>4. i \in 1 .. l /\ (i = num - 1 \/ i = num + 1) BY <4>2, <4>3
      <4> QED BY <4>4 DEF l
    <3>4. Size(t, d) = DEGREE
      <4> DEFINE o == Size(t, d)
      <4>1. i # num BY <3>3, <1>1
      <4>2. o \in DEGREE .. 2 * DEGREE /\ o \notin DEGREE + 1 .. 2 * DEGREE + 1
        BY <3>3, <4>1, <1>8, <1>9, <2>3 DEF d
      <4> HIDE DEF o
      <4>3. o = DEGREE BY <4>2, <1>0
      <4> QED BY <4>3 DEF o
    <3>5. /\ n + Size(t, d) \in DEGREE .. 2 * DEGREE
          /\ Size(t, d) + n \in DEGREE .. 2 * DEGREE
      BY <3>2, <3>4, <1>0
    <3>6. Len(t.node[a].row) = n /\ Len(t.node[d].row) = Size(t, d) BY <1>4 DEF Size
    <3>7. w = Freed(RemoveChild(MoveItem(t, cmp, f, num, a, d, Size(t, a)), f, num), a) BY <3>1 DEF n
    <3>8. CASE i = num + 1
      <4>1. Pair(t, H, K, X, f, num, num, a, d, cmp)
        <5>1. Pair(t, H, K, X, f, num, num, Child(t, f, num), Child(t, f, i), cmp) BY <3>3, <3>8, PairOf
        <5> QED BY <5>1 DEF d
      <4>2. Len(t.node[a].row) + Len(t.node[d].row) \in DEGREE .. 2 * DEGREE BY <3>5, <3>6
      <4>3. a \in {a, d} OBVIOUS
      <4>4. Merges(t, w, cmp, f, num, a, d) BY <3>7 DEF Merges
      <4> HIDE DEF d, w
      <4> QED BY <1>1, <4>1, <4>2, <4>3, <4>4, MergeTreated
    <3>9. CASE i = num - 1
      <4>1. Pair(t, H, K, X, f, num, i, d, a, cmp) /\ i + 1 = num
        <5>1. Pair(t, H, K, X, f, num, i, Child(t, f, i), Child(t, f, num), cmp) /\ i + 1 = num BY <3>3, <3>9, PairOf
        <5> QED BY <5>1 DEF d
      <4>2. Len(t.node[d].row) + Len(t.node[a].row) \in DEGREE .. 2 * DEGREE BY <3>5, <3>6
      <4>3. a \in {d, a} OBVIOUS
      <4>4. w = Freed(RemoveChild(MoveItem(t, cmp, f, i + 1, a, d, Size(t, a)), f, i + 1), a) BY <3>7, <4>1
      <4>5. Merges(t, w, cmp, f, i, d, a) BY <4>4 DEF Merges
      <4> HIDE DEF d, w
      <4> QED BY <1>1, <4>1, <4>2, <4>3, <4>5, MergeTreated
    <3> QED BY <3>3, <3>8, <3>9
  <2> QED BY <2>1, <2>2, <2>3
<1> QED BY <1>6, <1>10, TreatedThenRefreshed

=============================================================================
