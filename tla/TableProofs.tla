---------------------------- MODULE TableProofs ----------------------------
(***************************************************************************)
(* Theorems about Table for every page size, every number of buckets and of *)
(* addresses in a map page, every content and every set of item sizes.      *)
(***************************************************************************)
EXTENDS Table, BlockOpsProofs, SequenceTheorems, WellFoundedInduction, TLAPS

-----------------------------------------------------------------------------
(* Induction over numbers, stated for sets: to show something of every      *)
(* number, collect the numbers it holds of.                                 *)

(* A set of numbers with 0 and with the successor of each is all of them.   *)
LEMMA SetInduction ==
  ASSUME NEW S \in SUBSET Nat, 0 \in S, \A n \in S : n + 1 \in S
  PROVE  S = Nat
<1> SUFFICES ASSUME Nat \ S # {} PROVE FALSE
  OBVIOUS
<1>1. PICK x \in Nat \ S : \A y \in Nat \ S : ~(<<y, x>> \in OpToRel(<, Nat))
  <2>1. Nat \ S \subseteq Nat OBVIOUS
  <2> QED BY <2>1, NatLessThanWellFounded, WFMin, Zenon
<1>2. x # 0 OBVIOUS
<1>3. x - 1 \in Nat /\ x - 1 < x BY <1>2
<1>4. x - 1 \in S BY <1>1, <1>3 DEF OpToRel
<1>5. x - 1 + 1 = x OBVIOUS
<1> QED BY <1>4, <1>5

-----------------------------------------------------------------------------
(* The free space map: what the functions of hash_map.c do to any sound map, *)
(* for every number of buckets and every page size.                          *)


-----------------------------------------------------------------------------
(* Chains.                                                                 *)

\* A function on pages that follows their links the way Chain does.
Follows(h, f) ==
    f = [q \in 0 .. Len(h.maps) |->
            IF q = NoPage THEN <<>> ELSE <<q>> \o f[h.maps[q].next]]

(* When some function follows the links, Chain is one that does.            *)
LEMMA ChainFollows ==
  ASSUME NEW h, NEW g, Follows(h, g)
  PROVE  \E f : Follows(h, f) /\ \A p : Chain(h, p) = f[p]
<1> DEFINE f == CHOOSE f : Follows(h, f)
<1>1. Follows(h, f) OBVIOUS
<1>2. \A p : Chain(h, p) = f[p] BY Zenon DEF Chain, Follows
<1> QED BY <1>1, <1>2

(* The pages of a map are numbered from 1.                                  *)
LEMMA MapTypes ==
  ASSUME NEW A, NEW h, IsMap(h, A)
  PROVE  /\ Len(h.maps) \in Nat /\ DOMAIN h.maps = 1 .. Len(h.maps)
         /\ h.maps \in Seq([next : Nat, table : Seq(A)])
         /\ \A p \in DOMAIN h.maps :
               /\ h.maps[p] = [next |-> h.maps[p].next, table |-> h.maps[p].table]
               /\ h.maps[p].next \in Nat /\ h.maps[p].table \in Seq(A)
               /\ Len(h.maps[p].table) \in Nat
               /\ DOMAIN h.maps[p].table = 1 .. Len(h.maps[p].table)
<1> DEFINE P == [next : Nat, table : Seq(A)]
<1>1. h.maps \in Seq(P) BY DEF IsMap
<1>2. Len(h.maps) \in Nat /\ DOMAIN h.maps = 1 .. Len(h.maps) BY <1>1, LenProperties
<1>3. ASSUME NEW p \in DOMAIN h.maps
      PROVE  /\ h.maps[p] = [next |-> h.maps[p].next, table |-> h.maps[p].table]
             /\ h.maps[p].next \in Nat /\ h.maps[p].table \in Seq(A)
             /\ Len(h.maps[p].table) \in Nat
             /\ DOMAIN h.maps[p].table = 1 .. Len(h.maps[p].table)
  <2>1. h.maps[p] \in P BY <1>1, <1>2, ElementOfSeq
  <2>2. h.maps[p].table \in Seq(A) BY <2>1
  <2> QED BY <2>1, <2>2, LenProperties
<1> QED BY <1>1, <1>2, <1>3

(* The types of one page of a map.                                          *)
LEMMA MapPage ==
  ASSUME NEW A, NEW h, IsMap(h, A), NEW p \in DOMAIN h.maps
  PROVE  /\ h.maps[p].next \in Nat /\ h.maps[p].table \in Seq(A)
         /\ Len(h.maps[p].table) \in Nat
         /\ DOMAIN h.maps[p].table = 1 .. Len(h.maps[p].table)
<1> DEFINE P == [next : Nat, table : Seq(A)]
<1>1. h.maps \in Seq(P) BY DEF IsMap
<1>2. h.maps[p] \in P BY <1>1, ElementOfSeq, LenProperties
<1>3. h.maps[p].next \in Nat /\ h.maps[p].table \in Seq(A) BY <1>2
<1> QED BY <1>3, LenProperties

(* A page is a link and a table, and nothing else.                          *)
LEMMA MapRecord ==
  ASSUME NEW A, NEW h, IsMap(h, A), NEW p \in DOMAIN h.maps
  PROVE  h.maps[p] = [next |-> h.maps[p].next, table |-> h.maps[p].table]
BY MapTypes

(* Where a page is: the rest of its list from there on.                     *)
LEMMA SomethingFollows ==
  ASSUME NEW A, NEW h, IsMap(h, A), NEW L, Layout(h, L)
  PROVE  \E g : Follows(h, g)
<1> DEFINE D == DOMAIN h.maps
           Place(q) == CHOOSE w \in (0 .. MaxSize) \X Nat :
                          w[2] \in DOMAIN L[w[1]] /\ L[w[1]][w[2]] = q
           Rest(w) == SubSeq(L[w[1]], w[2], Len(L[w[1]]))
           g == [q \in 0 .. Len(h.maps) |-> IF q = NoPage THEN <<>> ELSE Rest(Place(q))]
<1>0. Len(h.maps) \in Nat /\ D = 1 .. Len(h.maps) BY MapTypes
<1>1. ASSUME NEW m \in 0 .. MaxSize, NEW i \in DOMAIN L[m]
      PROVE  /\ L[m] \in Seq(D) /\ Len(L[m]) \in Nat /\ i \in 1 .. Len(L[m])
             /\ L[m][i] \in D /\ L[m][i] \in 0 .. Len(h.maps) /\ L[m][i] # NoPage
             /\ g[L[m][i]] = SubSeq(L[m], i, Len(L[m]))
  <2>1. L[m] \in Seq(D) BY DEF Layout
  <2>2. Len(L[m]) \in Nat /\ i \in 1 .. Len(L[m]) BY <2>1, LenProperties
  <2>3. L[m][i] \in D BY <2>1, <2>2, ElementOfSeq
  <2>4. L[m][i] \in 0 .. Len(h.maps) /\ L[m][i] # NoPage
    <3> HIDE DEF D
    <3> QED BY <1>0, <2>3 DEF NoPage
  <2>5. Place(L[m][i]) = <<m, i>>
    <3>1. <<m, i>> \in (0 .. MaxSize) \X Nat BY <2>2
    <3>2. ASSUME NEW w \in (0 .. MaxSize) \X Nat, w[2] \in DOMAIN L[w[1]],
                 L[w[1]][w[2]] = L[m][i]
          PROVE  w = <<m, i>>
      <4>1. w[1] = m /\ w[2] = i BY <3>2 DEF Layout
      <4> QED BY <4>1
    <3> QED BY <3>1, <3>2
  <2>6. g[L[m][i]] = Rest(Place(L[m][i]))
    <3> HIDE DEF Place, Rest
    <3> QED BY <2>4
  <2>7. Rest(<<m, i>>) = SubSeq(L[m], i, Len(L[m])) OBVIOUS
  <2> HIDE DEF Place, Rest, g
  <2>8. g[L[m][i]] = SubSeq(L[m], i, Len(L[m])) BY <2>5, <2>6, <2>7
  <2> QED BY <2>1, <2>2, <2>3, <2>4, <2>8
<1>2. g[NoPage] = <<>>
  <2> HIDE DEF Place, Rest
  <2> QED BY <1>0 DEF NoPage
<1> HIDE DEF g
<1>3. ASSUME NEW q \in 0 .. Len(h.maps), q # NoPage
      PROVE  g[q] = <<q>> \o g[h.maps[q].next]
  <2>1. PICK m \in 0 .. MaxSize : \E i \in DOMAIN L[m] : L[m][i] = q
    <3>1. q \in DOMAIN h.maps BY <1>3, MapTypes DEF NoPage
    <3> QED BY <3>1 DEF Layout
  <2>2. PICK i \in DOMAIN L[m] : L[m][i] = q BY <2>1
  <2>3. h.maps[q].next = IF i = Len(L[m]) THEN NoPage ELSE L[m][i + 1]
    BY <2>2 DEF Layout
  <2>4. g[q] = <<q>> \o SubSeq(L[m], i + 1, Len(L[m]))
    <3>1. i \in 1 .. Len(L[m]) /\ Len(L[m]) \in i .. Len(L[m]) /\ L[m] \in Seq(D)
      BY <1>1
    <3>2. SubSeq(L[m], i, Len(L[m])) = <<L[m][i]>> \o SubSeq(L[m], i + 1, Len(L[m]))
      BY <3>1, SubSeqRecursiveFirst
    <3> QED BY <1>1, <2>2, <3>2
  <2>5. g[h.maps[q].next] = SubSeq(L[m], i + 1, Len(L[m]))
    <3>1. CASE i = Len(L[m])
      <4>1. Len(L[m]) \in Int /\ i + 1 \in Int /\ Len(L[m]) < i + 1 BY <1>1, <3>1
      <4> QED BY <1>2, <2>3, <3>1, <4>1, SubSeqEmpty
    <3>2. CASE i # Len(L[m])
      <4>1. i + 1 \in DOMAIN L[m]
        <5>1. Len(L[m]) \in Nat /\ i \in 1 .. Len(L[m]) /\ L[m] \in Seq(D) BY <1>1
        <5>2. i + 1 \in 1 .. Len(L[m]) BY <3>2, <5>1
        <5> QED BY <5>1, <5>2, LenProperties
      <4> QED BY <1>1, <2>3, <3>2, <4>1
    <3> QED BY <3>1, <3>2
  <2> QED BY <2>4, <2>5
<1>4. g = [q \in 0 .. Len(h.maps) |-> g[q]]
  <2> HIDE DEF Place, Rest
  <2> QED BY DEF g
<1>5. Follows(h, g)
  <2>1. \A q \in 0 .. Len(h.maps) :
           g[q] = IF q = NoPage THEN <<>> ELSE <<q>> \o g[h.maps[q].next]
    BY <1>2, <1>3
  <2> QED BY <1>4, <2>1 DEF Follows
<1> QED BY <1>5

(* The walk along the links of a list is the list.                          *)
LEMMA ChainIsList ==
  ASSUME NEW A, NEW h, IsMap(h, A), NEW L, Layout(h, L), NEW m \in 0 .. MaxSize
  PROVE  Chain(h, First(h, m)) = L[m]
<1> DEFINE D == DOMAIN h.maps
           n == Len(L[m])
<1>1. PICK f : Follows(h, f) /\ \A p : Chain(h, p) = f[p]
  BY SomethingFollows, ChainFollows
<1>2. L[m] \in Seq(D) /\ n \in Nat /\ DOMAIN L[m] = 1 .. n
  BY LenProperties DEF Layout
<1>3. f[NoPage] = <<>>
  <2> DEFINE N == Len(h.maps)
  <2>1. N \in Nat BY MapTypes
  <2>2. NoPage \in 0 .. N
    <3> HIDE DEF N
    <3> QED BY <2>1 DEF NoPage
  <2> QED BY <1>1, <2>2 DEF Follows
<1>4. \A i \in 1 .. n : f[L[m][i]] = <<L[m][i]>> \o f[h.maps[L[m][i]].next]
  <2> SUFFICES ASSUME NEW i \in 1 .. n
               PROVE  f[L[m][i]] = <<L[m][i]>> \o f[h.maps[L[m][i]].next]
    OBVIOUS
  <2>1. L[m][i] \in D BY <1>2, ElementOfSeq
  <2>2. L[m][i] \in 0 .. Len(h.maps) /\ L[m][i] # NoPage
    <3>1. Len(h.maps) \in Nat /\ D = 1 .. Len(h.maps) BY MapTypes
    <3> HIDE DEF D
    <3> QED BY <2>1, <3>1 DEF NoPage
  <2>3. f[L[m][i]] = IF L[m][i] = NoPage THEN <<>> ELSE <<L[m][i]>> \o f[h.maps[L[m][i]].next]
    <3> DEFINE q == L[m][i]
    <3> HIDE DEF q
    <3> QED BY <1>1, <2>2, Zenon DEF Follows
  <2> QED BY <2>2, <2>3, Zenon
<1> DEFINE S == {d \in Nat : \A i \in 1 .. n : n - i = d => f[L[m][i]] = SubSeq(L[m], i, n)}
<1>5. 0 \in S
  <2> SUFFICES ASSUME NEW i \in 1 .. n, n - i = 0 PROVE f[L[m][i]] = SubSeq(L[m], i, n)
    OBVIOUS
  <2>1. i = n /\ n \in 1 .. n /\ n \in n .. n /\ n + 1 \in Int /\ n < n + 1 BY <1>2
  <2>2. h.maps[L[m][i]].next = NoPage
    <3>1. \A k \in DOMAIN L[m] :
             h.maps[L[m][k]].next = IF k = Len(L[m]) THEN NoPage ELSE L[m][k + 1]
      BY DEF Layout
    <3> QED BY <1>2, <2>1, <3>1
  <2>3. SubSeq(L[m], n, n) = <<L[m][n]>> \o SubSeq(L[m], n + 1, n)
    BY <1>2, <2>1, SubSeqRecursiveFirst
  <2>4. SubSeq(L[m], n + 1, n) = <<>> BY <1>2, <2>1, SubSeqEmpty
  <2> HIDE DEF n
  <2> QED BY <1>3, <1>4, <2>1, <2>2, <2>3, <2>4
<1>6. ASSUME NEW d \in S PROVE d + 1 \in S
  <2> SUFFICES ASSUME NEW i \in 1 .. n, n - i = d + 1 PROVE f[L[m][i]] = SubSeq(L[m], i, n)
    OBVIOUS
  <2>1. i + 1 \in 1 .. n /\ n - (i + 1) = d /\ i # n /\ n \in i .. n BY <1>2
  <2>2. h.maps[L[m][i]].next = L[m][i + 1]
    <3>1. \A k \in DOMAIN L[m] :
             h.maps[L[m][k]].next = IF k = Len(L[m]) THEN NoPage ELSE L[m][k + 1]
      BY DEF Layout
    <3> QED BY <1>2, <2>1, <3>1
  <2>3. SubSeq(L[m], i, n) = <<L[m][i]>> \o SubSeq(L[m], i + 1, n)
    BY <1>2, <2>1, SubSeqRecursiveFirst
  <2>4. f[L[m][i + 1]] = SubSeq(L[m], i + 1, n) BY <2>1
  <2> HIDE DEF n
  <2> QED BY <1>4, <2>2, <2>3, <2>4
<1>7. S = Nat
  <2>1. S \in SUBSET Nat OBVIOUS
  <2> HIDE DEF S
  <2> QED BY <1>5, <1>6, <2>1, SetInduction
<1>8. CASE L[m] = <<>> BY <1>1, <1>3, <1>8 DEF Layout
<1>9. CASE L[m] # <<>>
  <2>1. 1 \in 1 .. n /\ n - 1 \in Nat BY <1>2, <1>9, EmptySeq
  <2>2. n - 1 \in S BY <1>7, <2>1
  <2>3. f[L[m][1]] = SubSeq(L[m], 1, n) BY <2>1, <2>2
  <2>4. SubSeq(L[m], 1, n) = L[m] BY <1>2, SubSeqFull
  <2> QED BY <1>1, <1>9, <2>3, <2>4 DEF Layout
<1> QED BY <1>8, <1>9

(* The lists of a layout are sequences of pages.                            *)
LEMMA ListTypes ==
  ASSUME NEW h, NEW L, Layout(h, L), NEW m \in 0 .. MaxSize
  PROVE  /\ L[m] \in Seq(DOMAIN h.maps) /\ Len(L[m]) \in Nat
         /\ DOMAIN L[m] = 1 .. Len(L[m])
         /\ \A i \in 1 .. Len(L[m]) : L[m][i] \in DOMAIN h.maps
         /\ L[m] # <<>> => 1 \in 1 .. Len(L[m]) /\ Len(L[m]) \in 1 .. Len(L[m])
<1>1. L[m] \in Seq(DOMAIN h.maps) BY DEF Layout
<1>2. Len(L[m]) \in Nat /\ DOMAIN L[m] = 1 .. Len(L[m]) BY <1>1, LenProperties
<1>3. \A i \in 1 .. Len(L[m]) : L[m][i] \in DOMAIN h.maps BY <1>1, ElementOfSeq
<1>4. L[m] # <<>> => 1 \in 1 .. Len(L[m]) /\ Len(L[m]) \in 1 .. Len(L[m])
  <2>1. L[m] # <<>> => Len(L[m]) \in Nat \ {0} BY <1>1, EmptySeq
  <2> QED BY <2>1
<1> QED BY <1>1, <1>2, <1>3, <1>4

(* What the functions of hash_map.c see of a layout: its lists.             *)
LEMMA BucketIsList ==
  ASSUME NEW A, NEW h, IsMap(h, A), NEW L, Layout(h, L), NEW m \in 0 .. MaxSize - 1
  PROVE  /\ Bucket(h, m) = L[m]
         /\ h.dir[m] = NoEntry <=> L[m] = <<>>
         /\ L[m] # <<>> => h.dir[m] = L[m][1]
<1>0. m \in 0 .. MaxSize /\ m # MaxSize BY HashMapAssumption
<1>1. Len(h.maps) \in Nat /\ DOMAIN h.maps = 1 .. Len(h.maps) BY MapTypes
<1>2. /\ First(h, m) = IF L[m] = <<>> THEN NoPage ELSE L[m][1]
      /\ L[m] # <<>> => L[m][1] \in DOMAIN h.maps /\ L[m][1] # NoPage
  <2>1. L[m] # <<>> => L[m][1] \in DOMAIN h.maps BY <1>0, ListTypes
  <2> QED BY <1>0, <1>1, <2>1 DEF Layout, NoPage
<1>3. First(h, m) = IF h.dir[m] = NoEntry THEN NoPage ELSE h.dir[m] BY <1>0 DEF First
<1>4. h.dir[m] = NoEntry \/ h.dir[m] \in DOMAIN h.maps BY DEF IsMap
<1>5. h.dir[m] = NoEntry <=> L[m] = <<>>
  BY <1>1, <1>2, <1>3, <1>4 DEF NoPage, NoEntry
<1>6. Chain(h, First(h, m)) = L[m] BY <1>0, ChainIsList
<1> QED BY <1>2, <1>3, <1>5, <1>6 DEF Bucket

(* What the free list is in terms of the lists: the last of them, headed by *)
(* the page named free.                                                     *)
LEMMA FreeIsList ==
  ASSUME NEW A, NEW h, IsMap(h, A), NEW L, Layout(h, L)
  PROVE  /\ FreeList(h) = L[MaxSize]
         /\ h.free = NoPage <=> L[MaxSize] = <<>>
         /\ L[MaxSize] # <<>> => h.free = L[MaxSize][1]
<1>0. MaxSize \in 0 .. MaxSize BY HashMapAssumption
<1>1. Len(h.maps) \in Nat /\ DOMAIN h.maps = 1 .. Len(h.maps) BY MapTypes
<1>2. h.free = IF L[MaxSize] = <<>> THEN NoPage ELSE L[MaxSize][1]
  BY <1>0 DEF Layout, First
<1>3. L[MaxSize] # <<>> => L[MaxSize][1] \in DOMAIN h.maps /\ L[MaxSize][1] # NoPage
  <2>1. L[MaxSize] # <<>> => L[MaxSize][1] \in DOMAIN h.maps BY <1>0, ListTypes
  <2> QED BY <1>1, <2>1 DEF NoPage
<1>4. Chain(h, First(h, MaxSize)) = L[MaxSize] BY <1>0, ChainIsList
<1> QED BY <1>2, <1>3, <1>4 DEF FreeList, First

-----------------------------------------------------------------------------
(* Moving pages between lists.                                             *)

\* The first free page becomes the last of bucket m.
Taken(L, m) ==
    [j \in 0 .. MaxSize |-> IF j = m THEN Append(L[m], L[MaxSize][1])
                            ELSE IF j = MaxSize THEN Tail(L[MaxSize]) ELSE L[j]]

(* The two lists that change when bucket m takes a page, element by element.*)
LEMMA TakenLists ==
  ASSUME NEW h, NEW L, Layout(h, L), NEW m \in 0 .. MaxSize - 1, L[MaxSize] # <<>>
  PROVE  LET K == Taken(L, m)
             D == DOMAIN h.maps
         IN  /\ K[m] \in Seq(D) /\ Len(K[m]) = Len(L[m]) + 1 /\ K[m] # <<>>
             /\ DOMAIN K[m] = 1 .. Len(L[m]) + 1
             /\ \A i \in 1 .. Len(L[m]) : K[m][i] = L[m][i]
             /\ K[m][Len(L[m]) + 1] = L[MaxSize][1]
             /\ K[MaxSize] \in Seq(D) /\ Len(K[MaxSize]) = Len(L[MaxSize]) - 1
             /\ DOMAIN K[MaxSize] = 1 .. Len(L[MaxSize]) - 1
             /\ \A i \in 1 .. Len(L[MaxSize]) - 1 : K[MaxSize][i] = L[MaxSize][i + 1]
             /\ \A j \in 0 .. MaxSize : j # m /\ j # MaxSize => K[j] = L[j]
<1> DEFINE D == DOMAIN h.maps
           p == L[MaxSize][1]
<1>0. MaxSize \in Nat /\ MaxSize \in 0 .. MaxSize /\ m \in 0 .. MaxSize /\ m # MaxSize
  BY HashMapAssumption
<1>1. L[m] \in Seq(D) /\ L[MaxSize] \in Seq(D) /\ p \in D /\ Len(L[MaxSize]) \in Nat
  BY <1>0, ListTypes
<1>2. /\ Append(L[m], p) \in Seq(D) /\ Append(L[m], p) # <<>>
      /\ Len(Append(L[m], p)) = Len(L[m]) + 1
      /\ \A i \in 1 .. Len(L[m]) : Append(L[m], p)[i] = L[m][i]
      /\ Append(L[m], p)[Len(L[m]) + 1] = p
  <2> HIDE DEF D, p
  <2> QED BY <1>1, AppendProperties
<1>3. /\ Tail(L[MaxSize]) \in Seq(D) /\ Len(Tail(L[MaxSize])) = Len(L[MaxSize]) - 1
      /\ \A i \in 1 .. Len(Tail(L[MaxSize])) : Tail(L[MaxSize])[i] = L[MaxSize][i + 1]
  <2> HIDE DEF D
  <2> QED BY <1>1, HeadTailProperties
<1>4. DOMAIN Append(L[m], p) = 1 .. Len(L[m]) + 1 BY <1>2, LenProperties
<1>5. DOMAIN Tail(L[MaxSize]) = 1 .. Len(L[MaxSize]) - 1 BY <1>3, LenProperties
<1>6. /\ Taken(L, m)[m] = Append(L[m], p)
      /\ Taken(L, m)[MaxSize] = Tail(L[MaxSize])
      /\ \A j \in 0 .. MaxSize : j # m /\ j # MaxSize => Taken(L, m)[j] = L[j]
  BY <1>0 DEF Taken
<1> QED BY <1>2, <1>3, <1>4, <1>5, <1>6

(* A layout in numbers.                                                     *)
LEMMA LayoutFacts ==
  ASSUME NEW h, NEW L, Layout(h, L), NEW j \in 0 .. MaxSize
  PROVE  /\ L[j] = <<>> <=> Len(L[j]) = 0
         /\ Len(L[j]) = 0 => First(h, j) = NoPage
         /\ Len(L[j]) # 0 => First(h, j) = L[j][1]
         /\ \A i \in 1 .. Len(L[j]) - 1 : h.maps[L[j][i]].next = L[j][i + 1]
         /\ Len(L[j]) # 0 => h.maps[L[j][Len(L[j])]].next = NoPage
<1>1. L[j] \in Seq(DOMAIN h.maps) /\ Len(L[j]) \in Nat /\ DOMAIN L[j] = 1 .. Len(L[j])
  BY ListTypes
<1>2. L[j] = <<>> <=> Len(L[j]) = 0 BY <1>1, EmptySeq
<1>3. First(h, j) = IF L[j] = <<>> THEN NoPage ELSE L[j][1] BY Zenon DEF Layout
<1>4. \A i \in 1 .. Len(L[j]) :
         h.maps[L[j][i]].next = IF i = Len(L[j]) THEN NoPage ELSE L[j][i + 1]
  <2>1. \A i \in DOMAIN L[j] :
           h.maps[L[j][i]].next = IF i = Len(L[j]) THEN NoPage ELSE L[j][i + 1]
    BY DEF Layout
  <2> QED BY <1>1, <2>1
<1>6. \A i \in 1 .. Len(L[j]) - 1 : h.maps[L[j][i]].next = L[j][i + 1]
  <2> SUFFICES ASSUME NEW i \in 1 .. Len(L[j]) - 1
               PROVE  h.maps[L[j][i]].next = L[j][i + 1]
    OBVIOUS
  <2>1. i \in 1 .. Len(L[j]) /\ i # Len(L[j]) BY <1>1
  <2> QED BY <1>4, <2>1
<1>7. Len(L[j]) # 0 => h.maps[L[j][Len(L[j])]].next = NoPage
  <2>1. Len(L[j]) # 0 => Len(L[j]) \in 1 .. Len(L[j]) BY <1>1
  <2> QED BY <1>4, <2>1
<1> QED BY <1>2, <1>3, <1>6, <1>7

(* No page is in two places.                                                *)
LEMMA OnePlace ==
  ASSUME NEW h, NEW L, Layout(h, L), NEW j \in 0 .. MaxSize, NEW l \in 0 .. MaxSize,
         NEW i \in 1 .. Len(L[j]), NEW k \in 1 .. Len(L[l]), L[j][i] = L[l][k]
  PROVE  j = l /\ i = k
<1>1. i \in DOMAIN L[j] /\ k \in DOMAIN L[l] BY ListTypes
<1> QED BY <1>1 DEF Layout

\* List j has an i-th page.
OnList(L, j, i) == j \in 0 .. MaxSize /\ i \in 1 .. Len(L[j])

(* The same, of places given as terms.                                      *)
LEMMA SamePlace ==
  ASSUME NEW h, NEW L, Layout(h, L), NEW j, NEW i, NEW l, NEW k,
         OnList(L, j, i), OnList(L, l, k), L[j][i] = L[l][k]
  PROVE  j = l /\ i = k
BY OnePlace DEF OnList

(* How a layout is shown: list by list, page by page.                       *)
Linked(h, L) ==
    \A j \in 0 .. MaxSize :
        /\ L[j] \in Seq(DOMAIN h.maps)
        /\ Len(L[j]) = 0 => First(h, j) = NoPage
        /\ Len(L[j]) # 0 => First(h, j) = L[j][1]
        /\ \A i \in 1 .. Len(L[j]) - 1 : h.maps[L[j][i]].next = L[j][i + 1]
        /\ Len(L[j]) # 0 => h.maps[L[j][Len(L[j])]].next = NoPage
Placed(h, L) ==
    \A q \in DOMAIN h.maps : \E j \in 0 .. MaxSize : \E i \in 1 .. Len(L[j]) : L[j][i] = q
Apart(L) ==
    \A j, l \in 0 .. MaxSize : \A i \in 1 .. Len(L[j]), k \in 1 .. Len(L[l]) :
        L[j][i] = L[l][k] => j = l /\ i = k

(* Lists that are linked, hold every page and are apart are the lists of    *)
(* the map.                                                                 *)
LEMMA LayoutBy ==
  ASSUME NEW h, NEW L, Linked(h, L), Placed(h, L), Apart(L)
  PROVE  Layout(h, L)
<1> USE DEF Linked, Placed, Apart
<1>1. ASSUME NEW j \in 0 .. MaxSize
      PROVE  /\ DOMAIN L[j] = 1 .. Len(L[j]) /\ Len(L[j]) \in Nat
             /\ L[j] = <<>> <=> Len(L[j]) = 0
  BY LenProperties, EmptySeq
<1>2. ASSUME NEW j \in 0 .. MaxSize
      PROVE  /\ L[j] \in Seq(DOMAIN h.maps)
             /\ First(h, j) = IF L[j] = <<>> THEN NoPage ELSE L[j][1]
             /\ \A i \in DOMAIN L[j] :
                   h.maps[L[j][i]].next = IF i = Len(L[j]) THEN NoPage ELSE L[j][i + 1]
  <2>1. First(h, j) = IF L[j] = <<>> THEN NoPage ELSE L[j][1] BY <1>1
  <2>2. ASSUME NEW i \in 1 .. Len(L[j])
        PROVE  h.maps[L[j][i]].next = IF i = Len(L[j]) THEN NoPage ELSE L[j][i + 1]
    <3>1. Len(L[j]) \in Nat BY <1>1
    <3>2. CASE i = Len(L[j])
      <4>1. Len(L[j]) # 0 BY <3>1, <3>2
      <4> QED BY <3>2, <4>1
    <3>3. CASE i # Len(L[j])
      <4>1. i \in 1 .. Len(L[j]) - 1 BY <3>1, <3>3
      <4> QED BY <3>3, <4>1
    <3> QED BY <3>2, <3>3
  <2> QED BY <1>1, <2>1, <2>2
<1>3. ASSUME NEW q \in DOMAIN h.maps
      PROVE  \E j \in 0 .. MaxSize : \E i \in DOMAIN L[j] : L[j][i] = q
  <2>1. PICK j \in 0 .. MaxSize : \E i \in 1 .. Len(L[j]) : L[j][i] = q OBVIOUS
  <2>2. DOMAIN L[j] = 1 .. Len(L[j]) BY <1>1
  <2> QED BY <2>1, <2>2
<1>4. ASSUME NEW j \in 0 .. MaxSize, NEW l \in 0 .. MaxSize,
             NEW i \in DOMAIN L[j], NEW k \in DOMAIN L[l], L[j][i] = L[l][k]
      PROVE  j = l /\ i = k
  <2>1. i \in 1 .. Len(L[j]) /\ k \in 1 .. Len(L[l]) BY <1>1
  <2> QED BY <1>4, <2>1
<1> QED BY Zenon, <1>2, <1>3, <1>4 DEF Layout

(* The layout after hash_table_insert has hung a free page on bucket m.     *)
LEMMA TakenLayout ==
  ASSUME NEW h, NEW L, Layout(h, L), NEW m \in 0 .. MaxSize - 1, L[MaxSize] # <<>>,
         NEW g, DOMAIN g.maps = DOMAIN h.maps,
         First(g, MaxSize) = h.maps[L[MaxSize][1]].next,
         L[m] = <<>> => First(g, m) = L[MaxSize][1],
         L[m] # <<>> => First(g, m) = First(h, m),
         \A j \in 0 .. MaxSize - 1 : j # m => First(g, j) = First(h, j),
         g.maps[L[MaxSize][1]].next = NoPage,
         L[m] # <<>> => g.maps[L[m][Len(L[m])]].next = L[MaxSize][1],
         \A q \in DOMAIN h.maps :
            q # L[MaxSize][1] /\ (L[m] = <<>> \/ q # L[m][Len(L[m])])
               => g.maps[q].next = h.maps[q].next
  PROVE  Layout(g, Taken(L, m))
<1> DEFINE D == DOMAIN h.maps
           F == L[MaxSize]
           B == L[m]
           p == F[1]
           K == Taken(L, m)
           b == Len(B)
           c == Len(F)
<1>0. MaxSize \in Nat /\ MaxSize \in 0 .. MaxSize /\ m \in 0 .. MaxSize /\ m # MaxSize
  BY HashMapAssumption
<1>1. b \in Nat /\ c \in Nat \ {0} /\ (B = <<>> <=> b = 0)
  BY <1>0, ListTypes, LayoutFacts
<1>2. /\ K[m] \in Seq(D) /\ Len(K[m]) = b + 1
      /\ \A i \in 1 .. b : K[m][i] = B[i]
      /\ K[m][b + 1] = p
      /\ K[MaxSize] \in Seq(D) /\ Len(K[MaxSize]) = c - 1
      /\ \A i \in 1 .. c - 1 : K[MaxSize][i] = F[i + 1]
      /\ \A j \in 0 .. MaxSize : j # m /\ j # MaxSize => K[j] = L[j]
  BY TakenLists
<1>3. ASSUME NEW j \in 0 .. MaxSize, NEW i \in 1 .. Len(L[j]), j # MaxSize \/ i # 1,
             j # m \/ i # b
      PROVE  g.maps[L[j][i]].next = h.maps[L[j][i]].next
  <2>1. L[j][i] \in D BY ListTypes
  <2>2. L[j][i] # p
    <3> SUFFICES ASSUME L[j][i] = p PROVE FALSE OBVIOUS
    <3>1. 1 \in 1 .. Len(L[MaxSize]) BY <1>1
    <3>2. j = MaxSize /\ i = 1 BY <1>0, <3>1, OnePlace
    <3> QED BY <1>3, <3>2
  <2>3. b # 0 => L[j][i] # B[b]
    <3> SUFFICES ASSUME b # 0, L[j][i] = B[b] PROVE FALSE OBVIOUS
    <3>1. b \in 1 .. Len(L[m]) BY <1>1
    <3>2. j = m /\ i = b BY <1>0, <3>1, OnePlace
    <3> QED BY <1>3, <3>2
  <2> QED BY Zenon, <1>1, <2>1, <2>2, <2>3
<1>4. ASSUME NEW j \in 0 .. MaxSize
      PROVE  /\ K[j] \in Seq(D)
             /\ Len(K[j]) = 0 => First(g, j) = NoPage
             /\ Len(K[j]) # 0 => First(g, j) = K[j][1]
             /\ \A i \in 1 .. Len(K[j]) - 1 : g.maps[K[j][i]].next = K[j][i + 1]
             /\ Len(K[j]) # 0 => g.maps[K[j][Len(K[j])]].next = NoPage
  <2>1. CASE j = m
    <3>1. b = 0 => First(g, m) = p BY <1>1
    <3>2. b # 0 => First(g, m) = B[1] BY <1>0, <1>1, LayoutFacts
    <3>3. First(g, m) = K[m][1]
      <4>1. b # 0 => 1 \in 1 .. b BY <1>1
      <4>2. b = 0 => b + 1 = 1 BY <1>1
      <4> HIDE DEF b, B, p, K, D, F
      <4> QED BY <1>2, <3>1, <3>2, <4>1, <4>2
    <3>4. ASSUME NEW i \in 1 .. b PROVE g.maps[K[m][i]].next = K[m][i + 1]
      <4>1. CASE i = b
        <5>1. b # 0 BY <1>1, <4>1
        <5>2. g.maps[B[b]].next = p BY <1>1, <5>1
        <5> QED BY <1>2, <4>1, <5>2
      <4>2. CASE i # b
        <5>1. i \in 1 .. b - 1 /\ i + 1 \in 1 .. b BY <1>1, <4>2
        <5>2. h.maps[B[i]].next = B[i + 1] BY <1>0, <5>1, LayoutFacts
        <5>3. g.maps[B[i]].next = h.maps[B[i]].next BY <1>0, <1>3, <4>2
        <5> QED BY <1>2, <5>1, <5>2, <5>3
      <4> QED BY <4>1, <4>2
    <3>5. b + 1 # 0 /\ b + 1 - 1 = b BY <1>1
    <3>6. g.maps[K[m][b + 1]].next = NoPage BY <1>2
    <3> HIDE DEF b, B, p, K, D, F
    <3>7. Len(K[m]) = b + 1 BY <1>2
    <3>8. Len(K[m]) # 0 /\ Len(K[m]) - 1 = b
      <4>1. b \in Nat BY <1>1
      <4> QED BY <3>7, <4>1
    <3>9. K[m] \in Seq(D) BY <1>2
    <3> QED BY <2>1, <3>3, <3>4, <3>6, <3>7, <3>8, <3>9
  <2>2. CASE j = MaxSize
    <3>1. c = 1 => First(g, MaxSize) = NoPage BY <1>0, <1>1, LayoutFacts
    <3>2. c # 1 => First(g, MaxSize) = F[2]
      <4> SUFFICES ASSUME c # 1 PROVE First(g, MaxSize) = F[2] OBVIOUS
      <4>1. 1 \in 1 .. c - 1 /\ 1 + 1 = 2
        <5> HIDE DEF c
        <5> QED BY <1>1
      <4>2. h.maps[F[1]].next = F[1 + 1] BY <1>0, <4>1, LayoutFacts
      <4> QED BY <4>1, <4>2
    <3>3. c - 1 # 0 => 1 \in 1 .. c - 1 /\ 1 + 1 = 2 /\ c - 1 \in 1 .. c - 1
                       /\ c - 1 + 1 = c /\ c # 0 /\ c # 1
      <4> HIDE DEF c
      <4> QED BY <1>1
    <3>4. ASSUME NEW i \in 1 .. c - 1
          PROVE  g.maps[F[i + 1]].next = h.maps[F[i + 1]].next
      <4>1. i + 1 \in 1 .. c /\ i + 1 # 1 BY <1>1
      <4> QED BY <1>0, <1>3, <4>1
    <3>5. ASSUME NEW i \in 1 .. c - 1 - 1
          PROVE  g.maps[K[MaxSize][i]].next = K[MaxSize][i + 1]
      <4>1. i \in 1 .. c - 1 /\ i + 1 \in 1 .. c - 1 BY <1>1
      <4>2. h.maps[F[i + 1]].next = F[i + 1 + 1] BY <1>0, <4>1, LayoutFacts
      <4> QED BY <1>2, <3>4, <4>1, <4>2
    <3>6. c - 1 # 0 => g.maps[K[MaxSize][c - 1]].next = NoPage
      <4>1. c # 0 => h.maps[F[c]].next = NoPage BY <1>0, LayoutFacts
      <4>2. c - 1 # 0 => K[MaxSize][c - 1] = F[c - 1 + 1] BY Zenon, <1>2, <3>3
      <4>3. c - 1 # 0 => g.maps[F[c - 1 + 1]].next = h.maps[F[c - 1 + 1]].next
        BY Zenon, <3>3, <3>4
      <4> HIDE DEF c, F, K
      <4> QED BY <3>3, <4>1, <4>2, <4>3
    <3>7. c - 1 = 0 => c = 1 BY <1>1
    <3>8. c - 1 # 0 => First(g, MaxSize) = K[MaxSize][1] BY Zenon, <1>2, <3>2, <3>3
    <3> HIDE DEF c, F, K, D
    <3> QED BY <1>2, <2>2, <3>1, <3>5, <3>6, <3>7, <3>8
  <2>3. CASE j # m /\ j # MaxSize
    <3>1. First(g, j) = First(h, j)
      <4>1. j \in 0 .. MaxSize - 1 BY <1>0, <2>3
      <4> QED BY Zenon, <2>3, <4>1
    <3>2. K[j] = L[j] /\ L[j] \in Seq(D) /\ Len(L[j]) \in Nat BY <1>2, <2>3, ListTypes
    <3>3. \A i \in 1 .. Len(L[j]) : g.maps[L[j][i]].next = h.maps[L[j][i]].next
      BY Zenon, <1>3, <2>3
    <3>4. ASSUME NEW i \in 1 .. Len(L[j]) - 1
          PROVE  g.maps[L[j][i]].next = L[j][i + 1]
      <4>1. i \in 1 .. Len(L[j]) BY <3>2
      <4>2. h.maps[L[j][i]].next = L[j][i + 1] BY LayoutFacts
      <4> QED BY <3>3, <4>1, <4>2
    <3>5. ASSUME Len(L[j]) # 0 PROVE g.maps[L[j][Len(L[j])]].next = NoPage
      <4>1. Len(L[j]) \in 1 .. Len(L[j]) BY <3>2, <3>5
      <4>2. h.maps[L[j][Len(L[j])]].next = NoPage BY <3>5, LayoutFacts
      <4> QED BY <3>3, <4>1, <4>2
    <3>6. /\ Len(L[j]) = 0 => First(h, j) = NoPage
          /\ Len(L[j]) # 0 => First(h, j) = L[j][1]
      BY LayoutFacts
    <3> HIDE DEF K, D
    <3> QED BY <3>1, <3>2, <3>4, <3>5, <3>6
  <2> QED BY <2>1, <2>2, <2>3
<1>5. ASSUME NEW q \in D
      PROVE  \E j \in 0 .. MaxSize : \E i \in 1 .. Len(K[j]) : K[j][i] = q
  <2>1. PICK j \in 0 .. MaxSize : \E i \in DOMAIN L[j] : L[j][i] = q BY Zenon DEF Layout
  <2>2. PICK i \in 1 .. Len(L[j]) : L[j][i] = q BY Zenon, <2>1, ListTypes
  <2> HIDE DEF K, D
  <2>3. CASE j = m
    <3>1. i \in 1 .. b + 1 BY <1>1, <2>3
    <3>2. K[m][i] = q BY <1>2, <2>2, <2>3
    <3> QED BY <1>0, <1>2, <3>1, <3>2
  <2>4. CASE j = MaxSize /\ i = 1
    <3>1. b + 1 \in 1 .. b + 1 BY <1>1
    <3>2. K[m][b + 1] = q BY <1>2, <2>2, <2>4
    <3> QED BY <1>0, <1>2, <3>1, <3>2
  <2>5. CASE j = MaxSize /\ i # 1
    <3>1. i - 1 \in 1 .. c - 1 /\ i - 1 + 1 = i BY <1>1, <2>5
    <3>2. K[MaxSize][i - 1] = q BY <1>2, <2>2, <2>5, <3>1
    <3> QED BY <1>0, <1>2, <3>1, <3>2
  <2>6. CASE j # m /\ j # MaxSize BY <1>2, <2>2, <2>6
  <2> QED BY <2>3, <2>4, <2>5, <2>6
<1> DEFINE Home(j, i) == IF j = m THEN IF i = b + 1 THEN MaxSize ELSE m ELSE j
           Rank(j, i) == IF j = m /\ i = b + 1 THEN 1
                         ELSE IF j = MaxSize THEN i + 1 ELSE i
<1>6. ASSUME NEW j \in 0 .. MaxSize, NEW i \in 1 .. Len(K[j])
      PROVE  /\ Home(j, i) \in 0 .. MaxSize
             /\ Rank(j, i) \in 1 .. Len(L[Home(j, i)])
             /\ K[j][i] = L[Home(j, i)][Rank(j, i)]
  <2> HIDE DEF K
  <2>1. CASE j = m /\ i # b + 1
    <3>1. Home(j, i) = m /\ Rank(j, i) = i BY <1>0, <2>1
    <3>2. i \in 1 .. b BY <1>1, <1>2, <2>1
    <3> QED BY <1>0, <1>2, <2>1, <3>1, <3>2
  <2>2. CASE j = m /\ i = b + 1
    <3>1. Home(j, i) = MaxSize /\ Rank(j, i) = 1 BY <1>0, <2>2
    <3>2. 1 \in 1 .. c BY <1>1
    <3> QED BY <1>0, <1>2, <2>2, <3>1, <3>2
  <2>3. CASE j = MaxSize
    <3>1. Home(j, i) = MaxSize /\ Rank(j, i) = i + 1 BY <1>0, <2>3
    <3>2. i \in 1 .. c - 1 /\ i + 1 \in 1 .. c BY <1>1, <1>2, <2>3
    <3> QED BY <1>0, <1>2, <2>3, <3>1, <3>2
  <2>4. CASE j # m /\ j # MaxSize
    <3>1. Home(j, i) = j /\ Rank(j, i) = i BY <2>4
    <3> QED BY <1>2, <2>4, <3>1
  <2> QED BY <2>1, <2>2, <2>3, <2>4
<1>7. ASSUME NEW j \in 0 .. MaxSize, NEW l \in 0 .. MaxSize,
             NEW i \in 1 .. Len(K[j]), NEW k \in 1 .. Len(K[l]), K[j][i] = K[l][k]
      PROVE  j = l /\ i = k
  <2>1. Home(j, i) = Home(l, k) /\ Rank(j, i) = Rank(l, k)
    <3> HIDE DEF Home, Rank, K
    <3>1. L[Home(j, i)][Rank(j, i)] = L[Home(l, k)][Rank(l, k)] BY <1>6, <1>7
    <3>2. /\ Home(j, i) \in 0 .. MaxSize /\ Rank(j, i) \in 1 .. Len(L[Home(j, i)])
          /\ Home(l, k) \in 0 .. MaxSize /\ Rank(l, k) \in 1 .. Len(L[Home(l, k)])
      BY <1>6
    <3>3. /\ OnList(L, Home(j, i), Rank(j, i)) /\ OnList(L, Home(l, k), Rank(l, k))
      BY <3>2 DEF OnList
    <3> QED BY <3>1, <3>3, SamePlace
  <2>2. i \in Int /\ k \in Int /\ i >= 1 /\ k >= 1
    <3>1. Len(K[j]) \in Nat /\ Len(K[l]) \in Nat BY <1>4, LenProperties
    <3> HIDE DEF K
    <3> QED BY <3>1
  <2> HIDE DEF K, b
  <2> QED BY <1>0, <2>1, <2>2
<1>8. DOMAIN g.maps = D OBVIOUS
<1> HIDE DEF K, D
<1>9. Linked(g, K) BY <1>4, <1>8 DEF Linked
<1>10. Placed(g, K) BY <1>5, <1>8 DEF Placed
<1>11. Apart(K) BY <1>7 DEF Apart
<1>12. Layout(g, K) BY <1>9, <1>10, <1>11, LayoutBy
<1> QED BY <1>12 DEF K

\* The last page of bucket m becomes the first free one.
Freed(L, m) ==
    [j \in 0 .. MaxSize |-> IF j = m THEN SubSeq(L[m], 1, Len(L[m]) - 1)
                            ELSE IF j = MaxSize THEN <<L[m][Len(L[m])]>> \o L[MaxSize]
                            ELSE L[j]]

(* The two lists that change when bucket m gives a page back, element by    *)
(* element.                                                                 *)
LEMMA FreedLists ==
  ASSUME NEW h, NEW L, Layout(h, L), NEW m \in 0 .. MaxSize - 1, L[m] # <<>>
  PROVE  LET K == Freed(L, m)
             D == DOMAIN h.maps
         IN  /\ K[m] \in Seq(D) /\ Len(K[m]) = Len(L[m]) - 1
             /\ \A i \in 1 .. Len(L[m]) - 1 : K[m][i] = L[m][i]
             /\ K[MaxSize] \in Seq(D) /\ Len(K[MaxSize]) = Len(L[MaxSize]) + 1
             /\ K[MaxSize][1] = L[m][Len(L[m])]
             /\ \A i \in 1 .. Len(L[MaxSize]) : K[MaxSize][i + 1] = L[MaxSize][i]
             /\ \A j \in 0 .. MaxSize : j # m /\ j # MaxSize => K[j] = L[j]
<1> DEFINE D == DOMAIN h.maps
           b == Len(L[m])
           p == L[m][b]
           F == L[MaxSize]
<1>0. MaxSize \in Nat /\ MaxSize \in 0 .. MaxSize /\ m \in 0 .. MaxSize /\ m # MaxSize
  BY HashMapAssumption
<1>1. L[m] \in Seq(D) /\ F \in Seq(D) /\ b \in 1 .. b /\ b \in Nat /\ Len(F) \in Nat
  BY <1>0, ListTypes
<1>2. p \in D BY <1>0, <1>1, ListTypes
<1>3. /\ SubSeq(L[m], 1, b - 1) \in Seq(D) /\ Len(SubSeq(L[m], 1, b - 1)) = b - 1
      /\ \A i \in 1 .. b - 1 : SubSeq(L[m], 1, b - 1)[i] = L[m][i]
  <2>1. b - 1 \in Int /\ 1 \in Int BY <1>1
  <2>2. \A i \in 1 .. b - 1 : L[m][i] \in D
    <3>1. \A i \in 1 .. b - 1 : i \in 1 .. b BY <1>1
    <3> QED BY <1>0, <3>1, ListTypes
  <2>3. /\ SubSeq(L[m], 1, b - 1) \in Seq(D)
        /\ Len(SubSeq(L[m], 1, b - 1)) = IF 1 <= b - 1 THEN (b - 1) - 1 + 1 ELSE 0
        /\ \A i \in 1 .. (b - 1) - 1 + 1 : SubSeq(L[m], 1, b - 1)[i] = L[m][1 + i - 1]
    <3> HIDE DEF D, b
    <3> QED BY <2>1, <2>2, SubSeqProperties
  <2>4. ASSUME NEW i \in 1 .. b - 1 PROVE SubSeq(L[m], 1, b - 1)[i] = L[m][i]
    <3>1. i \in 1 .. (b - 1) - 1 + 1 /\ 1 + i - 1 = i BY <1>1
    <3> QED BY <2>3, <3>1
  <2>5. Len(SubSeq(L[m], 1, b - 1)) = b - 1 BY <1>1, <2>3
  <2> QED BY <2>3, <2>4, <2>5
<1>4. /\ <<p>> \o F \in Seq(D) /\ Len(<<p>> \o F) = Len(F) + 1
      /\ (<<p>> \o F)[1] = p /\ \A i \in 1 .. Len(F) : (<<p>> \o F)[i + 1] = F[i]
  <2> HIDE DEF D, p, F
  <2> QED BY <1>1, <1>2, ConcatProperties
<1>5. /\ Freed(L, m)[m] = SubSeq(L[m], 1, b - 1)
      /\ Freed(L, m)[MaxSize] = <<p>> \o F
      /\ \A j \in 0 .. MaxSize : j # m /\ j # MaxSize => Freed(L, m)[j] = L[j]
  BY <1>0 DEF Freed
<1> QED BY <1>3, <1>4, <1>5

(* The layout after hash_table_pop has freed the last page of bucket m.     *)
LEMMA FreedLayout ==
  ASSUME NEW h, NEW L, Layout(h, L), NEW m \in 0 .. MaxSize - 1, L[m] # <<>>,
         NEW g, DOMAIN g.maps = DOMAIN h.maps,
         First(g, MaxSize) = L[m][Len(L[m])],
         Len(L[m]) = 1 => First(g, m) = NoPage,
         Len(L[m]) # 1 => First(g, m) = First(h, m),
         \A j \in 0 .. MaxSize - 1 : j # m => First(g, j) = First(h, j),
         g.maps[L[m][Len(L[m])]].next = First(h, MaxSize),
         Len(L[m]) # 1 => g.maps[L[m][Len(L[m]) - 1]].next = NoPage,
         \A q \in DOMAIN h.maps :
            q # L[m][Len(L[m])] /\ (Len(L[m]) = 1 \/ q # L[m][Len(L[m]) - 1])
               => g.maps[q].next = h.maps[q].next
  PROVE  Layout(g, Freed(L, m))
<1> DEFINE D == DOMAIN h.maps
           F == L[MaxSize]
           B == L[m]
           K == Freed(L, m)
           b == Len(B)
           c == Len(F)
           p == B[b]
<1>0. MaxSize \in Nat /\ MaxSize \in 0 .. MaxSize /\ m \in 0 .. MaxSize /\ m # MaxSize
  BY HashMapAssumption
<1>1. c \in Nat /\ b \in Nat \ {0} /\ (F = <<>> <=> c = 0)
  BY <1>0, ListTypes, LayoutFacts
<1>a. (b # 1 => b - 1 \in 1 .. b /\ 1 \in 1 .. b - 1 /\ b - 1 \in 1 .. b - 1) /\ b # 0
  <2> HIDE DEF b
  <2> QED BY <1>1
<1>2. /\ K[m] \in Seq(D) /\ Len(K[m]) = b - 1
      /\ \A i \in 1 .. b - 1 : K[m][i] = B[i]
      /\ K[MaxSize] \in Seq(D) /\ Len(K[MaxSize]) = c + 1
      /\ K[MaxSize][1] = p
      /\ \A i \in 1 .. c : K[MaxSize][i + 1] = F[i]
      /\ \A j \in 0 .. MaxSize : j # m /\ j # MaxSize => K[j] = L[j]
  BY FreedLists
<1>3. ASSUME NEW j \in 0 .. MaxSize, NEW i \in 1 .. Len(L[j]), j # m \/ (i # b /\ i # b - 1)
      PROVE  g.maps[L[j][i]].next = h.maps[L[j][i]].next
  <2>1. L[j][i] \in D BY ListTypes
  <2>2. L[j][i] # p
    <3> SUFFICES ASSUME L[j][i] = p PROVE FALSE OBVIOUS
    <3>1. b \in 1 .. Len(L[m]) BY <1>1
    <3>2. j = m /\ i = b BY <1>0, <3>1, OnePlace
    <3> QED BY <1>3, <3>2
  <2>3. b # 1 => L[j][i] # B[b - 1]
    <3> SUFFICES ASSUME b # 1, L[j][i] = B[b - 1] PROVE FALSE OBVIOUS
    <3> DEFINE k == b - 1
    <3>1. k \in 1 .. Len(L[m]) /\ L[j][i] = L[m][k] BY <1>a
    <3> HIDE DEF k
    <3>2. j = m /\ i = k BY <1>0, <3>1, OnePlace
    <3> QED BY <1>3, <3>2 DEF k
  <2> QED BY Zenon, <1>1, <2>1, <2>2, <2>3
<1>b. ASSUME NEW j \in 0 .. MaxSize, j # m, NEW i \in 1 .. Len(L[j])
      PROVE  g.maps[L[j][i]].next = h.maps[L[j][i]].next
  <2>1. j # m \/ (i # b /\ i # b - 1) BY <1>b
  <2> HIDE DEF b
  <2> QED BY <1>3, <2>1
<1>4. ASSUME NEW j \in 0 .. MaxSize
      PROVE  /\ K[j] \in Seq(D)
             /\ Len(K[j]) = 0 => First(g, j) = NoPage
             /\ Len(K[j]) # 0 => First(g, j) = K[j][1]
             /\ \A i \in 1 .. Len(K[j]) - 1 : g.maps[K[j][i]].next = K[j][i + 1]
             /\ Len(K[j]) # 0 => g.maps[K[j][Len(K[j])]].next = NoPage
  <2>1. CASE j = m
    <3>1. Len(K[m]) = 0 => First(g, m) = NoPage
      <4>1. Len(K[m]) = 0 => b = 1
        <5>1. Len(K[m]) = b - 1 BY <1>2
        <5> HIDE DEF b, K
        <5> QED BY <1>1, <5>1
      <4> QED BY <4>1
    <3>2. Len(K[m]) # 0 => First(g, m) = K[m][1]
      <4> SUFFICES ASSUME Len(K[m]) # 0 PROVE First(g, m) = K[m][1] OBVIOUS
      <4>1. b # 0 /\ b # 1 /\ 1 \in 1 .. b - 1
        <5>1. Len(K[m]) = b - 1 BY <1>2
        <5> HIDE DEF b, K
        <5> QED BY <1>a, <5>1
      <4>2. First(h, m) = B[1] BY <1>0, <4>1, LayoutFacts
      <4> QED BY <1>2, <4>1, <4>2
    <3>3. ASSUME NEW i \in 1 .. b - 1 - 1 PROVE g.maps[K[m][i]].next = K[m][i + 1]
      <4>1. /\ i \in 1 .. b - 1 /\ i + 1 \in 1 .. b - 1 /\ i # b - 1 /\ i # b
            /\ i \in 1 .. b
        <5> HIDE DEF b
        <5> QED BY <1>1
      <4>2. h.maps[B[i]].next = B[i + 1] BY <1>0, <4>1, LayoutFacts
      <4>3. g.maps[B[i]].next = h.maps[B[i]].next BY <1>0, <1>3, <4>1
      <4> QED BY <1>2, <4>1, <4>2, <4>3
    <3>4. Len(K[m]) # 0 => g.maps[K[m][b - 1]].next = NoPage
      <4> SUFFICES ASSUME Len(K[m]) # 0 PROVE g.maps[K[m][b - 1]].next = NoPage
        OBVIOUS
      <4>1. b # 1 /\ b - 1 \in 1 .. b - 1
        <5>1. Len(K[m]) = b - 1 BY <1>2
        <5> HIDE DEF b, K
        <5> QED BY <1>a, <5>1
      <4> QED BY <1>2, <4>1
    <3> HIDE DEF b, B, p, K, D, F
    <3>5. K[m] \in Seq(D) /\ Len(K[m]) = b - 1 BY <1>2
    <3> QED BY <2>1, <3>1, <3>2, <3>3, <3>4, <3>5
  <2>2. CASE j = MaxSize
    <3>1. ASSUME NEW i \in 1 .. c PROVE g.maps[F[i]].next = h.maps[F[i]].next
      BY <1>0, <1>b
    <3>2. ASSUME NEW i \in 1 .. c PROVE g.maps[K[MaxSize][i]].next = K[MaxSize][i + 1]
      <4>1. CASE i = 1
        <5>1. c # 0 BY <1>1, <4>1
        <5>2. g.maps[p].next = F[1] BY <1>0, <5>1, LayoutFacts
        <5> QED BY <1>2, <4>1, <5>2
      <4>2. CASE i # 1
        <5>1. i - 1 \in 1 .. c /\ i - 1 \in 1 .. c - 1 /\ i - 1 + 1 = i BY <1>1, <4>2
        <5>2. h.maps[F[i - 1]].next = F[i - 1 + 1] BY <1>0, <5>1, LayoutFacts
        <5>3. g.maps[F[i - 1]].next = h.maps[F[i - 1]].next BY <3>1, <5>1
        <5>4. K[MaxSize][i - 1 + 1] = F[i - 1] BY <1>2, <5>1
        <5> QED BY <1>2, <5>1, <5>2, <5>3, <5>4
      <4> QED BY <4>1, <4>2
    <3>3. g.maps[K[MaxSize][c + 1]].next = NoPage
      <4>1. CASE c = 0
        <5>1. g.maps[p].next = NoPage BY <1>0, <4>1, LayoutFacts
        <5>2. c + 1 = 1 BY <4>1
        <5> QED BY <1>2, <5>1, <5>2
      <4>2. CASE c # 0
        <5>1. c \in 1 .. c BY <1>1, <4>2
        <5>2. h.maps[F[c]].next = NoPage BY <1>0, <4>2, LayoutFacts
        <5> QED BY <1>2, <3>1, <5>1, <5>2
      <4> QED BY <4>1, <4>2
    <3>4. First(g, MaxSize) = K[MaxSize][1] BY <1>2
    <3>5. c \in Nat BY <1>1
    <3> HIDE DEF b, c, B, p, K, D, F
    <3>6. K[MaxSize] \in Seq(D) /\ Len(K[MaxSize]) = c + 1 BY <1>2
    <3>7. Len(K[MaxSize]) - 1 = c /\ Len(K[MaxSize]) # 0 BY <3>5, <3>6
    <3> QED BY <2>2, <3>2, <3>3, <3>4, <3>6, <3>7
  <2>3. CASE j # m /\ j # MaxSize
    <3>1. First(g, j) = First(h, j)
      <4>1. j \in 0 .. MaxSize - 1 BY <1>0, <2>3
      <4> QED BY Zenon, <2>3, <4>1
    <3>2. K[j] = L[j] /\ L[j] \in Seq(D) /\ Len(L[j]) \in Nat BY <1>2, <2>3, ListTypes
    <3>3. \A i \in 1 .. Len(L[j]) : g.maps[L[j][i]].next = h.maps[L[j][i]].next
      BY <1>b, <2>3
    <3>4. ASSUME NEW i \in 1 .. Len(L[j]) - 1
          PROVE  g.maps[L[j][i]].next = L[j][i + 1]
      <4>1. i \in 1 .. Len(L[j]) BY <3>2
      <4>2. h.maps[L[j][i]].next = L[j][i + 1] BY LayoutFacts
      <4> QED BY <3>3, <4>1, <4>2
    <3>5. ASSUME Len(L[j]) # 0 PROVE g.maps[L[j][Len(L[j])]].next = NoPage
      <4>1. Len(L[j]) \in 1 .. Len(L[j]) BY <3>2, <3>5
      <4>2. h.maps[L[j][Len(L[j])]].next = NoPage BY <3>5, LayoutFacts
      <4> QED BY <3>3, <4>1, <4>2
    <3>6. /\ Len(L[j]) = 0 => First(h, j) = NoPage
          /\ Len(L[j]) # 0 => First(h, j) = L[j][1]
      BY LayoutFacts
    <3> HIDE DEF K, D
    <3> QED BY <3>1, <3>2, <3>4, <3>5, <3>6
  <2> QED BY <2>1, <2>2, <2>3
<1>5. ASSUME NEW q \in D
      PROVE  \E j \in 0 .. MaxSize : \E i \in 1 .. Len(K[j]) : K[j][i] = q
  <2>1. PICK j \in 0 .. MaxSize : \E i \in DOMAIN L[j] : L[j][i] = q BY Zenon DEF Layout
  <2>2. PICK i \in 1 .. Len(L[j]) : L[j][i] = q BY Zenon, <2>1, ListTypes
  <2> HIDE DEF K, D
  <2>3. CASE j = m /\ i # b
    <3>1. i \in 1 .. b - 1 BY <1>1, <2>3
    <3>2. K[m][i] = q BY <1>2, <2>2, <2>3, <3>1
    <3> QED BY <1>0, <1>2, <3>1, <3>2
  <2>4. CASE j = m /\ i = b
    <3>1. 1 \in 1 .. c + 1 BY <1>1
    <3>2. K[MaxSize][1] = q BY <1>2, <2>2, <2>4
    <3> QED BY <1>0, <1>2, <3>1, <3>2
  <2>5. CASE j = MaxSize
    <3>1. i + 1 \in 1 .. c + 1 BY <1>1, <2>5
    <3>2. K[MaxSize][i + 1] = q BY <1>2, <2>2, <2>5
    <3> QED BY <1>0, <1>2, <3>1, <3>2
  <2>6. CASE j # m /\ j # MaxSize BY <1>2, <2>2, <2>6
  <2> QED BY <2>3, <2>4, <2>5, <2>6
<1> DEFINE Home(j, i) == IF j = MaxSize THEN IF i = 1 THEN m ELSE MaxSize ELSE j
           Rank(j, i) == IF j = MaxSize THEN IF i = 1 THEN b ELSE i - 1 ELSE i
<1>6. ASSUME NEW j \in 0 .. MaxSize, NEW i \in 1 .. Len(K[j])
      PROVE  /\ Home(j, i) \in 0 .. MaxSize
             /\ Rank(j, i) \in 1 .. Len(L[Home(j, i)])
             /\ K[j][i] = L[Home(j, i)][Rank(j, i)]
             /\ j = m => i \in 1 .. b - 1
  <2> HIDE DEF K
  <2>1. CASE j = MaxSize /\ i = 1
    <3>1. Home(j, i) = m /\ Rank(j, i) = b BY <1>0, <2>1
    <3>2. b \in 1 .. b BY <1>1
    <3> QED BY <1>0, <1>2, <2>1, <3>1, <3>2
  <2>2. CASE j = MaxSize /\ i # 1
    <3>1. Home(j, i) = MaxSize /\ Rank(j, i) = i - 1 BY <1>0, <2>2
    <3>2. i - 1 \in 1 .. c /\ i - 1 + 1 = i BY <1>1, <1>2, <2>2
    <3>3. K[MaxSize][i - 1 + 1] = F[i - 1] BY <1>2, <3>2
    <3> QED BY <1>0, <1>2, <2>2, <3>1, <3>2, <3>3
  <2>3. CASE j = m
    <3>1. Home(j, i) = m /\ Rank(j, i) = i BY <1>0, <2>3
    <3>2. i \in 1 .. b - 1 /\ i \in 1 .. b BY <1>1, <1>2, <2>3
    <3> QED BY <1>0, <1>2, <2>3, <3>1, <3>2
  <2>4. CASE j # m /\ j # MaxSize
    <3>1. Home(j, i) = j /\ Rank(j, i) = i BY <2>4
    <3> QED BY <1>2, <2>4, <3>1
  <2> QED BY <2>1, <2>2, <2>3, <2>4
<1>7. ASSUME NEW j \in 0 .. MaxSize, NEW l \in 0 .. MaxSize,
             NEW i \in 1 .. Len(K[j]), NEW k \in 1 .. Len(K[l]), K[j][i] = K[l][k]
      PROVE  j = l /\ i = k
  <2>1. Home(j, i) = Home(l, k) /\ Rank(j, i) = Rank(l, k)
    <3> HIDE DEF Home, Rank, K
    <3>1. L[Home(j, i)][Rank(j, i)] = L[Home(l, k)][Rank(l, k)] BY <1>6, <1>7
    <3>2. /\ Home(j, i) \in 0 .. MaxSize /\ Rank(j, i) \in 1 .. Len(L[Home(j, i)])
          /\ Home(l, k) \in 0 .. MaxSize /\ Rank(l, k) \in 1 .. Len(L[Home(l, k)])
      BY <1>6
    <3>3. /\ OnList(L, Home(j, i), Rank(j, i)) /\ OnList(L, Home(l, k), Rank(l, k))
      BY <3>2 DEF OnList
    <3> QED BY <3>1, <3>3, SamePlace
  <2>2. i \in Int /\ k \in Int /\ i >= 1 /\ k >= 1
    <3>1. Len(K[j]) \in Nat /\ Len(K[l]) \in Nat BY <1>4, LenProperties
    <3> HIDE DEF K
    <3> QED BY <3>1
  <2>3. b \in Int /\ (j = m => i # b) /\ (l = m => k # b)
    <3>1. (j = m => i \in 1 .. b - 1) /\ (l = m => k \in 1 .. b - 1) BY <1>6
    <3> HIDE DEF b
    <3> QED BY <1>1, <3>1
  <2> HIDE DEF K, b
  <2> QED BY <1>0, <2>1, <2>2, <2>3
<1>8. DOMAIN g.maps = D OBVIOUS
<1> HIDE DEF K, D
<1>9. Linked(g, K) BY <1>4, <1>8 DEF Linked
<1>10. Placed(g, K) BY <1>5, <1>8 DEF Placed
<1>11. Apart(K) BY <1>7 DEF Apart
<1>12. Layout(g, K) BY <1>9, <1>10, <1>11, LayoutBy
<1> QED BY <1>12 DEF K

-----------------------------------------------------------------------------
(* Sound maps.                                                             *)

\* L are the lists of a sound map h that lists addresses of A.
SoundAs(h, A, L) ==
    /\ IsMap(h, A)
    /\ Layout(h, L)
    /\ Packed(h, L)
    /\ Distinct(h, L)
    /\ L = [j \in 0 .. MaxSize |-> L[j]]

\* The addresses of the i-th page of bucket m.
Table(h, L, m, i) == h.maps[L[m][i]].table

\* Bucket m does not list addr.
Lacks(h, L, m, addr) ==
    \A i \in 1 .. Len(L[m]) : \A x \in 1 .. Len(Table(h, L, m, i)) : Table(h, L, m, i)[x] # addr

(* A map that is sound for some lists is sound: they are its chains.        *)
LEMMA SoundAsIs ==
  ASSUME NEW A, NEW h, NEW L, SoundAs(h, A, L)
  PROVE  SoundMap(h, A)
<1>0. MaxSize \in Nat BY HashMapAssumption
<1>1. IsMap(h, A) /\ Layout(h, L) /\ Packed(h, L) /\ Distinct(h, L)
      /\ L = [j \in 0 .. MaxSize |-> L[j]]
  BY DEF SoundAs
<1>2. ASSUME NEW m \in 0 .. MaxSize PROVE Chains(h)[m] = L[m]
  <2>1. CASE m = MaxSize
    <3>1. Chains(h)[m] = FreeList(h) BY <2>1 DEF Chains
    <3>2. FreeList(h) = L[MaxSize] BY <1>1, FreeIsList
    <3> QED BY <2>1, <3>1, <3>2
  <2>2. CASE m # MaxSize
    <3>1. m \in 0 .. MaxSize - 1 BY <1>0, <2>2
    <3>2. IsMap(h, A) /\ Layout(h, L) BY <1>1
    <3>3. /\ Bucket(h, m) = L[m]
          /\ h.dir[m] = NoEntry <=> L[m] = <<>>
          /\ L[m] # <<>> => h.dir[m] = L[m][1]
      BY <3>1, <3>2, BucketIsList
    <3> QED BY <2>2, <3>3 DEF Chains
  <2> QED BY <2>1, <2>2
<1>3. Chains(h) = [m \in 0 .. MaxSize |-> Chains(h)[m]] BY DEF Chains
<1>4. Chains(h) = L BY <1>1, <1>2, <1>3
<1> QED BY <1>1, <1>4 DEF SoundMap

(* A sound map is one for its own chains.                                   *)
LEMMA SoundHasLists ==
  ASSUME NEW A, NEW h, SoundMap(h, A)
  PROVE  SoundAs(h, A, Chains(h))
<1>1. Chains(h) = [m \in 0 .. MaxSize |-> Chains(h)[m]] BY DEF Chains
<1> QED BY <1>1 DEF SoundMap, SoundAs

(* The types of a sound map, page by page.                                  *)
LEMMA PageFacts ==
  ASSUME NEW A, NEW h, NEW L, SoundAs(h, A, L),
         NEW m \in 0 .. MaxSize, NEW i \in 1 .. Len(L[m])
  PROVE  /\ L[m][i] \in DOMAIN h.maps
         /\ h.maps[L[m][i]] = [next |-> h.maps[L[m][i]].next, table |-> Table(h, L, m, i)]
         /\ h.maps[L[m][i]].next \in Nat
         /\ Table(h, L, m, i) \in Seq(A) /\ Len(Table(h, L, m, i)) \in Nat
         /\ DOMAIN Table(h, L, m, i) = 1 .. Len(Table(h, L, m, i))
         /\ \A x \in 1 .. Len(Table(h, L, m, i)) : Table(h, L, m, i)[x] \in A
<1> DEFINE t == Table(h, L, m, i)
<1>0. MaxSize \in Nat /\ HASH_MAP_BLOCK_SIZE \in Nat BY HashMapAssumption
<1>1. IsMap(h, A) /\ Layout(h, L) /\ Packed(h, L) BY DEF SoundAs
<1>2. L[m][i] \in DOMAIN h.maps /\ i \in DOMAIN L[m] BY <1>1, ListTypes
<1>3. /\ h.maps[L[m][i]] = [next |-> h.maps[L[m][i]].next, table |-> t]
      /\ h.maps[L[m][i]].next \in Nat /\ t \in Seq(A) /\ Len(t) \in Nat
      /\ DOMAIN t = 1 .. Len(t)
  <2> DEFINE p == L[m][i]
  <2>1. p \in DOMAIN h.maps BY <1>2
  <2> HIDE DEF p
  <2>2. h.maps[p] = [next |-> h.maps[p].next, table |-> h.maps[p].table]
    BY <1>1, <2>1, MapRecord
  <2>3. /\ h.maps[p].next \in Nat /\ h.maps[p].table \in Seq(A)
        /\ Len(h.maps[p].table) \in Nat
        /\ DOMAIN h.maps[p].table = 1 .. Len(h.maps[p].table)
    BY <1>1, <2>1, MapPage
  <2> QED BY <2>2, <2>3 DEF Table, p
<1>4. \A x \in 1 .. Len(t) : t[x] \in A BY <1>3, ElementOfSeq
<1> QED BY <1>2, <1>3, <1>4

(* A free page lists nothing.                                               *)
LEMMA FreePage ==
  ASSUME NEW A, NEW h, NEW L, SoundAs(h, A, L), NEW i \in 1 .. Len(L[MaxSize])
  PROVE  Table(h, L, MaxSize, i) = <<>>
<1>1. MaxSize \in 0 .. MaxSize BY HashMapAssumption
<1>2. i \in DOMAIN L[MaxSize] BY <1>1, ListTypes DEF SoundAs
<1> QED BY <1>2 DEF SoundAs, Packed, Table

(* A page of a bucket lists something, and as much as it can unless it is   *)
(* the last one.                                                            *)
LEMMA BucketPage ==
  ASSUME NEW A, NEW h, NEW L, SoundAs(h, A, L),
         NEW m \in 0 .. MaxSize - 1, NEW i \in 1 .. Len(L[m])
  PROVE  /\ Table(h, L, m, i) # <<>>
         /\ Len(Table(h, L, m, i)) \in 1 .. HASH_MAP_BLOCK_SIZE
         /\ Len(Table(h, L, m, i)) \in Nat /\ Len(Table(h, L, m, i)) # 0
         /\ Len(Table(h, L, m, i)) <= HASH_MAP_BLOCK_SIZE
         /\ i # Len(L[m]) => Len(Table(h, L, m, i)) = HASH_MAP_BLOCK_SIZE
<1> DEFINE t == Table(h, L, m, i)
           n == Len(t)
<1>0. m \in 0 .. MaxSize /\ HASH_MAP_BLOCK_SIZE \in Nat BY HashMapAssumption
<1>1. Packed(h, L) /\ Layout(h, L) BY DEF SoundAs
<1>2. i \in DOMAIN L[m] BY <1>0, <1>1, ListTypes
<1>3. t \in Seq(A) /\ n \in Nat BY <1>0, PageFacts
<1>4. t # <<>> /\ n <= HASH_MAP_BLOCK_SIZE /\ (i # Len(L[m]) => n = HASH_MAP_BLOCK_SIZE)
  BY <1>1, <1>2 DEF Packed, Table
<1>5. n # 0 BY <1>3, <1>4, EmptySeq
<1>6. n \in 1 .. HASH_MAP_BLOCK_SIZE
  <2> HIDE DEF n
  <2> QED BY <1>0, <1>3, <1>4, <1>5
<1> QED BY <1>3, <1>4, <1>5, <1>6

(* An address is in one place of a bucket.                                  *)
LEMMA OneEntry ==
  ASSUME NEW A, NEW h, NEW L, SoundAs(h, A, L), NEW m \in 0 .. MaxSize - 1,
         NEW i \in 1 .. Len(L[m]), NEW k \in 1 .. Len(L[m]),
         NEW x \in 1 .. Len(Table(h, L, m, i)), NEW y \in 1 .. Len(Table(h, L, m, k)),
         Table(h, L, m, i)[x] = Table(h, L, m, k)[y]
  PROVE  i = k /\ x = y
<1>0. m \in 0 .. MaxSize BY HashMapAssumption
<1>1. x \in DOMAIN Table(h, L, m, i) /\ y \in DOMAIN Table(h, L, m, k) BY <1>0, PageFacts
<1>2. i \in DOMAIN L[m] /\ k \in DOMAIN L[m] BY <1>0, ListTypes DEF SoundAs
<1>3. Distinct(h, L) BY DEF SoundAs
<1>4. h.maps[L[m][i]].table[x] = h.maps[L[m][k]].table[y] BY DEF Table
<1> HIDE DEF Table
<1>5. x \in DOMAIN h.maps[L[m][i]].table /\ y \in DOMAIN h.maps[L[m][k]].table
  BY <1>1 DEF Table
<1>6. \A a \in DOMAIN h.maps[L[m][i]].table, b \in DOMAIN h.maps[L[m][k]].table :
         h.maps[L[m][i]].table[a] = h.maps[L[m][k]].table[b] => i = k /\ a = b
  BY <1>2, <1>3 DEF Distinct
<1> QED BY <1>4, <1>5, <1>6

(* How a map is shown to be sound.                                          *)
PackedIn(h, L) ==
    /\ \A i \in 1 .. Len(L[MaxSize]) : Table(h, L, MaxSize, i) = <<>>
    /\ \A m \in 0 .. MaxSize - 1 : \A i \in 1 .. Len(L[m]) :
          /\ Table(h, L, m, i) # <<>> /\ Len(Table(h, L, m, i)) <= HASH_MAP_BLOCK_SIZE
          /\ i # Len(L[m]) => Len(Table(h, L, m, i)) = HASH_MAP_BLOCK_SIZE

DistinctIn(h, L) ==
    \A m \in 0 .. MaxSize - 1 : \A i, k \in 1 .. Len(L[m]) :
        \A x \in 1 .. Len(Table(h, L, m, i)), y \in 1 .. Len(Table(h, L, m, k)) :
            Table(h, L, m, i)[x] = Table(h, L, m, k)[y] => i = k /\ x = y

(* A map with packed lists and distinct entries is sound for those lists.   *)
LEMMA SoundBy ==
  ASSUME NEW A, NEW h, NEW L, IsMap(h, A), Layout(h, L), L = [j \in 0 .. MaxSize |-> L[j]],
         PackedIn(h, L), DistinctIn(h, L)
  PROVE  SoundAs(h, A, L)
<1>0. MaxSize \in Nat BY HashMapAssumption
<1>1. \A j \in 0 .. MaxSize : DOMAIN L[j] = 1 .. Len(L[j]) BY ListTypes
<1>2. Packed(h, L)
  <2>1. ASSUME NEW i \in DOMAIN L[MaxSize] PROVE h.maps[L[MaxSize][i]].table = <<>>
    <3>1. i \in 1 .. Len(L[MaxSize]) BY <1>0, <1>1
    <3> QED BY <3>1 DEF PackedIn, Table
  <2>2. ASSUME NEW m \in 0 .. MaxSize - 1, NEW i \in DOMAIN L[m]
        PROVE  /\ h.maps[L[m][i]].table # <<>>
               /\ Len(h.maps[L[m][i]].table) <= HASH_MAP_BLOCK_SIZE
               /\ i # Len(L[m]) => Len(h.maps[L[m][i]].table) = HASH_MAP_BLOCK_SIZE
    <3>1. i \in 1 .. Len(L[m]) BY <1>0, <1>1
    <3> QED BY <3>1 DEF PackedIn, Table
  <2> QED BY <2>1, <2>2 DEF Packed
<1>3. Distinct(h, L)
  <2> SUFFICES ASSUME NEW m \in 0 .. MaxSize - 1, NEW i \in DOMAIN L[m], NEW k \in DOMAIN L[m],
                      NEW x \in DOMAIN Table(h, L, m, i), NEW y \in DOMAIN Table(h, L, m, k),
                      Table(h, L, m, i)[x] = Table(h, L, m, k)[y]
               PROVE  i = k /\ x = y
    BY Zenon DEF Distinct, Table
  <2>0. m \in 0 .. MaxSize BY <1>0
  <2>1. i \in 1 .. Len(L[m]) /\ k \in 1 .. Len(L[m]) BY <1>1, <2>0
  <2>2. L[m][i] \in DOMAIN h.maps /\ L[m][k] \in DOMAIN h.maps BY <2>0, <2>1, ListTypes, Zenon
  <2>3. x \in 1 .. Len(Table(h, L, m, i)) /\ y \in 1 .. Len(Table(h, L, m, k))
    <3> DEFINE p == L[m][i]
               q == L[m][k]
    <3> HIDE DEF p, q
    <3>1. p \in DOMAIN h.maps /\ q \in DOMAIN h.maps BY <2>2 DEF p, q
    <3>2. DOMAIN h.maps[p].table = 1 .. Len(h.maps[p].table)
          /\ DOMAIN h.maps[q].table = 1 .. Len(h.maps[q].table)
      BY <3>1, MapPage
    <3> QED BY <3>2, Zenon DEF Table, p, q
  <2>4. \A a \in 1 .. Len(Table(h, L, m, i)), b \in 1 .. Len(Table(h, L, m, k)) :
           Table(h, L, m, i)[a] = Table(h, L, m, k)[b] => i = k /\ a = b
    BY <2>1 DEF DistinctIn
  <2> QED BY <2>3, <2>4
<1> QED BY <1>2, <1>3 DEF SoundAs

-----------------------------------------------------------------------------
(* A page more, a page less.                                               *)

Pages(A) == [next : Nat, table : Seq(A)]

(* The map pages as a function on their addresses.                          *)
LEMMA MapFields ==
  ASSUME NEW A, NEW h, IsMap(h, A)
  PROVE  /\ h = [dir |-> h.dir, maps |-> h.maps, free |-> h.free]
         /\ h.dir \in [0 .. MaxSize - 1 -> {NoEntry} \union 1 .. Len(h.maps)]
         /\ h.maps \in [1 .. Len(h.maps) -> Pages(A)]
         /\ h.free \in Nat /\ Len(h.maps) \in Nat
<1>1. h.maps \in Seq(Pages(A)) BY DEF IsMap, Pages
<1>2. /\ h.maps \in [1 .. Len(h.maps) -> Pages(A)] /\ Len(h.maps) \in Nat
      /\ DOMAIN h.maps = 1 .. Len(h.maps)
  BY <1>1, LenProperties
<1> QED BY <1>2 DEF IsMap

(* A record whose three fields are in range is a map.                       *)
LEMMA MapBy ==
  ASSUME NEW A, NEW h, NEW n \in Nat,
         h = [dir |-> h.dir, maps |-> h.maps, free |-> h.free],
         h.dir \in [0 .. MaxSize - 1 -> {NoEntry} \union 1 .. n],
         h.maps \in [1 .. n -> Pages(A)],
         h.free \in Nat
  PROVE  IsMap(h, A) /\ Len(h.maps) = n /\ DOMAIN h.maps = 1 .. n
<1>1. h.maps \in Seq(Pages(A)) BY SeqDef
<1>2. Len(h.maps) \in Nat /\ DOMAIN h.maps = 1 .. Len(h.maps) /\ DOMAIN h.maps = 1 .. n
  BY <1>1, LenProperties
<1>3. Len(h.maps) = n
  <2> DEFINE l == Len(h.maps)
  <2>1. l \in Nat /\ 1 .. l = 1 .. n BY <1>2
  <2> HIDE DEF l
  <2>2. l = n BY <2>1
  <2> QED BY <2>2 DEF l
<1> QED BY <1>1, <1>2, <1>3 DEF IsMap, Pages

(* A map is a record.                                                       *)
IsRecord(h) == h = [dir |-> h.dir, maps |-> h.maps, free |-> h.free]

(* A function on the names of the three fields is a map record.             *)
LEMMA RecordBy ==
  ASSUME NEW h, DOMAIN h = {"dir", "maps", "free"}, h = [x \in DOMAIN h |-> h[x]]
  PROVE  IsRecord(h)
<1>1. [dir |-> h.dir, maps |-> h.maps, free |-> h.free]
         = [x \in {"dir", "maps", "free"} |-> h[x]]
  OBVIOUS
<1> QED BY <1>1 DEF IsRecord

(* Two map records with equal fields are equal.                             *)
LEMMA RecordEqual ==
  ASSUME NEW g, NEW h, IsRecord(g), IsRecord(h),
         g.dir = h.dir, g.maps = h.maps, g.free = h.free
  PROVE  g = h
BY DEF IsRecord

Blank == [next |-> NoPage, table |-> <<>>]

\* The map with an empty page behind the others, as its only free page.
Extended(h)        == [h EXCEPT !.maps = Append(@, Blank), !.free = Len(h.maps) + 1]
ExtendedLists(h, L) == [j \in 0 .. MaxSize |-> IF j = MaxSize THEN <<Len(h.maps) + 1>> ELSE L[j]]

(* The map file grows by a page: what its fields are then.                  *)
LEMMA ExtendedMap ==
  ASSUME NEW A, NEW h, IsMap(h, A)
  PROVE  LET g == Extended(h)
             N == Len(h.maps)
         IN  /\ IsMap(g, A)
             /\ DOMAIN g.maps = 1 .. N + 1 /\ N \in Nat /\ DOMAIN h.maps = 1 .. N
             /\ \A q \in 1 .. N : g.maps[q] = h.maps[q]
             /\ g.maps[N + 1] = Blank
             /\ g.dir = h.dir /\ g.free = N + 1
<1> DEFINE g == Extended(h)
           N == Len(h.maps)
<1>1. /\ h = [dir |-> h.dir, maps |-> h.maps, free |-> h.free]
      /\ h.dir \in [0 .. MaxSize - 1 -> {NoEntry} \union 1 .. N]
      /\ h.maps \in [1 .. N -> Pages(A)] /\ N \in Nat
  BY MapFields
<1>2. Blank \in Pages(A)
  <2>1. <<>> \in Seq(A) BY EmptySeq
  <2> QED BY <2>1 DEF Blank, Pages, NoPage
<1>3. h.maps \in Seq(Pages(A)) BY DEF IsMap, Pages
<1>4. /\ Append(h.maps, Blank) \in Seq(Pages(A))
      /\ Len(Append(h.maps, Blank)) = N + 1
      /\ \A q \in 1 .. N : Append(h.maps, Blank)[q] = h.maps[q]
      /\ Append(h.maps, Blank)[N + 1] = Blank
  BY <1>2, <1>3, AppendProperties
<1>5. /\ g.dir = h.dir /\ g.maps = Append(h.maps, Blank) /\ g.free = N + 1
      /\ g = [dir |-> g.dir, maps |-> g.maps, free |-> g.free]
  <2>1. DOMAIN g = {"dir", "maps", "free"} BY <1>1 DEF Extended
  <2>2. g = [x \in DOMAIN g |-> g[x]] BY <2>1 DEF Extended
  <2>3. IsRecord(g) BY <2>1, <2>2, RecordBy
  <2>4. g.dir = h.dir /\ g.maps = Append(h.maps, Blank) /\ g.free = N + 1
    BY <1>1 DEF Extended
  <2> QED BY <2>3, <2>4 DEF IsRecord
<1>6. Append(h.maps, Blank) \in [1 .. N + 1 -> Pages(A)] BY <1>4, LenProperties
<1>7. g.dir \in [0 .. MaxSize - 1 -> {NoEntry} \union 1 .. N + 1]
  <2>1. 1 .. N \subseteq 1 .. N + 1 BY <1>1
  <2>2. g.dir = h.dir BY <1>5
  <2> HIDE DEF N, g
  <2> QED BY <1>1, <2>1, <2>2
<1>8. IsMap(g, A) /\ DOMAIN g.maps = 1 .. N + 1
  <2>1. N + 1 \in Nat BY <1>1
  <2>2. g.maps \in [1 .. N + 1 -> Pages(A)] BY <1>5, <1>6
  <2>3. g = [dir |-> g.dir, maps |-> g.maps, free |-> g.free] /\ g.free \in Nat
    BY <1>5, <2>1
  <2> HIDE DEF N, g
  <2> QED BY <1>7, <2>1, <2>2, <2>3, MapBy
<1>9. /\ \A q \in 1 .. N : g.maps[q] = h.maps[q]
      /\ g.maps[N + 1] = Blank /\ g.dir = h.dir /\ g.free = N + 1
  BY <1>4, <1>5
<1>10. N \in Nat /\ DOMAIN h.maps = 1 .. N BY MapTypes
<1> QED BY <1>8, <1>9, <1>10

(* It leaves the tables of the buckets alone.                               *)
LEMMA ExtendedTables ==
  ASSUME NEW A, NEW h, NEW L, SoundAs(h, A, L), NEW m \in 0 .. MaxSize - 1
  PROVE  LET g == Extended(h)
             K == ExtendedLists(h, L)
         IN  K[m] = L[m] /\ \A i \in 1 .. Len(L[m]) : Table(g, K, m, i) = Table(h, L, m, i)
<1> DEFINE g == Extended(h)
           K == ExtendedLists(h, L)
           N == Len(h.maps)
<1>0. m \in 0 .. MaxSize /\ m # MaxSize BY HashMapAssumption
<1>1. IsMap(h, A) /\ Layout(h, L) BY DEF SoundAs
<1>2. \A q \in 1 .. N : g.maps[q] = h.maps[q] BY <1>1, ExtendedMap, Zenon
<1>3. N \in Nat /\ DOMAIN h.maps = 1 .. N BY <1>1, MapTypes
<1>4. K[m] = L[m] BY <1>0 DEF ExtendedLists
<1> HIDE DEF g, K, N
<1>5. ASSUME NEW i \in 1 .. Len(L[m]) PROVE Table(g, K, m, i) = Table(h, L, m, i)
  <2>1. L[m][i] \in DOMAIN h.maps BY <1>0, <1>1, ListTypes
  <2>2. g.maps[L[m][i]] = h.maps[L[m][i]] BY <1>2, <1>3, <2>1
  <2> QED BY <1>4, <2>2 DEF Table
<1> QED BY <1>4, <1>5 DEF g, K

(* It leaves a sound map sound, and with a free page.                       *)
LEMMA ExtendedSound ==
  ASSUME NEW A, NEW h, NEW L, SoundAs(h, A, L), L[MaxSize] = <<>>
  PROVE  LET g == Extended(h)
             K == ExtendedLists(h, L)
         IN  SoundAs(g, A, K) /\ K[MaxSize] # <<>>
<1> DEFINE g == Extended(h)
           K == ExtendedLists(h, L)
           N == Len(h.maps)
<1>0. MaxSize \in Nat /\ MaxSize \in 0 .. MaxSize BY HashMapAssumption
<1>1. IsMap(h, A) /\ Layout(h, L) BY DEF SoundAs
<1>2. /\ IsMap(g, A)
      /\ DOMAIN g.maps = 1 .. N + 1 /\ N \in Nat /\ DOMAIN h.maps = 1 .. N
      /\ \A q \in 1 .. N : g.maps[q] = h.maps[q]
      /\ g.maps[N + 1] = Blank
      /\ g.dir = h.dir /\ g.free = N + 1
  BY <1>1, ExtendedMap
<1>3. /\ K[MaxSize] = <<N + 1>>
      /\ \A j \in 0 .. MaxSize - 1 : K[j] = L[j] /\ j # MaxSize /\ j \in 0 .. MaxSize
      /\ K = [j \in 0 .. MaxSize |-> K[j]]
  BY <1>0 DEF ExtendedLists
<1> HIDE DEF g, K
<1>4. ASSUME NEW j \in 0 .. MaxSize, NEW i \in 1 .. Len(L[j])
      PROVE  L[j][i] \in 1 .. N /\ g.maps[L[j][i]] = h.maps[L[j][i]]
  <2>1. L[j][i] \in DOMAIN h.maps BY <1>1, ListTypes
  <2> HIDE DEF N
  <2> QED BY <1>2, <2>1
<1>5. Len(K[MaxSize]) = 1 /\ K[MaxSize][1] = N + 1 /\ K[MaxSize] # <<>> BY <1>3
<1>6. Len(L[MaxSize]) = 0 OBVIOUS
<1> HIDE DEF N
<1>7. Linked(g, K)
  <2> SUFFICES ASSUME NEW j \in 0 .. MaxSize
               PROVE  /\ K[j] \in Seq(DOMAIN g.maps)
                      /\ Len(K[j]) = 0 => First(g, j) = NoPage
                      /\ Len(K[j]) # 0 => First(g, j) = K[j][1]
                      /\ \A i \in 1 .. Len(K[j]) - 1 : g.maps[K[j][i]].next = K[j][i + 1]
                      /\ Len(K[j]) # 0 => g.maps[K[j][Len(K[j])]].next = NoPage
    BY DEF Linked
  <2>1. CASE j = MaxSize
    <3>1. N + 1 \in DOMAIN g.maps BY <1>2
    <3>2. K[MaxSize] \in Seq(DOMAIN g.maps)
      <4>1. <<>> \in Seq(DOMAIN g.maps) BY EmptySeq
      <4>2. Append(<<>>, N + 1) \in Seq(DOMAIN g.maps) BY <3>1, <4>1, AppendProperties
      <4> QED BY <1>3, <4>2
    <3>3. First(g, MaxSize) = N + 1 BY <1>2 DEF First
    <3>4. g.maps[N + 1].next = NoPage BY <1>2 DEF Blank
    <3>5. 1 .. 1 - 1 = {} OBVIOUS
    <3> QED BY <1>5, <2>1, <3>2, <3>3, <3>4, <3>5
  <2>2. CASE j # MaxSize
    <3>1. j \in 0 .. MaxSize - 1 BY <1>0, <2>2
    <3>2. K[j] = L[j] BY <1>3, <3>1
    <3>3. L[j] \in Seq(DOMAIN h.maps) /\ Len(L[j]) \in Nat BY <1>1, ListTypes
    <3>4. First(g, j) = First(h, j) BY <1>2, <2>2 DEF First
    <3>5. DOMAIN h.maps \subseteq DOMAIN g.maps BY <1>2
    <3>6. L[j] \in Seq(DOMAIN g.maps) BY <3>3, <3>5, SeqMonotonic
    <3>7. ASSUME NEW i \in 1 .. Len(L[j]) - 1 PROVE g.maps[L[j][i]].next = L[j][i + 1]
      <4>1. i \in 1 .. Len(L[j]) BY <3>3
      <4>2. h.maps[L[j][i]].next = L[j][i + 1] BY <1>1, LayoutFacts
      <4> QED BY <1>4, <4>1, <4>2
    <3>8. ASSUME Len(L[j]) # 0 PROVE g.maps[L[j][Len(L[j])]].next = NoPage
      <4>1. Len(L[j]) \in 1 .. Len(L[j]) BY <3>3, <3>8
      <4>2. h.maps[L[j][Len(L[j])]].next = NoPage BY <1>1, <3>8, LayoutFacts
      <4> QED BY <1>4, <4>1, <4>2
    <3>9. /\ Len(L[j]) = 0 => First(h, j) = NoPage
          /\ Len(L[j]) # 0 => First(h, j) = L[j][1]
      BY <1>1, LayoutFacts
    <3> QED BY <3>2, <3>4, <3>6, <3>7, <3>8, <3>9
  <2> QED BY <2>1, <2>2
<1>8. Placed(g, K)
  <2> SUFFICES ASSUME NEW q \in DOMAIN g.maps
               PROVE  \E j \in 0 .. MaxSize : \E i \in 1 .. Len(K[j]) : K[j][i] = q
    BY DEF Placed
  <2>1. CASE q = N + 1
    <3>1. 1 \in 1 .. Len(K[MaxSize]) BY <1>5
    <3> QED BY <1>0, <1>5, <2>1, <3>1
  <2>2. CASE q # N + 1
    <3>1. q \in DOMAIN h.maps BY <1>2, <2>2
    <3>2. PICK j \in 0 .. MaxSize : \E i \in DOMAIN L[j] : L[j][i] = q
      BY <1>1, <3>1 DEF Layout
    <3>3. PICK i \in DOMAIN L[j] : L[j][i] = q BY <3>2
    <3>4. i \in 1 .. Len(L[j]) BY <1>1, <3>3, ListTypes
    <3>5. j # MaxSize BY <1>6, <3>4
    <3>6. j \in 0 .. MaxSize - 1 BY <1>0, <3>5
    <3> QED BY <1>3, <3>3, <3>4, <3>6
  <2> QED BY <2>1, <2>2
<1>9. Apart(K)
  <2> SUFFICES ASSUME NEW j \in 0 .. MaxSize, NEW l \in 0 .. MaxSize, NEW i \in 1 .. Len(K[j]),
                      NEW k \in 1 .. Len(K[l]), K[j][i] = K[l][k]
               PROVE  j = l /\ i = k
    BY DEF Apart
  <2>1. ASSUME NEW x \in 0 .. MaxSize, NEW y \in 1 .. Len(K[x])
        PROVE  IF x = MaxSize THEN y = 1 /\ K[x][y] = N + 1
               ELSE K[x] = L[x] /\ K[x][y] \in 1 .. N
    <3>1. CASE x = MaxSize
      <4>1. y \in 1 .. 1 BY <1>5, <3>1
      <4>2. y = 1 BY <4>1
      <4> QED BY <1>5, <3>1, <4>2
    <3>2. CASE x # MaxSize
      <4>1. x \in 0 .. MaxSize - 1 BY <1>0, <3>2
      <4>2. K[x] = L[x] BY <1>3, <4>1
      <4> QED BY <1>4, <3>2, <4>2
    <3> QED BY <3>1, <3>2
  <2>2. N + 1 \notin 1 .. N BY <1>2
  <2>3. CASE j = MaxSize \/ l = MaxSize BY <2>1, <2>2, <2>3
  <2>4. CASE j # MaxSize /\ l # MaxSize
    <3>1. K[j] = L[j] /\ K[l] = L[l] BY <2>1, <2>4
    <3> QED BY <1>1, <3>1, OnePlace
  <2> QED BY <2>3, <2>4
<1>10. Layout(g, K) BY <1>7, <1>8, <1>9, LayoutBy
<1>11. ASSUME NEW m \in 0 .. MaxSize - 1
       PROVE  /\ K[m] = L[m] /\ m \in 0 .. MaxSize /\ m # MaxSize
              /\ \A i \in 1 .. Len(L[m]) : Table(g, K, m, i) = Table(h, L, m, i)
  <2>1. K[m] = L[m] /\ m \in 0 .. MaxSize /\ m # MaxSize BY <1>3
  <2>2. ASSUME NEW i \in 1 .. Len(L[m]) PROVE Table(g, K, m, i) = Table(h, L, m, i)
    <3>1. g.maps[L[m][i]] = h.maps[L[m][i]] BY <1>4, <2>1
    <3> QED BY <2>1, <3>1 DEF Table
  <2> QED BY <2>1, <2>2
<1>12. PackedIn(g, K)
  <2>1. ASSUME NEW i \in 1 .. Len(K[MaxSize]) PROVE Table(g, K, MaxSize, i) = <<>>
    <3>1. i = 1 BY <1>5
    <3> QED BY <1>2, <1>5, <3>1 DEF Table, Blank
  <2>2. ASSUME NEW m \in 0 .. MaxSize - 1, NEW i \in 1 .. Len(K[m])
        PROVE  /\ Table(g, K, m, i) # <<>> /\ Len(Table(g, K, m, i)) <= HASH_MAP_BLOCK_SIZE
               /\ i # Len(K[m]) => Len(Table(g, K, m, i)) = HASH_MAP_BLOCK_SIZE
    <3>1. /\ K[m] = L[m] /\ Table(g, K, m, i) = Table(h, L, m, i)
          /\ m \in 0 .. MaxSize /\ m # MaxSize
      BY <1>11
    <3>2. /\ Table(h, L, m, i) # <<>> /\ Len(Table(h, L, m, i)) <= HASH_MAP_BLOCK_SIZE
          /\ i # Len(L[m]) => Len(Table(h, L, m, i)) = HASH_MAP_BLOCK_SIZE
      <4>1. i \in 1 .. Len(L[m]) BY <3>1
      <4> QED BY <4>1, BucketPage
    <3> QED BY <3>1, <3>2
  <2> QED BY <2>1, <2>2 DEF PackedIn
<1>13. DistinctIn(g, K)
  <2> SUFFICES ASSUME NEW m \in 0 .. MaxSize - 1, NEW i \in 1 .. Len(K[m]), NEW k \in 1 .. Len(K[m]),
                      NEW x \in 1 .. Len(Table(g, K, m, i)), NEW y \in 1 .. Len(Table(g, K, m, k)),
                      Table(g, K, m, i)[x] = Table(g, K, m, k)[y]
               PROVE  i = k /\ x = y
    BY DEF DistinctIn
  <2>1. /\ K[m] = L[m]
        /\ Table(g, K, m, i) = Table(h, L, m, i) /\ Table(g, K, m, k) = Table(h, L, m, k)
    BY <1>11
  <2> QED BY <2>1, OneEntry
<1>14. SoundAs(g, A, K) BY <1>2, <1>3, <1>10, <1>12, <1>13, SoundBy
<1> QED BY <1>5, <1>14 DEF g, K

\* A page of addr alone is hung behind the last of bucket m.
Hung(h, L, m, addr) ==
    IF L[m] = <<>> THEN [WithPage(h, addr) EXCEPT !.dir[m] = NewPage(h)]
    ELSE [WithPage(h, addr) EXCEPT !.maps[L[m][Len(L[m])]].next = NewPage(h)]

(* What new_page does when there is a free page: it is taken off the free   *)
(* list and lists addr alone.                                               *)
LEMMA WithPageFree ==
  ASSUME NEW A, NEW h, IsMap(h, A), NEW addr \in A, h.free \in DOMAIN h.maps
  PROVE  LET w == WithPage(h, addr)
         IN  /\ IsMap(w, A) /\ DOMAIN w.maps = DOMAIN h.maps
             /\ w.dir = h.dir /\ w.free = h.maps[h.free].next
             /\ w.maps[h.free] = [next |-> NoPage, table |-> <<addr>>]
             /\ \A q \in DOMAIN h.maps : q # h.free => w.maps[q] = h.maps[q]
             /\ NewPage(h) = h.free
<1> DEFINE w == WithPage(h, addr)
           N == Len(h.maps)
           new == [next |-> NoPage, table |-> <<addr>>]
           v == [h EXCEPT !.maps[h.free] = new, !.free = h.maps[h.free].next]
<1>1. /\ IsRecord(h)
      /\ h.dir \in [0 .. MaxSize - 1 -> {NoEntry} \union 1 .. N]
      /\ h.maps \in [1 .. N -> Pages(A)] /\ N \in Nat /\ DOMAIN h.maps = 1 .. N
  BY MapFields DEF IsRecord
<1>2. h.free # NoPage
  <2> HIDE DEF N
  <2> QED BY <1>1 DEF NoPage
<1>3. w = v /\ NewPage(h) = h.free BY <1>2 DEF WithPage, NewPage
<1>4. v.dir = h.dir /\ v.maps = [h.maps EXCEPT ![h.free] = new] /\ v.free = h.maps[h.free].next
  BY <1>1 DEF IsRecord
<1>5. IsRecord(v)
  <2>1. DOMAIN v = {"dir", "maps", "free"} BY <1>1 DEF IsRecord
  <2>2. v = [x \in DOMAIN v |-> v[x]] BY <2>1
  <2> QED BY <2>1, <2>2, RecordBy
<1>6. new \in Pages(A)
  <2>1. <<>> \in Seq(A) BY EmptySeq
  <2>2. Append(<<>>, addr) \in Seq(A) BY <2>1, AppendProperties
  <2> QED BY <2>2 DEF Pages, NoPage
<1>7. h.maps[h.free].next \in Nat BY MapPage
<1> HIDE DEF v, new, w, N
<1>8. IsMap(v, A) /\ DOMAIN v.maps = 1 .. N
  <2>1. v.maps \in [1 .. N -> Pages(A)] BY <1>1, <1>4, <1>6
  <2>2. v = [dir |-> v.dir, maps |-> v.maps, free |-> v.free] BY <1>5 DEF IsRecord
  <2>3. v.dir \in [0 .. MaxSize - 1 -> {NoEntry} \union 1 .. N] /\ v.free \in Nat
    BY <1>1, <1>4, <1>7
  <2> QED BY <1>1, <2>1, <2>2, <2>3, MapBy
<1>9. v.maps[h.free] = new /\ \A q \in DOMAIN h.maps : q # h.free => v.maps[q] = h.maps[q]
  BY <1>1, <1>4
<1> QED BY <1>1, <1>3, <1>4, <1>8, <1>9 DEF w, new

(* A page hung behind a bucket from a free list that has one: what the      *)
(* fields are then.                                                         *)
LEMMA HungMap ==
  ASSUME NEW A, NEW h, NEW L, SoundAs(h, A, L), NEW m \in 0 .. MaxSize - 1,
         NEW addr \in A, L[MaxSize] # <<>>
  PROVE  LET g == Hung(h, L, m, addr)
             p == L[MaxSize][1]
             e == L[m][Len(L[m])]
         IN  /\ IsMap(g, A) /\ DOMAIN g.maps = DOMAIN h.maps
             /\ g.free = h.maps[p].next
             /\ L[m] = <<>> => g.dir[m] = p
             /\ L[m] # <<>> => g.dir[m] = h.dir[m] /\ g.maps[e].next = p
             /\ \A j \in 0 .. MaxSize - 1 : j # m => g.dir[j] = h.dir[j]
             /\ g.maps[p] = [next |-> NoPage, table |-> <<addr>>]
             /\ \A q \in DOMAIN h.maps : q # p =>
                   /\ g.maps[q].table = h.maps[q].table
                   /\ L[m] = <<>> \/ q # e => g.maps[q].next = h.maps[q].next
<1> DEFINE g == Hung(h, L, m, addr)
           p == L[MaxSize][1]
           e == L[m][Len(L[m])]
           w == WithPage(h, addr)
           new == [next |-> NoPage, table |-> <<addr>>]
<1>0. MaxSize \in Nat /\ MaxSize \in 0 .. MaxSize /\ m \in 0 .. MaxSize /\ m # MaxSize
  BY HashMapAssumption
<1>1. IsMap(h, A) /\ Layout(h, L) BY DEF SoundAs
<1>2. h.free = p BY <1>1, FreeIsList
<1>3. p \in DOMAIN h.maps BY <1>0, <1>1, ListTypes
<1>4. /\ IsMap(w, A) /\ DOMAIN w.maps = DOMAIN h.maps
      /\ w.dir = h.dir /\ w.free = h.maps[p].next /\ w.maps[p] = new
      /\ \A q \in DOMAIN h.maps : q # p => w.maps[q] = h.maps[q]
      /\ NewPage(h) = p
  <2> HIDE DEF p
  <2>1. h.free \in DOMAIN h.maps BY <1>2, <1>3
  <2> QED BY <1>1, <1>2, <2>1, WithPageFree
<1>5. Len(w.maps) \in Nat /\ DOMAIN w.maps = 1 .. Len(w.maps) BY <1>4, MapTypes
<1>6. /\ IsRecord(w)
      /\ w.dir \in [0 .. MaxSize - 1 -> {NoEntry} \union 1 .. Len(w.maps)]
      /\ w.maps \in [1 .. Len(w.maps) -> Pages(A)] /\ w.free \in Nat
  BY <1>4, MapFields DEF IsRecord
<1> HIDE DEF w, p
<1>7. CASE L[m] = <<>>
  <2> DEFINE v == [w EXCEPT !.dir[m] = p]
  <2>1. g = v BY <1>4, <1>7 DEF Hung, w
  <2>2. v.dir = [w.dir EXCEPT ![m] = p] /\ v.maps = w.maps /\ v.free = w.free
    BY <1>6 DEF IsRecord
  <2>3. IsRecord(v)
    <3>1. DOMAIN v = {"dir", "maps", "free"} BY <1>6 DEF IsRecord
    <3>2. v = [x \in DOMAIN v |-> v[x]] BY <3>1
    <3> QED BY <3>1, <3>2, RecordBy
  <2> HIDE DEF v
  <2>4. IsMap(v, A)
    <3>1. v = [dir |-> v.dir, maps |-> v.maps, free |-> v.free] BY <2>3 DEF IsRecord
    <3>2. v.dir \in [0 .. MaxSize - 1 -> {NoEntry} \union 1 .. Len(w.maps)]
      BY <1>3, <1>4, <1>5, <1>6, <2>2
    <3>3. v.maps \in [1 .. Len(w.maps) -> Pages(A)] /\ v.free \in Nat BY <1>6, <2>2
    <3> QED BY <1>5, <3>1, <3>2, <3>3, MapBy
  <2>5. v.dir[m] = p /\ \A j \in 0 .. MaxSize - 1 : j # m => v.dir[j] = h.dir[j]
    BY <1>4, <1>6, <2>2
  <2>6. g.dir[m] = p /\ g.free = h.maps[p].next /\ g.maps = w.maps BY <1>4, <2>1, <2>2, <2>5
  <2> HIDE DEF g
  <2> QED BY <1>4, <1>7, <2>1, <2>4, <2>5, <2>6 DEF g, p
<1>8. CASE L[m] # <<>>
  <2> DEFINE v == [w EXCEPT !.maps[e].next = p]
  <2>1. g = v BY <1>4, <1>8 DEF Hung, w
  <2>2. e \in DOMAIN h.maps /\ e # p
    <3> DEFINE b == Len(L[m])
    <3>1. b \in 1 .. Len(L[m]) /\ 1 \in 1 .. Len(L[MaxSize]) BY <1>0, <1>1, <1>8, ListTypes
    <3>2. e \in DOMAIN h.maps BY <1>0, <1>1, <3>1, ListTypes
    <3>3. e # p BY <1>0, <1>1, <3>1, OnePlace DEF p
    <3> QED BY <3>2, <3>3
  <2> HIDE DEF e
  <2>3. v.dir = w.dir /\ v.maps = [w.maps EXCEPT ![e].next = p] /\ v.free = w.free
    BY <1>6 DEF IsRecord
  <2>4. IsRecord(v)
    <3>1. DOMAIN v = {"dir", "maps", "free"} BY <1>6 DEF IsRecord
    <3>2. v = [x \in DOMAIN v |-> v[x]] BY <3>1
    <3> QED BY <3>1, <3>2, RecordBy
  <2> HIDE DEF v
  <2>5. e \in 1 .. Len(w.maps) /\ p \in 1 .. Len(w.maps) /\ p \in Nat
    BY <1>3, <1>4, <1>5, <2>2
  <2>6. /\ DOMAIN v.maps = 1 .. Len(w.maps)
        /\ \A q \in 1 .. Len(w.maps) : q # e => v.maps[q] = w.maps[q]
        /\ v.maps[e] = [w.maps[e] EXCEPT !.next = p]
    BY <1>6, <2>3, <2>5
  <2>7. w.maps[e] \in Pages(A) BY <1>6, <2>5
  <2>8. v.maps[e].next = p /\ v.maps[e].table = w.maps[e].table /\ v.maps[e] \in Pages(A)
    BY <2>5, <2>6, <2>7 DEF Pages
  <2>9. IsMap(v, A)
    <3>1. v = [dir |-> v.dir, maps |-> v.maps, free |-> v.free] BY <2>4 DEF IsRecord
    <3>2. v.maps \in [1 .. Len(w.maps) -> Pages(A)]
      <4>1. \A q \in 1 .. Len(w.maps) : v.maps[q] \in Pages(A) BY <1>6, <2>6, <2>8
      <4>2. v.maps = [q \in 1 .. Len(w.maps) |-> v.maps[q]] BY <1>6, <2>3, <2>6
      <4> QED BY <4>1, <4>2
    <3> QED BY <1>5, <1>6, <2>3, <3>1, <3>2, MapBy
  <2>10. \A q \in DOMAIN h.maps : q # p =>
            v.maps[q].table = h.maps[q].table /\ (q # e => v.maps[q].next = h.maps[q].next)
    BY <1>4, <1>5, <2>6, <2>8
  <2>11. v.maps[p] = new BY <1>4, <2>2, <2>5, <2>6
  <2>12. v.dir = h.dir /\ v.free = h.maps[p].next /\ DOMAIN v.maps = DOMAIN h.maps
    BY <1>4, <1>5, <2>3, <2>6
  <2> HIDE DEF g, new
  <2> QED BY <1>8, <2>1, <2>8, <2>9, <2>10, <2>11, <2>12 DEF g, new, p, e
<1> QED BY <1>7, <1>8

(* A number of b + 1 that is not the last.                                  *)
LEMMA NotLast ==
  ASSUME NEW b \in Nat, NEW f \in 1 .. b + 1, f # b + 1
  PROVE  f \in 1 .. b
OBVIOUS

(* Hung on a bucket that is full and lacks addr, the page leaves it sound.  *)
LEMMA HungFreeSound ==
  ASSUME NEW A, NEW h, NEW L, SoundAs(h, A, L), NEW m \in 0 .. MaxSize - 1,
         NEW addr \in A, L[MaxSize] # <<>>, Lacks(h, L, m, addr),
         L[m] # <<>> => Len(Table(h, L, m, Len(L[m]))) = HASH_MAP_BLOCK_SIZE
  PROVE  SoundAs(Hung(h, L, m, addr), A, Taken(L, m))
<1> DEFINE g == Hung(h, L, m, addr)
           K == Taken(L, m)
           p == L[MaxSize][1]
           e == L[m][Len(L[m])]
           b == Len(L[m])
           c == Len(L[MaxSize])
<1>0. /\ MaxSize \in Nat /\ MaxSize \in 0 .. MaxSize /\ m \in 0 .. MaxSize /\ m # MaxSize
      /\ 1 <= HASH_MAP_BLOCK_SIZE
  BY HashMapAssumption
<1>1. IsMap(h, A) /\ Layout(h, L) BY DEF SoundAs
<1>2. /\ IsMap(g, A) /\ DOMAIN g.maps = DOMAIN h.maps
      /\ g.free = h.maps[p].next
      /\ L[m] = <<>> => g.dir[m] = p
      /\ L[m] # <<>> => g.dir[m] = h.dir[m] /\ g.maps[e].next = p
      /\ \A j \in 0 .. MaxSize - 1 : j # m => g.dir[j] = h.dir[j]
      /\ g.maps[p] = [next |-> NoPage, table |-> <<addr>>]
      /\ \A q \in DOMAIN h.maps : q # p =>
            /\ g.maps[q].table = h.maps[q].table
            /\ L[m] = <<>> \/ q # e => g.maps[q].next = h.maps[q].next
  BY HungMap
<1>3. /\ K[m] \in Seq(DOMAIN h.maps) /\ Len(K[m]) = b + 1
      /\ \A i \in 1 .. b : K[m][i] = L[m][i]
      /\ K[m][b + 1] = p
      /\ K[MaxSize] \in Seq(DOMAIN h.maps) /\ Len(K[MaxSize]) = c - 1
      /\ \A i \in 1 .. c - 1 : K[MaxSize][i] = L[MaxSize][i + 1]
      /\ \A j \in 0 .. MaxSize : j # m /\ j # MaxSize => K[j] = L[j]
  <2>1. Layout(h, L) BY <1>1
  <2>2. /\ K[m] \in Seq(DOMAIN h.maps) /\ Len(K[m]) = Len(L[m]) + 1 /\ K[m] # <<>>
        /\ DOMAIN K[m] = 1 .. Len(L[m]) + 1
        /\ \A i \in 1 .. Len(L[m]) : K[m][i] = L[m][i]
        /\ K[m][Len(L[m]) + 1] = L[MaxSize][1]
        /\ K[MaxSize] \in Seq(DOMAIN h.maps) /\ Len(K[MaxSize]) = Len(L[MaxSize]) - 1
        /\ DOMAIN K[MaxSize] = 1 .. Len(L[MaxSize]) - 1
        /\ \A i \in 1 .. Len(L[MaxSize]) - 1 : K[MaxSize][i] = L[MaxSize][i + 1]
        /\ \A j \in 0 .. MaxSize : j # m /\ j # MaxSize => K[j] = L[j]
    BY <2>1, TakenLists
  <2> QED BY <2>2
<1>4. K = [j \in 0 .. MaxSize |-> K[j]] BY DEF Taken
<1>5. b \in Nat /\ c \in Nat \ {0} /\ 1 \in 1 .. c BY <1>0, <1>1, ListTypes, EmptySeq
<1> HIDE DEF g, K
<1>6. Layout(g, K)
  <2>1. First(g, MaxSize) = h.maps[p].next BY <1>2 DEF First
  <2>2. ASSUME NEW j \in 0 .. MaxSize - 1
        PROVE  First(g, j) = IF g.dir[j] = NoEntry THEN NoPage ELSE g.dir[j]
    BY <1>0 DEF First
  <2>3. ASSUME NEW j \in 0 .. MaxSize - 1
        PROVE  First(h, j) = IF h.dir[j] = NoEntry THEN NoPage ELSE h.dir[j]
    BY <1>0 DEF First
  <2>4. p \in Nat
    <3>1. p \in DOMAIN h.maps BY <1>0, <1>1, ListTypes
    <3>2. Len(h.maps) \in Nat /\ DOMAIN h.maps = 1 .. Len(h.maps) BY <1>1, MapTypes
    <3> HIDE DEF p
    <3> QED BY <3>1, <3>2
  <2>5. L[m] = <<>> => First(g, m) = p
    <3> HIDE DEF p
    <3> QED BY <1>2, <2>2, <2>4 DEF NoEntry
  <2>6. L[m] # <<>> => First(g, m) = First(h, m) BY <1>2, <2>2, <2>3
  <2>7. \A j \in 0 .. MaxSize - 1 : j # m => First(g, j) = First(h, j) BY <1>2, <2>2, <2>3
  <2>8. g.maps[p].next = NoPage BY <1>2
  <2>9. \A q \in DOMAIN h.maps :
           q # p /\ (L[m] = <<>> \/ q # e) => g.maps[q].next = h.maps[q].next
    BY <1>2
  <2>10. DOMAIN g.maps = DOMAIN h.maps /\ (L[m] # <<>> => g.maps[e].next = p) BY <1>2
  <2> QED BY <1>1, <2>1, <2>5, <2>6, <2>7, <2>8, <2>9, <2>10, TakenLayout DEF K
<1>7. ASSUME NEW j \in 0 .. MaxSize, NEW i \in 1 .. Len(L[j]), j # MaxSize \/ i # 1
      PROVE  g.maps[L[j][i]].table = Table(h, L, j, i)
  <2>1. L[j][i] \in DOMAIN h.maps BY <1>1, ListTypes
  <2>2. L[j][i] # p
    <3> SUFFICES ASSUME L[j][i] = p PROVE FALSE OBVIOUS
    <3>1. 1 \in 1 .. Len(L[MaxSize]) BY <1>5
    <3>2. j = MaxSize /\ i = 1 BY <1>0, <1>1, <3>1, OnePlace
    <3> QED BY <1>7, <3>2
  <2> QED BY <1>2, <2>1, <2>2 DEF Table
<1>8. ASSUME NEW j \in 0 .. MaxSize - 1, NEW i \in 1 .. Len(L[j])
      PROVE  Table(g, K, j, i) = Table(h, L, j, i)
  <2>1. j \in 0 .. MaxSize /\ j # MaxSize BY <1>0
  <2>2. K[j][i] = L[j][i] BY <1>3, <2>1
  <2> QED BY <1>7, <2>1, <2>2 DEF Table
<1>9. Table(g, K, m, b + 1) = <<addr>> BY <1>2, <1>3 DEF Table
<1>10. PackedIn(g, K)
  <2>1. ASSUME NEW i \in 1 .. Len(K[MaxSize]) PROVE Table(g, K, MaxSize, i) = <<>>
    <3>1. i \in 1 .. c - 1 BY <1>3
    <3>2. i + 1 \in 1 .. c /\ i + 1 # 1
      <4> HIDE DEF c
      <4> QED BY <1>5, <3>1
    <3>3. g.maps[L[MaxSize][i + 1]].table = Table(h, L, MaxSize, i + 1) BY <1>0, <1>7, <3>2
    <3>4. Table(h, L, MaxSize, i + 1) = <<>> BY <3>2, FreePage
    <3>5. K[MaxSize][i] = L[MaxSize][i + 1] BY <1>3, <3>1
    <3> QED BY <3>3, <3>4, <3>5 DEF Table
  <2>2. ASSUME NEW j \in 0 .. MaxSize - 1, NEW i \in 1 .. Len(K[j])
        PROVE  /\ Table(g, K, j, i) # <<>> /\ Len(Table(g, K, j, i)) <= HASH_MAP_BLOCK_SIZE
               /\ i # Len(K[j]) => Len(Table(g, K, j, i)) = HASH_MAP_BLOCK_SIZE
    <3>1. CASE j = m /\ i = b + 1
      <4>1. Len(<<addr>>) = 1 /\ <<addr>> # <<>> OBVIOUS
      <4> QED BY <1>0, <1>3, <1>9, <3>1, <4>1
    <3>2. CASE j = m /\ i # b + 1
      <4>1. i \in 1 .. b
        <5>1. i \in 1 .. b + 1 BY <1>3, <3>2
        <5> HIDE DEF b
        <5> QED BY <1>5, <3>2, <5>1
      <4>2. Table(g, K, m, i) = Table(h, L, m, i) BY <1>8, <4>1
      <4>3. /\ Table(h, L, m, i) # <<>> /\ Len(Table(h, L, m, i)) <= HASH_MAP_BLOCK_SIZE
            /\ i # b => Len(Table(h, L, m, i)) = HASH_MAP_BLOCK_SIZE
        BY <4>1, BucketPage
      <4>4. i = b => Len(Table(h, L, m, i)) = HASH_MAP_BLOCK_SIZE
        <5>1. i = b => L[m] # <<>> BY <4>1
        <5> QED BY <5>1
      <4> QED BY <3>2, <4>2, <4>3, <4>4
    <3>3. CASE j # m
      <4>1. j \in 0 .. MaxSize /\ j # MaxSize BY <1>0
      <4>2. K[j] = L[j] BY <1>3, <3>3, <4>1
      <4>3. i \in 1 .. Len(L[j]) BY <4>2
      <4>4. Table(g, K, j, i) = Table(h, L, j, i) BY <1>8, <4>3
      <4>5. /\ Table(h, L, j, i) # <<>> /\ Len(Table(h, L, j, i)) <= HASH_MAP_BLOCK_SIZE
            /\ i # Len(L[j]) => Len(Table(h, L, j, i)) = HASH_MAP_BLOCK_SIZE
        BY <4>3, BucketPage
      <4> QED BY <4>2, <4>4, <4>5
    <3> QED BY <3>1, <3>2, <3>3
  <2> QED BY <2>1, <2>2 DEF PackedIn
<1>11. DistinctIn(g, K)
  <2> SUFFICES ASSUME NEW j \in 0 .. MaxSize - 1, NEW i \in 1 .. Len(K[j]), NEW k \in 1 .. Len(K[j]),
                      NEW x \in 1 .. Len(Table(g, K, j, i)), NEW y \in 1 .. Len(Table(g, K, j, k)),
                      Table(g, K, j, i)[x] = Table(g, K, j, k)[y]
               PROVE  i = k /\ x = y
    BY DEF DistinctIn
  <2>1. CASE j # m
    <3>1. j \in 0 .. MaxSize /\ j # MaxSize BY <1>0
    <3>2. K[j] = L[j] BY <1>3, <2>1, <3>1
    <3>3. i \in 1 .. Len(L[j]) /\ k \in 1 .. Len(L[j]) BY <3>2
    <3>4. Table(g, K, j, i) = Table(h, L, j, i) /\ Table(g, K, j, k) = Table(h, L, j, k)
      BY <1>8, <3>3
    <3> QED BY <3>3, <3>4, OneEntry
  <2>2. CASE j = m
    <3>1. ASSUME NEW f \in 1 .. Len(K[m]), NEW z \in 1 .. Len(Table(g, K, m, f))
          PROVE  IF f = b + 1 THEN z = 1 /\ Table(g, K, m, f)[z] = addr
                 ELSE /\ f \in 1 .. b /\ Table(g, K, m, f) = Table(h, L, m, f)
                      /\ Table(g, K, m, f)[z] # addr
      <4>1. CASE f = b + 1
        <5>1. Table(g, K, m, f) = <<addr>> BY <1>9, <4>1
        <5>2. z \in 1 .. 1 BY <5>1
        <5>3. z = 1 BY <5>2
        <5> QED BY <4>1, <5>1, <5>3
      <4>2. CASE f # b + 1
        <5>1. f \in 1 .. b
          <6>1. f \in 1 .. b + 1 /\ b \in Nat /\ f # b + 1 BY <1>3, <1>5, <4>2
          <6> HIDE DEF b
          <6> QED BY <6>1, NotLast
        <5>2. Table(g, K, m, f) = Table(h, L, m, f) BY <1>8, <5>1
        <5>3. Table(h, L, m, f)[z] # addr BY <5>1, <5>2 DEF Lacks
        <5> QED BY <4>2, <5>1, <5>2, <5>3
      <4> QED BY <4>1, <4>2
    <3>2. CASE i = b + 1 \/ k = b + 1 BY <2>2, <3>1, <3>2
    <3>3. CASE i # b + 1 /\ k # b + 1
      <4>1. /\ i \in 1 .. b /\ Table(g, K, m, i) = Table(h, L, m, i)
            /\ k \in 1 .. b /\ Table(g, K, m, k) = Table(h, L, m, k)
        BY <2>2, <3>1, <3>3
      <4> QED BY <2>2, <4>1, OneEntry
    <3> QED BY <3>2, <3>3
  <2> QED BY <2>1, <2>2
<1>12. SoundAs(g, A, K) BY <1>2, <1>4, <1>6, <1>10, <1>11, SoundBy
<1> QED BY <1>12 DEF g, K

(* The same, whether a page is free or not: a new one goes behind the others. *)
LEMMA HungSound ==
  ASSUME NEW A, NEW h, NEW L, SoundAs(h, A, L), NEW m \in 0 .. MaxSize - 1,
         NEW addr \in A, Lacks(h, L, m, addr),
         L[m] # <<>> => Len(Table(h, L, m, Len(L[m]))) = HASH_MAP_BLOCK_SIZE
  PROVE  SoundMap(Hung(h, L, m, addr), A)
<1>1. CASE L[MaxSize] # <<>> BY <1>1, HungFreeSound, SoundAsIs
<1>2. CASE L[MaxSize] = <<>>
  <2> DEFINE g == Extended(h)
             K == ExtendedLists(h, L)
             N == Len(h.maps)
             new == [next |-> NoPage, table |-> <<addr>>]
  <2>0. IsMap(h, A) /\ Layout(h, L) BY DEF SoundAs
  <2>1. /\ SoundAs(g, A, K) /\ K[MaxSize] # <<>>
        /\ K[m] = L[m] /\ \A i \in 1 .. Len(L[m]) : Table(g, K, m, i) = Table(h, L, m, i)
    BY <1>2, ExtendedSound, ExtendedTables
  <2>2. /\ IsMap(g, A) /\ DOMAIN g.maps = 1 .. N + 1 /\ N \in Nat /\ DOMAIN h.maps = 1 .. N
        /\ \A q \in 1 .. N : g.maps[q] = h.maps[q]
        /\ g.maps[N + 1] = Blank /\ g.dir = h.dir /\ g.free = N + 1
    BY <2>0, ExtendedMap, Zenon
  <2>3. h.free = NoPage BY <1>2, <2>0, FreeIsList
  <2> HIDE DEF g, K, N
  <2>4. N + 1 \in DOMAIN g.maps BY <2>2
  <2>5. /\ IsMap(WithPage(g, addr), A) /\ DOMAIN WithPage(g, addr).maps = DOMAIN g.maps
        /\ WithPage(g, addr).dir = g.dir /\ WithPage(g, addr).free = g.maps[g.free].next
        /\ WithPage(g, addr).maps[g.free] = new
        /\ \A q \in DOMAIN g.maps : q # g.free => WithPage(g, addr).maps[q] = g.maps[q]
        /\ NewPage(g) = g.free
    BY <2>2, <2>4, WithPageFree
  <2>6. NewPage(h) = N + 1 BY <2>3 DEF NewPage, N
  <2>7. WithPage(g, addr) = WithPage(h, addr)
    <3> DEFINE w == WithPage(g, addr)
               v == [h EXCEPT !.maps = Append(@, new)]
    <3>1. WithPage(h, addr) = v BY <2>3 DEF WithPage
    <3>2. IsRecord(h) BY <2>0, MapFields DEF IsRecord
    <3>3. v.dir = h.dir /\ v.maps = Append(h.maps, new) /\ v.free = h.free
      BY <3>2 DEF IsRecord
    <3>4. IsRecord(v)
      <4>1. DOMAIN v = {"dir", "maps", "free"} BY <3>2 DEF IsRecord
      <4>2. v = [x \in DOMAIN v |-> v[x]] BY <4>1
      <4> QED BY <4>1, <4>2, RecordBy
    <3>5. IsRecord(w) BY <2>5, MapFields DEF IsRecord
    <3>6. w.dir = v.dir BY <2>2, <2>5, <3>3
    <3>7. w.free = v.free BY <2>2, <2>3, <2>5, <3>3 DEF Blank
    <3>8. w.maps = v.maps
      <4>1. new \in Pages(A)
        <5>1. <<>> \in Seq(A) BY EmptySeq
        <5>2. Append(<<>>, addr) \in Seq(A) BY <5>1, AppendProperties
        <5> QED BY <5>2 DEF Pages, NoPage
      <4>2. h.maps \in Seq(Pages(A)) BY <2>0 DEF IsMap, Pages
      <4>3. /\ Append(h.maps, new) \in Seq(Pages(A)) /\ Len(Append(h.maps, new)) = N + 1
            /\ \A q \in 1 .. N : Append(h.maps, new)[q] = h.maps[q]
            /\ Append(h.maps, new)[N + 1] = new
        <5> HIDE DEF new
        <5> QED BY <4>1, <4>2, AppendProperties DEF N
      <4>4. w.maps \in [1 .. N + 1 -> Pages(A)]
        <5>1. /\ w.maps \in [1 .. Len(w.maps) -> Pages(A)] BY <2>5, MapFields
        <5>2. DOMAIN w.maps = 1 .. N + 1 BY <2>2, <2>5
        <5> HIDE DEF w
        <5> QED BY <5>1, <5>2
      <4>5. v.maps \in [1 .. N + 1 -> Pages(A)] BY <3>3, <4>3, LenProperties
      <4>6. ASSUME NEW q \in 1 .. N + 1 PROVE w.maps[q] = v.maps[q]
        <5>1. CASE q = N + 1
          <6>1. w.maps[q] = new BY <2>2, <2>5, <5>1
          <6>2. v.maps[q] = new BY <3>3, <4>3, <5>1
          <6> QED BY <6>1, <6>2
        <5>2. CASE q # N + 1
          <6>1. q \in 1 .. N BY <2>2, <5>2
          <6>2. w.maps[q] = g.maps[q] BY <2>2, <2>5, <5>2
          <6>3. g.maps[q] = h.maps[q] BY <2>2, <6>1
          <6>4. v.maps[q] = h.maps[q] BY <3>3, <4>3, <6>1
          <6> QED BY <6>2, <6>3, <6>4
        <5> QED BY <5>1, <5>2
      <4> HIDE DEF w, v
      <4>7. w.maps = [q \in 1 .. N + 1 |-> w.maps[q]] BY <4>4
      <4>8. v.maps = [q \in 1 .. N + 1 |-> v.maps[q]] BY <4>5
      <4> QED BY <4>6, <4>7, <4>8
    <3> HIDE DEF w, v
    <3>9. w = v BY <3>4, <3>5, <3>6, <3>7, <3>8, RecordEqual
    <3> QED BY <3>1, <3>9 DEF w
  <2>8. Hung(g, K, m, addr) = Hung(h, L, m, addr) BY <2>1, <2>2, <2>5, <2>6, <2>7 DEF Hung
  <2>9. Lacks(g, K, m, addr)
    <3> SUFFICES ASSUME NEW i \in 1 .. Len(K[m]), NEW x \in 1 .. Len(Table(g, K, m, i))
                 PROVE  Table(g, K, m, i)[x] # addr
      BY DEF Lacks
    <3>1. i \in 1 .. Len(L[m]) /\ Table(g, K, m, i) = Table(h, L, m, i) BY <2>1
    <3> QED BY <3>1 DEF Lacks
  <2>10. K[m] # <<>> => Len(Table(g, K, m, Len(K[m]))) = HASH_MAP_BLOCK_SIZE
    <3>1. m \in 0 .. MaxSize BY HashMapAssumption
    <3>2. L[m] # <<>> => Len(L[m]) \in 1 .. Len(L[m]) BY <2>0, <3>1, ListTypes
    <3> QED BY <2>1, <3>2
  <2>11. SoundMap(Hung(g, K, m, addr), A)
    BY <2>1, <2>9, <2>10, HungFreeSound, SoundAsIs
  <2> QED BY <2>8, <2>11
<1> QED BY <1>1, <1>2

\* The last page of bucket m is freed.
Released(h, L, m) ==
    LET b == Len(L[m])
        p == L[m][b]
        gone == [next |-> h.free, table |-> <<>>]
    IN  IF b = 1 THEN [h EXCEPT !.maps[p] = gone, !.dir[m] = NoEntry, !.free = p]
        ELSE [h EXCEPT !.maps[p] = gone, !.maps[L[m][b - 1]].next = h.maps[p].next, !.free = p]

\* What that changes.
AsReleased(g, A, h, L, m) ==
    LET b == Len(L[m])
        p == L[m][b]
        e == L[m][b - 1]
    IN  /\ IsMap(g, A) /\ DOMAIN g.maps = DOMAIN h.maps
        /\ g.free = p
        /\ b = 1 => g.dir[m] = NoEntry
        /\ b # 1 => g.dir[m] = h.dir[m] /\ g.maps[e].next = NoPage
        /\ \A j \in 0 .. MaxSize - 1 : j # m => g.dir[j] = h.dir[j]
        /\ g.maps[p] = [next |-> h.free, table |-> <<>>]
        /\ \A q \in DOMAIN h.maps : q # p =>
              /\ g.maps[q].table = h.maps[q].table
              /\ b = 1 \/ q # e => g.maps[q].next = h.maps[q].next

(* The pages of the map without the last of a bucket.                       *)
LEMMA ReleasedMap ==
  ASSUME NEW A, NEW h, NEW L, SoundAs(h, A, L), NEW m \in 0 .. MaxSize - 1, L[m] # <<>>
  PROVE  AsReleased(Released(h, L, m), A, h, L, m)
<1> DEFINE g == Released(h, L, m)
           b == Len(L[m])
           p == L[m][b]
           e == L[m][b - 1]
           N == Len(h.maps)
           gone == [next |-> h.free, table |-> <<>>]
<1>0. MaxSize \in Nat /\ m \in 0 .. MaxSize BY HashMapAssumption
<1>1. IsMap(h, A) /\ Layout(h, L) BY DEF SoundAs
<1>2. /\ IsRecord(h)
      /\ h.dir \in [0 .. MaxSize - 1 -> {NoEntry} \union 1 .. N]
      /\ h.maps \in [1 .. N -> Pages(A)] /\ N \in Nat /\ DOMAIN h.maps = 1 .. N
      /\ h.free \in Nat
  BY <1>1, MapFields DEF IsRecord
<1>3. b \in Nat /\ b # 0 /\ b \in 1 .. b BY <1>0, <1>1, ListTypes, EmptySeq
<1>4. p \in 1 .. N
  <2>1. p \in DOMAIN h.maps BY <1>0, <1>1, <1>3, ListTypes
  <2> HIDE DEF p, N
  <2> QED BY <1>2, <2>1
<1>5. h.maps[p].next = NoPage BY <1>0, <1>1, <1>3, LayoutFacts
<1>6. gone \in Pages(A)
  <2>1. <<>> \in Seq(A) BY EmptySeq
  <2> QED BY <1>2, <2>1 DEF Pages
<1>7. p \in Nat
  <2> HIDE DEF p, N
  <2> QED BY <1>2, <1>4
<1>8. CASE b = 1
  <2> DEFINE v == [h EXCEPT !.maps[p] = gone, !.dir[m] = NoEntry, !.free = p]
  <2>1. g = v BY <1>8 DEF Released
  <2> HIDE DEF p, b, gone, N
  <2>2. v.dir = [h.dir EXCEPT ![m] = NoEntry] /\ v.maps = [h.maps EXCEPT ![p] = gone] /\ v.free = p
    BY <1>2 DEF IsRecord
  <2>3. IsRecord(v)
    <3>1. DOMAIN v = {"dir", "maps", "free"} BY <1>2 DEF IsRecord
    <3>2. v = [x \in DOMAIN v |-> v[x]] BY <3>1
    <3> QED BY <3>1, <3>2, RecordBy
  <2> HIDE DEF v
  <2>4. v.dir \in [0 .. MaxSize - 1 -> {NoEntry} \union 1 .. N] BY <1>2, <2>2
  <2>5. v.maps \in [1 .. N -> Pages(A)] BY <1>2, <1>6, <2>2
  <2>6. v = [dir |-> v.dir, maps |-> v.maps, free |-> v.free] BY <2>3 DEF IsRecord
  <2>7. v.free \in Nat BY <1>7, <2>2
  <2>8. IsMap(v, A) BY <1>2, <2>4, <2>5, <2>6, <2>7, MapBy
  <2>9. v.dir[m] = NoEntry /\ \A j \in 0 .. MaxSize - 1 : j # m => v.dir[j] = h.dir[j]
    BY <1>2, <2>2
  <2>10. /\ DOMAIN v.maps = DOMAIN h.maps /\ v.maps[p] = gone
         /\ \A q \in DOMAIN h.maps : q # p => v.maps[q] = h.maps[q]
    BY <1>2, <1>4, <2>2
  <2> HIDE DEF g
  <2> QED BY <1>8, <2>1, <2>2, <2>8, <2>9, <2>10 DEF AsReleased, g, gone, p, b
<1>9. CASE b # 1
  <2> DEFINE v == [h EXCEPT !.maps[p] = gone, !.maps[e].next = NoPage, !.free = p]
             w == [h.maps EXCEPT ![p] = gone]
  <2>1. g = v BY <1>5, <1>9 DEF Released
  <2>2. b - 1 \in 1 .. b
    <3> HIDE DEF b
    <3> QED BY <1>3, <1>9
  <2>3. e \in 1 .. N
    <3>1. e \in DOMAIN h.maps BY <1>0, <1>1, <2>2, ListTypes
    <3> HIDE DEF e, N
    <3> QED BY <1>2, <3>1
  <2>4. e # p
    <3> SUFFICES ASSUME e = p PROVE FALSE OBVIOUS
    <3>1. L[m][b - 1] = L[m][b] OBVIOUS
    <3>2. b - 1 \in 1 .. Len(L[m]) /\ b \in 1 .. Len(L[m]) BY <1>3, <2>2
    <3> HIDE DEF b
    <3>3. m = m /\ b - 1 = b BY <1>0, <1>1, <3>1, <3>2, OnePlace
    <3> QED BY <1>3, <3>3
  <2> HIDE DEF p, e, b, gone, N
  <2>5. v.dir = h.dir /\ v.maps = [w EXCEPT ![e].next = NoPage] /\ v.free = p
    BY <1>2 DEF IsRecord
  <2>6. IsRecord(v)
    <3>1. DOMAIN v = {"dir", "maps", "free"} BY <1>2 DEF IsRecord
    <3>2. v = [x \in DOMAIN v |-> v[x]] BY <3>1
    <3> QED BY <3>1, <3>2, RecordBy
  <2> HIDE DEF v
  <2>7. /\ w \in [1 .. N -> Pages(A)] /\ w[p] = gone
        /\ \A q \in 1 .. N : q # p => w[q] = h.maps[q]
    BY <1>2, <1>4, <1>6
  <2> HIDE DEF w
  <2>8. /\ v.maps = [q \in 1 .. N |-> v.maps[q]]
        /\ \A q \in 1 .. N : q # e => v.maps[q] = w[q]
        /\ v.maps[e] = [w[e] EXCEPT !.next = NoPage]
    BY <2>3, <2>5, <2>7
  <2>9. w[e] \in Pages(A) BY <2>3, <2>7
  <2>10. v.maps[e].next = NoPage /\ v.maps[e].table = w[e].table /\ v.maps[e] \in Pages(A)
    BY <2>8, <2>9 DEF Pages, NoPage
  <2>11. v.maps \in [1 .. N -> Pages(A)]
    <3>1. \A q \in 1 .. N : v.maps[q] \in Pages(A) BY <2>7, <2>8, <2>10
    <3> QED BY <2>8, <3>1
  <2>12. v = [dir |-> v.dir, maps |-> v.maps, free |-> v.free] BY <2>6 DEF IsRecord
  <2>13. v.free \in Nat BY <1>7, <2>5
  <2>14. v.dir \in [0 .. MaxSize - 1 -> {NoEntry} \union 1 .. N] BY <1>2, <2>5
  <2>15. IsMap(v, A) BY <1>2, <2>11, <2>12, <2>13, <2>14, MapBy
  <2>16. DOMAIN v.maps = DOMAIN h.maps BY <1>2, <2>11
  <2>17. v.maps[p] = gone BY <1>4, <2>4, <2>7, <2>8
  <2>18. \A q \in DOMAIN h.maps : q # p =>
            v.maps[q].table = h.maps[q].table /\ (q # e => v.maps[q].next = h.maps[q].next)
    BY <1>2, <2>7, <2>8, <2>10
  <2> HIDE DEF g
  <2> QED BY <1>9, <2>1, <2>5, <2>10, <2>15, <2>16, <2>17, <2>18 DEF AsReleased, g, gone, p, b, e
<1> QED BY <1>8, <1>9

(* A bucket without its last page, and that page free, are sound.           *)
LEMMA ReleasedSound ==
  ASSUME NEW A, NEW h, NEW L, SoundAs(h, A, L), NEW m \in 0 .. MaxSize - 1, L[m] # <<>>
  PROVE  LET g == Released(h, L, m)
             K == Freed(L, m)
         IN  /\ SoundAs(g, A, K)
             /\ Len(K[m]) = Len(L[m]) - 1
             /\ \A i \in 1 .. Len(L[m]) - 1 : Table(g, K, m, i) = Table(h, L, m, i)
<1> DEFINE g == Released(h, L, m)
           K == Freed(L, m)
           b == Len(L[m])
           c == Len(L[MaxSize])
           p == L[m][b]
           e == L[m][b - 1]
<1>0. /\ MaxSize \in Nat /\ MaxSize \in 0 .. MaxSize /\ m \in 0 .. MaxSize /\ m # MaxSize
      /\ 1 <= HASH_MAP_BLOCK_SIZE
  BY HashMapAssumption
<1>1. IsMap(h, A) /\ Layout(h, L) BY DEF SoundAs
<1>2. /\ IsMap(g, A) /\ DOMAIN g.maps = DOMAIN h.maps
      /\ g.free = p
      /\ b = 1 => g.dir[m] = NoEntry
      /\ b # 1 => g.dir[m] = h.dir[m] /\ g.maps[e].next = NoPage
      /\ \A j \in 0 .. MaxSize - 1 : j # m => g.dir[j] = h.dir[j]
      /\ g.maps[p] = [next |-> h.free, table |-> <<>>]
      /\ \A q \in DOMAIN h.maps : q # p =>
            /\ g.maps[q].table = h.maps[q].table
            /\ b = 1 \/ q # e => g.maps[q].next = h.maps[q].next
  <2>1. AsReleased(Released(h, L, m), A, h, L, m) BY ReleasedMap
  <2> QED BY <2>1 DEF AsReleased
<1>3. /\ K[m] \in Seq(DOMAIN h.maps) /\ Len(K[m]) = b - 1
      /\ \A i \in 1 .. b - 1 : K[m][i] = L[m][i]
      /\ K[MaxSize] \in Seq(DOMAIN h.maps) /\ Len(K[MaxSize]) = c + 1
      /\ K[MaxSize][1] = p
      /\ \A i \in 1 .. c : K[MaxSize][i + 1] = L[MaxSize][i]
      /\ \A j \in 0 .. MaxSize : j # m /\ j # MaxSize => K[j] = L[j]
  BY <1>1, FreedLists
<1>4. K = [j \in 0 .. MaxSize |-> K[j]] BY DEF Freed
<1>5. b \in Nat /\ b # 0 /\ b \in 1 .. b /\ c \in Nat BY <1>0, <1>1, ListTypes, EmptySeq
<1> HIDE DEF g, K
<1>6. Layout(g, K)
  <2>1. First(g, MaxSize) = p BY <1>2 DEF First
  <2>2. ASSUME NEW j \in 0 .. MaxSize - 1
        PROVE  First(g, j) = IF g.dir[j] = NoEntry THEN NoPage ELSE g.dir[j]
    BY <1>0 DEF First
  <2>3. ASSUME NEW j \in 0 .. MaxSize - 1
        PROVE  First(h, j) = IF h.dir[j] = NoEntry THEN NoPage ELSE h.dir[j]
    BY <1>0 DEF First
  <2>4. b = 1 => First(g, m) = NoPage BY <1>2, <2>2
  <2>5. b # 1 => First(g, m) = First(h, m) BY <1>2, <2>2, <2>3
  <2>6. \A j \in 0 .. MaxSize - 1 : j # m => First(g, j) = First(h, j) BY <1>2, <2>2, <2>3
  <2>7. g.maps[p].next = First(h, MaxSize) BY <1>2 DEF First
  <2>8. \A q \in DOMAIN h.maps :
           q # p /\ (b = 1 \/ q # e) => g.maps[q].next = h.maps[q].next
    BY <1>2
  <2>9. DOMAIN g.maps = DOMAIN h.maps /\ (b # 1 => g.maps[e].next = NoPage) BY <1>2
  <2> QED BY <1>1, <2>1, <2>4, <2>5, <2>6, <2>7, <2>8, <2>9, FreedLayout DEF K
<1>7. ASSUME NEW j \in 0 .. MaxSize, NEW i \in 1 .. Len(L[j]), j # m \/ i # b
      PROVE  g.maps[L[j][i]].table = Table(h, L, j, i)
  <2>1. L[j][i] \in DOMAIN h.maps BY <1>1, ListTypes
  <2>2. L[j][i] # p
    <3> SUFFICES ASSUME L[j][i] = p PROVE FALSE OBVIOUS
    <3>1. b \in 1 .. Len(L[m]) BY <1>5
    <3>2. j = m /\ i = b BY <1>0, <1>1, <3>1, OnePlace
    <3> QED BY <1>7, <3>2
  <2> QED BY <1>2, <2>1, <2>2 DEF Table
<1>8. ASSUME NEW j \in 0 .. MaxSize - 1, NEW i \in 1 .. Len(K[j])
      PROVE  /\ i \in 1 .. Len(L[j]) /\ Table(g, K, j, i) = Table(h, L, j, i)
             /\ i # Len(K[j]) => i # Len(L[j])
             /\ j = m => i # b
  <2>1. j \in 0 .. MaxSize /\ j # MaxSize BY <1>0
  <2>2. CASE j = m
    <3>1. i \in 1 .. b - 1 BY <1>3, <2>2
    <3>2. i \in 1 .. b /\ i # b
      <4> HIDE DEF b
      <4> QED BY <1>5, <3>1
    <3>3. g.maps[L[m][i]].table = Table(h, L, m, i) BY <1>0, <1>7, <3>2
    <3>4. K[m][i] = L[m][i] BY <1>3, <3>1
    <3> QED BY <2>2, <3>2, <3>3, <3>4 DEF Table
  <2>3. CASE j # m
    <3>1. K[j] = L[j] BY <1>3, <2>1, <2>3
    <3>2. i \in 1 .. Len(L[j]) BY <3>1
    <3>3. g.maps[L[j][i]].table = Table(h, L, j, i) BY <1>7, <2>1, <2>3, <3>2
    <3> QED BY <2>3, <3>1, <3>2, <3>3 DEF Table
  <2> QED BY <2>2, <2>3
<1>9. PackedIn(g, K)
  <2>1. ASSUME NEW i \in 1 .. Len(K[MaxSize]) PROVE Table(g, K, MaxSize, i) = <<>>
    <3>1. CASE i = 1 BY <1>2, <1>3, <3>1 DEF Table
    <3>2. CASE i # 1
      <4>1. i \in 1 .. c + 1 BY <1>3
      <4>2. i - 1 \in 1 .. c /\ i - 1 + 1 = i
        <5> HIDE DEF c
        <5> QED BY <1>5, <3>2, <4>1
      <4>3. g.maps[L[MaxSize][i - 1]].table = Table(h, L, MaxSize, i - 1) BY <1>0, <1>7, <4>2
      <4>4. Table(h, L, MaxSize, i - 1) = <<>> BY <4>2, FreePage
      <4>5. K[MaxSize][i - 1 + 1] = L[MaxSize][i - 1] BY <1>3, <4>2
      <4> QED BY <4>2, <4>3, <4>4, <4>5 DEF Table
    <3> QED BY <3>1, <3>2
  <2>2. ASSUME NEW j \in 0 .. MaxSize - 1, NEW i \in 1 .. Len(K[j])
        PROVE  /\ Table(g, K, j, i) # <<>> /\ Len(Table(g, K, j, i)) <= HASH_MAP_BLOCK_SIZE
               /\ i # Len(K[j]) => Len(Table(g, K, j, i)) = HASH_MAP_BLOCK_SIZE
    <3>1. /\ i \in 1 .. Len(L[j]) /\ Table(g, K, j, i) = Table(h, L, j, i)
          /\ i # Len(K[j]) => i # Len(L[j])
      BY <1>8
    <3>2. /\ Table(h, L, j, i) # <<>> /\ Len(Table(h, L, j, i)) <= HASH_MAP_BLOCK_SIZE
          /\ i # Len(L[j]) => Len(Table(h, L, j, i)) = HASH_MAP_BLOCK_SIZE
      BY <3>1, BucketPage
    <3> QED BY <3>1, <3>2
  <2> QED BY <2>1, <2>2 DEF PackedIn
<1>10. DistinctIn(g, K)
  <2> SUFFICES ASSUME NEW j \in 0 .. MaxSize - 1, NEW i \in 1 .. Len(K[j]), NEW k \in 1 .. Len(K[j]),
                      NEW x \in 1 .. Len(Table(g, K, j, i)), NEW y \in 1 .. Len(Table(g, K, j, k)),
                      Table(g, K, j, i)[x] = Table(g, K, j, k)[y]
               PROVE  i = k /\ x = y
    BY DEF DistinctIn
  <2>1. /\ i \in 1 .. Len(L[j]) /\ Table(g, K, j, i) = Table(h, L, j, i)
        /\ k \in 1 .. Len(L[j]) /\ Table(g, K, j, k) = Table(h, L, j, k)
    BY <1>8
  <2> QED BY <2>1, OneEntry
<1>11. SoundAs(g, A, K) BY <1>2, <1>4, <1>6, <1>9, <1>10, SoundBy
<1>12. \A i \in 1 .. b - 1 : Table(g, K, m, i) = Table(h, L, m, i)
  <2>1. \A i \in 1 .. b - 1 : i \in 1 .. Len(K[m]) BY <1>3
  <2> QED BY <1>8, <2>1
<1> QED BY <1>3, <1>11, <1>12 DEF g, K

-----------------------------------------------------------------------------
(* Other addresses on a page.                                              *)

\* The i-th page of bucket m lists t.
Retabled(h, L, m, i, t) == [h EXCEPT !.maps[L[m][i]].table = t]

(* Only that page changes.                                                  *)
LEMMA RetabledMap ==
  ASSUME NEW A, NEW h, IsMap(h, A), NEW L, Layout(h, L), NEW m \in 0 .. MaxSize,
         NEW i \in 1 .. Len(L[m]), NEW t \in Seq(A)
  PROVE  LET g == Retabled(h, L, m, i, t)
         IN  /\ IsMap(g, A) /\ DOMAIN g.maps = DOMAIN h.maps
             /\ g.dir = h.dir /\ g.free = h.free
             /\ \A q \in DOMAIN h.maps : g.maps[q].next = h.maps[q].next
             /\ \A q \in DOMAIN h.maps : q # L[m][i] => g.maps[q].table = h.maps[q].table
             /\ g.maps[L[m][i]].table = t
<1> DEFINE g == Retabled(h, L, m, i, t)
           N == Len(h.maps)
           p == L[m][i]
<1>1. /\ IsRecord(h)
      /\ h.dir \in [0 .. MaxSize - 1 -> {NoEntry} \union 1 .. N]
      /\ h.maps \in [1 .. N -> Pages(A)] /\ N \in Nat /\ DOMAIN h.maps = 1 .. N
      /\ h.free \in Nat
  BY MapFields DEF IsRecord
<1>2. p \in 1 .. N
  <2>1. p \in DOMAIN h.maps BY ListTypes
  <2> HIDE DEF p, N
  <2> QED BY <1>1, <2>1
<1>3. g = [h EXCEPT !.maps[p].table = t] BY DEF Retabled
<1> HIDE DEF p, N
<1>4. g.dir = h.dir /\ g.maps = [h.maps EXCEPT ![p].table = t] /\ g.free = h.free
  BY <1>1, <1>3 DEF IsRecord
<1>5. IsRecord(g)
  <2>1. DOMAIN g = {"dir", "maps", "free"} BY <1>1, <1>3 DEF IsRecord
  <2>2. g = [x \in DOMAIN g |-> g[x]] BY <1>3, <2>1
  <2> HIDE DEF g
  <2> QED BY <2>1, <2>2, RecordBy
<1> HIDE DEF g
<1>6. /\ g.maps = [q \in 1 .. N |-> g.maps[q]]
      /\ \A q \in 1 .. N : q # p => g.maps[q] = h.maps[q]
      /\ g.maps[p] = [h.maps[p] EXCEPT !.table = t]
  BY <1>1, <1>2, <1>4
<1>7. h.maps[p] \in Pages(A) BY <1>1, <1>2
<1>8. g.maps[p].table = t /\ g.maps[p].next = h.maps[p].next /\ g.maps[p] \in Pages(A)
  BY <1>6, <1>7 DEF Pages
<1>9. g.maps \in [1 .. N -> Pages(A)]
  <2>1. \A q \in 1 .. N : g.maps[q] \in Pages(A) BY <1>1, <1>6, <1>8
  <2> QED BY <1>6, <2>1
<1>10. g = [dir |-> g.dir, maps |-> g.maps, free |-> g.free] BY <1>5 DEF IsRecord
<1>11. IsMap(g, A) BY <1>1, <1>4, <1>9, <1>10, MapBy
<1>12. DOMAIN g.maps = DOMAIN h.maps BY <1>1, <1>9
<1>13. /\ \A q \in DOMAIN h.maps : g.maps[q].next = h.maps[q].next
       /\ \A q \in DOMAIN h.maps : q # p => g.maps[q].table = h.maps[q].table
  BY <1>1, <1>6, <1>8
<1> QED BY <1>4, <1>8, <1>11, <1>12, <1>13 DEF g, p

(* The lists stay what they are.                                            *)
LEMMA RetabledLayout ==
  ASSUME NEW A, NEW h, IsMap(h, A), NEW L, Layout(h, L), NEW m \in 0 .. MaxSize,
         NEW i \in 1 .. Len(L[m]), NEW t \in Seq(A)
  PROVE  Layout(Retabled(h, L, m, i, t), L)
<1> DEFINE g == Retabled(h, L, m, i, t)
<1>1. /\ DOMAIN g.maps = DOMAIN h.maps
      /\ g.dir = h.dir /\ g.free = h.free
      /\ \A q \in DOMAIN h.maps : g.maps[q].next = h.maps[q].next
  BY RetabledMap
<1> HIDE DEF g
<1>2. Linked(g, L)
  <2> SUFFICES ASSUME NEW j \in 0 .. MaxSize
               PROVE  /\ L[j] \in Seq(DOMAIN g.maps)
                      /\ Len(L[j]) = 0 => First(g, j) = NoPage
                      /\ Len(L[j]) # 0 => First(g, j) = L[j][1]
                      /\ \A y \in 1 .. Len(L[j]) - 1 : g.maps[L[j][y]].next = L[j][y + 1]
                      /\ Len(L[j]) # 0 => g.maps[L[j][Len(L[j])]].next = NoPage
    BY DEF Linked
  <2>1. First(g, j) = First(h, j) BY <1>1 DEF First
  <2>2. /\ Len(L[j]) = 0 => First(h, j) = NoPage
        /\ Len(L[j]) # 0 => First(h, j) = L[j][1]
        /\ \A y \in 1 .. Len(L[j]) - 1 : h.maps[L[j][y]].next = L[j][y + 1]
        /\ Len(L[j]) # 0 => h.maps[L[j][Len(L[j])]].next = NoPage
    BY LayoutFacts
  <2>3. /\ L[j] \in Seq(DOMAIN h.maps) /\ Len(L[j]) \in Nat
        /\ \A y \in 1 .. Len(L[j]) : L[j][y] \in DOMAIN h.maps
    BY ListTypes
  <2>4. ASSUME NEW y \in 1 .. Len(L[j]) - 1 PROVE g.maps[L[j][y]].next = L[j][y + 1]
    <3>1. y \in 1 .. Len(L[j]) BY <2>3
    <3> QED BY <1>1, <2>2, <2>3, <3>1
  <2>5. ASSUME Len(L[j]) # 0 PROVE g.maps[L[j][Len(L[j])]].next = NoPage
    <3>1. Len(L[j]) \in 1 .. Len(L[j]) BY <2>3, <2>5
    <3> QED BY <1>1, <2>2, <2>3, <2>5, <3>1
  <2> QED BY <1>1, <2>1, <2>2, <2>3, <2>4, <2>5
<1>3. Placed(g, L)
  <2> SUFFICES ASSUME NEW q \in DOMAIN g.maps
               PROVE  \E j \in 0 .. MaxSize : \E y \in 1 .. Len(L[j]) : L[j][y] = q
    BY DEF Placed
  <2>1. PICK j \in 0 .. MaxSize : \E y \in DOMAIN L[j] : L[j][y] = q BY <1>1 DEF Layout
  <2>2. PICK y \in DOMAIN L[j] : L[j][y] = q BY <2>1
  <2>3. y \in 1 .. Len(L[j]) BY <2>2, ListTypes
  <2> QED BY <2>2, <2>3
<1>4. Apart(L)
  <2> SUFFICES ASSUME NEW j \in 0 .. MaxSize, NEW l \in 0 .. MaxSize, NEW x \in 1 .. Len(L[j]),
                      NEW y \in 1 .. Len(L[l]), L[j][x] = L[l][y]
               PROVE  j = l /\ x = y
    BY DEF Apart
  <2> QED BY OnePlace
<1>5. Layout(g, L) BY <1>2, <1>3, <1>4, LayoutBy
<1> QED BY <1>5 DEF g

(* Another table on a bucket's page.                                        *)
LEMMA RetabledTables ==
  ASSUME NEW A, NEW h, IsMap(h, A), NEW L, Layout(h, L), NEW m \in 0 .. MaxSize,
         NEW i \in 1 .. Len(L[m]), NEW t \in Seq(A),
         NEW j \in 0 .. MaxSize, NEW k \in 1 .. Len(L[j])
  PROVE  Table(Retabled(h, L, m, i, t), L, j, k) = IF j = m /\ k = i THEN t ELSE Table(h, L, j, k)
<1> DEFINE g == Retabled(h, L, m, i, t)
<1>1. /\ \A q \in DOMAIN h.maps : q # L[m][i] => g.maps[q].table = h.maps[q].table
      /\ g.maps[L[m][i]].table = t
  BY RetabledMap
<1> HIDE DEF g
<1>2. L[j][k] \in DOMAIN h.maps BY ListTypes
<1>3. CASE j = m /\ k = i BY <1>1, <1>3 DEF Table, g
<1>4. CASE ~(j = m /\ k = i)
  <2>1. L[j][k] # L[m][i]
    <3> SUFFICES ASSUME L[j][k] = L[m][i] PROVE FALSE OBVIOUS
    <3>1. j = m /\ k = i BY OnePlace
    <3> QED BY <1>4, <3>1
  <2> QED BY <1>1, <1>2, <1>4, <2>1 DEF Table, g
<1> QED BY <1>3, <1>4

\* t may take the place of the addresses of the i-th page of bucket m.
Fits(h, L, m, i, t) ==
    /\ t # <<>> /\ Len(t) <= HASH_MAP_BLOCK_SIZE
    /\ i # Len(L[m]) => Len(t) = HASH_MAP_BLOCK_SIZE
    /\ \A x, y \in 1 .. Len(t) : t[x] = t[y] => x = y
    /\ \A k \in 1 .. Len(L[m]) : k # i =>
          \A x \in 1 .. Len(t), y \in 1 .. Len(Table(h, L, m, k)) : t[x] # Table(h, L, m, k)[y]

(* It leaves the map sound.                                                 *)
LEMMA RetabledSound ==
  ASSUME NEW A, NEW h, NEW L, SoundAs(h, A, L), NEW m \in 0 .. MaxSize - 1,
         NEW i \in 1 .. Len(L[m]), NEW t \in Seq(A), Fits(h, L, m, i, t)
  PROVE  SoundAs(Retabled(h, L, m, i, t), A, L)
<1> DEFINE g == Retabled(h, L, m, i, t)
<1>0. MaxSize \in 0 .. MaxSize /\ m \in 0 .. MaxSize /\ m # MaxSize BY HashMapAssumption
<1>1. IsMap(h, A) /\ Layout(h, L) /\ L = [j \in 0 .. MaxSize |-> L[j]] BY DEF SoundAs
<1>2. IsMap(g, A) BY <1>0, <1>1, RetabledMap
<1>3. Layout(g, L) BY <1>0, <1>1, RetabledLayout
<1>4. ASSUME NEW j \in 0 .. MaxSize, NEW k \in 1 .. Len(L[j])
      PROVE  Table(g, L, j, k) = IF j = m /\ k = i THEN t ELSE Table(h, L, j, k)
  BY <1>0, <1>1, RetabledTables
<1> HIDE DEF g
<1>5. ASSUME NEW k \in 1 .. Len(L[MaxSize]) PROVE Table(g, L, MaxSize, k) = <<>>
  <2>1. Table(g, L, MaxSize, k) = Table(h, L, MaxSize, k) BY <1>0, <1>4
  <2> QED BY <2>1, FreePage
<1>6. ASSUME NEW j \in 0 .. MaxSize - 1, NEW k \in 1 .. Len(L[j])
      PROVE  /\ Table(g, L, j, k) # <<>> /\ Len(Table(g, L, j, k)) <= HASH_MAP_BLOCK_SIZE
             /\ k # Len(L[j]) => Len(Table(g, L, j, k)) = HASH_MAP_BLOCK_SIZE
  <2>0. j \in 0 .. MaxSize BY <1>0
  <2>1. CASE j = m /\ k = i
    <3>1. Table(g, L, j, k) = t BY <1>4, <2>0, <2>1
    <3> QED BY <2>1, <3>1 DEF Fits
  <2>2. CASE ~(j = m /\ k = i)
    <3>1. Table(g, L, j, k) = Table(h, L, j, k) BY <1>4, <2>0, <2>2
    <3>2. /\ Table(h, L, j, k) # <<>> /\ Len(Table(h, L, j, k)) <= HASH_MAP_BLOCK_SIZE
          /\ k # Len(L[j]) => Len(Table(h, L, j, k)) = HASH_MAP_BLOCK_SIZE
      BY BucketPage
    <3> QED BY <3>1, <3>2
  <2> QED BY <2>1, <2>2
<1>7. PackedIn(g, L) BY <1>5, <1>6 DEF PackedIn
<1>8. DistinctIn(g, L)
  <2> SUFFICES ASSUME NEW j \in 0 .. MaxSize - 1, NEW k \in 1 .. Len(L[j]), NEW l \in 1 .. Len(L[j]),
                      NEW x \in 1 .. Len(Table(g, L, j, k)), NEW y \in 1 .. Len(Table(g, L, j, l)),
                      Table(g, L, j, k)[x] = Table(g, L, j, l)[y]
               PROVE  k = l /\ x = y
    BY DEF DistinctIn
  <2>0. j \in 0 .. MaxSize BY <1>0
  <2>1. /\ Table(g, L, j, k) = IF j = m /\ k = i THEN t ELSE Table(h, L, j, k)
        /\ Table(g, L, j, l) = IF j = m /\ l = i THEN t ELSE Table(h, L, j, l)
    BY <1>4, <2>0
  <2>2. CASE j = m /\ k = i /\ l = i BY <2>1, <2>2 DEF Fits
  <2>3. CASE j = m /\ k = i /\ l # i BY <2>1, <2>3 DEF Fits
  <2>4. CASE j = m /\ k # i /\ l = i BY <2>1, <2>4 DEF Fits
  <2>5. CASE j # m \/ (k # i /\ l # i) BY <2>1, <2>5, OneEntry
  <2> QED BY <2>2, <2>3, <2>4, <2>5
<1>9. SoundAs(g, A, L) BY <1>1, <1>2, <1>3, <1>7, <1>8, SoundBy
<1> QED BY <1>9 DEF g

-----------------------------------------------------------------------------
(* hash_table_insert.                                                      *)

\* The pages of bucket m before the k-th are full and lack addr.
Passed(h, L, m, k, addr) ==
    \A j \in 1 .. k - 1 :
        /\ Len(Table(h, L, m, j)) = HASH_MAP_BLOCK_SIZE
        /\ \A x \in 1 .. Len(Table(h, L, m, j)) : Table(h, L, m, j)[x] # addr

(* The walk stops at the k-th page when those before it are full.           *)
LEMMA InsertCase ==
  ASSUME NEW A, NEW h, IsMap(h, A), NEW L, Layout(h, L), NEW m \in 0 .. MaxSize - 1,
         NEW addr, NEW k \in 1 .. Len(L[m]), Passed(h, L, m, k, addr),
         k = Len(L[m]) \/ Len(Table(h, L, m, k)) # HASH_MAP_BLOCK_SIZE
  PROVE  Insert(h, m, addr) =
            IF Len(Table(h, L, m, k)) # HASH_MAP_BLOCK_SIZE
            THEN Retabled(h, L, m, k, Append(Table(h, L, m, k), addr))
            ELSE [WithPage(h, addr) EXCEPT !.maps[L[m][k]].next = NewPage(h)]
<1>0. MaxSize \in Nat /\ m \in 0 .. MaxSize /\ ~(m >= MaxSize) /\ m < MaxSize
  BY HashMapAssumption
<1>1. /\ Bucket(h, m) = L[m] /\ Len(L[m]) \in Nat /\ DOMAIN L[m] = 1 .. Len(L[m])
      /\ \A j \in 1 .. Len(L[m]) : L[m][j] \in DOMAIN h.maps
  BY <1>0, BucketIsList, ListTypes
<1>2. h.dir[m] # NoEntry
  <2>1. L[m] # <<>> BY <1>1
  <2> QED BY <2>1, BucketIsList
<1>3. k \in Nat /\ k \in 1 .. Len(L[m]) /\ \A j \in 1 .. k - 1 : j \in 1 .. Len(L[m]) BY <1>1
<1>4. WalkEnd(h, L[m]) = k
  <2>1. k \in DOMAIN L[m] BY <1>1
  <2>2. k = Len(L[m]) \/ ~Full(h, L[m][k]) BY DEF Full, Table
  <2>3. \A j \in 1 .. k - 1 : Full(h, L[m][j]) BY DEF Full, Table, Passed
  <2>4. ASSUME NEW l \in DOMAIN L[m], l = Len(L[m]) \/ ~Full(h, L[m][l]),
               \A j \in 1 .. l - 1 : Full(h, L[m][j])
        PROVE  l = k
    <3>1. l \in Nat /\ l \in 1 .. Len(L[m]) BY <1>1
    <3>2. CASE l < k
      <4>1. l \in 1 .. k - 1 /\ l # Len(L[m]) BY <1>1, <1>3, <3>1, <3>2
      <4> QED BY <2>3, <2>4, <4>1
    <3>3. CASE k < l
      <4>1. k \in 1 .. l - 1 /\ k # Len(L[m]) BY <1>1, <1>3, <3>1, <3>3
      <4> QED BY <2>2, <2>4, <4>1
    <3> QED BY <1>3, <3>1, <3>2, <3>3
  <2> QED BY <2>1, <2>2, <2>3, <2>4 DEF WalkEnd
<1>5. ~\E j \in 1 .. k - 1 : Lists(h, L[m][j], addr)
  <2> SUFFICES ASSUME NEW j \in 1 .. k - 1, Lists(h, L[m][j], addr) PROVE FALSE
    OBVIOUS
  <2>1. L[m][j] \in DOMAIN h.maps BY <1>1, <1>3
  <2> DEFINE p == L[m][j]
  <2> HIDE DEF p
  <2>2. DOMAIN h.maps[p].table = 1 .. Len(h.maps[p].table) BY <2>1, MapPage DEF p
  <2>3. PICK x \in DOMAIN h.maps[p].table : h.maps[p].table[x] = addr
    BY DEF Lists, ToSet, p
  <2> QED BY <2>2, <2>3 DEF Table, Passed, p
<1>6. Insert(h, m, addr) =
         IF ~Full(h, L[m][k]) THEN [h EXCEPT !.maps[L[m][k]].table = Append(@, addr)]
         ELSE [WithPage(h, addr) EXCEPT !.maps[L[m][k]].next = NewPage(h)]
  BY <1>0, <1>1, <1>2, <1>4, <1>5 DEF Insert
<1>7. [h EXCEPT !.maps[L[m][k]].table = Append(@, addr)]
         = Retabled(h, L, m, k, Append(Table(h, L, m, k), addr))
  BY DEF Retabled, Table
<1>8. Full(h, L[m][k]) <=> Len(Table(h, L, m, k)) = HASH_MAP_BLOCK_SIZE BY DEF Full, Table
<1> QED BY <1>6, <1>7, <1>8

(* The table hash_table_insert leaves on a page that has room.              *)
LEMMA AppendFits ==
  ASSUME NEW A, NEW h, NEW L, SoundAs(h, A, L), NEW m \in 0 .. MaxSize - 1,
         NEW addr \in A, Lacks(h, L, m, addr), L[m] # <<>>,
         Len(Table(h, L, m, Len(L[m]))) # HASH_MAP_BLOCK_SIZE
  PROVE  LET t == Append(Table(h, L, m, Len(L[m])), addr)
         IN  t \in Seq(A) /\ Fits(h, L, m, Len(L[m]), t)
<1> DEFINE b == Len(L[m])
           u == Table(h, L, m, b)
           t == Append(u, addr)
           n == Len(u)
<1>0. m \in 0 .. MaxSize BY HashMapAssumption
<1>1. Layout(h, L) BY DEF SoundAs
<1>2. b \in 1 .. Len(L[m]) BY <1>0, <1>1, ListTypes
<1>3. u \in Seq(A) /\ n \in Nat BY <1>0, <1>2, PageFacts
<1>4. n <= HASH_MAP_BLOCK_SIZE /\ n # HASH_MAP_BLOCK_SIZE BY <1>2, BucketPage
<1> HIDE DEF u
<1>5. /\ t \in Seq(A) /\ t # <<>> /\ Len(t) = n + 1
      /\ \A x \in 1 .. n : t[x] = u[x]
      /\ t[n + 1] = addr
  BY <1>3, AppendProperties
<1> HIDE DEF n, t
<1>6. Len(t) <= HASH_MAP_BLOCK_SIZE BY <1>3, <1>4, <1>5, HashMapAssumption
<1>7. ASSUME NEW x \in 1 .. Len(t)
      PROVE  IF x = n + 1 THEN t[x] = addr ELSE x \in 1 .. n /\ t[x] = u[x] /\ u[x] # addr
  <2>1. CASE x = n + 1 BY <1>5, <2>1
  <2>2. CASE x # n + 1
    <3>1. x \in 1 .. n BY <1>3, <1>5, <2>2
    <3>2. u[x] # addr BY <1>2, <3>1 DEF Lacks, u, n
    <3> QED BY <1>5, <2>2, <3>1, <3>2
  <2> QED BY <2>1, <2>2
<1>8. ASSUME NEW x \in 1 .. Len(t), NEW y \in 1 .. Len(t), t[x] = t[y] PROVE x = y
  <2>1. CASE x = n + 1 \/ y = n + 1 BY <1>7, <1>8, <2>1
  <2>2. CASE x # n + 1 /\ y # n + 1
    <3>1. x \in 1 .. n /\ y \in 1 .. n /\ u[x] = u[y] BY <1>7, <1>8, <2>2
    <3> QED BY <1>2, <3>1, OneEntry DEF u, n
  <2> QED BY <2>1, <2>2
<1>9. ASSUME NEW k \in 1 .. Len(L[m]), k # b,
             NEW x \in 1 .. Len(t), NEW y \in 1 .. Len(Table(h, L, m, k))
      PROVE  t[x] # Table(h, L, m, k)[y]
  <2>1. CASE x = n + 1 BY <1>7, <2>1 DEF Lacks
  <2>2. CASE x # n + 1
    <3>1. x \in 1 .. n /\ t[x] = u[x] BY <1>7, <2>2
    <3> SUFFICES ASSUME u[x] = Table(h, L, m, k)[y] PROVE FALSE BY <3>1
    <3>2. b = k BY <1>2, <3>1, OneEntry DEF u, n
    <3> QED BY <1>9, <3>2
  <2> QED BY <2>1, <2>2
<1>10. Fits(h, L, m, b, t) BY <1>5, <1>6, <1>8, <1>9 DEF Fits
<1> QED BY <1>5, <1>10 DEF t, u

(* An address a bucket lacks can be added to it.                            *)
LEMMA InsertSound ==
  ASSUME NEW A, NEW h, NEW L, SoundAs(h, A, L), NEW m \in 0 .. MaxSize - 1,
         NEW addr \in A, Lacks(h, L, m, addr)
  PROVE  SoundMap(Insert(h, m, addr), A)
<1> DEFINE b == Len(L[m])
<1>0. MaxSize \in Nat /\ m \in 0 .. MaxSize /\ ~(m >= MaxSize) /\ m < MaxSize
  BY HashMapAssumption
<1>1. IsMap(h, A) /\ Layout(h, L) BY DEF SoundAs
<1>2. CASE L[m] = <<>>
  <2>1. h.dir[m] = NoEntry BY <1>1, <1>2, BucketIsList
  <2>2. Insert(h, m, addr) = Hung(h, L, m, addr) BY <1>0, <1>2, <2>1 DEF Insert, Hung
  <2> QED BY <1>2, <2>2, HungSound
<1>3. CASE L[m] # <<>>
  <2>1. b \in 1 .. Len(L[m]) /\ b \in Nat BY <1>0, <1>1, <1>3, ListTypes
  <2>2. ASSUME NEW j \in 1 .. b - 1
        PROVE  /\ Len(Table(h, L, m, j)) = HASH_MAP_BLOCK_SIZE
               /\ \A x \in 1 .. Len(Table(h, L, m, j)) : Table(h, L, m, j)[x] # addr
    <3>1. j \in 1 .. Len(L[m]) /\ j # Len(L[m]) BY <2>1
    <3> QED BY <3>1, BucketPage DEF Lacks
  <2>3. Insert(h, m, addr) =
           IF Len(Table(h, L, m, b)) # HASH_MAP_BLOCK_SIZE
           THEN Retabled(h, L, m, b, Append(Table(h, L, m, b), addr))
           ELSE [WithPage(h, addr) EXCEPT !.maps[L[m][b]].next = NewPage(h)]
    <3>1. Passed(h, L, m, b, addr) BY <2>2 DEF Passed
    <3>2. b = Len(L[m]) \/ Len(Table(h, L, m, b)) # HASH_MAP_BLOCK_SIZE OBVIOUS
    <3> HIDE DEF b
    <3> QED BY <1>1, <2>1, <3>1, <3>2, InsertCase
  <2>4. CASE Len(Table(h, L, m, b)) # HASH_MAP_BLOCK_SIZE
    <3> DEFINE t == Append(Table(h, L, m, b), addr)
    <3>1. t \in Seq(A) /\ Fits(h, L, m, b, t) BY <1>3, <2>4, AppendFits
    <3> HIDE DEF t
    <3>2. SoundAs(Retabled(h, L, m, b, t), A, L) BY <2>1, <3>1, RetabledSound
    <3> QED BY <2>3, <2>4, <3>2, SoundAsIs DEF t
  <2>5. CASE Len(Table(h, L, m, b)) = HASH_MAP_BLOCK_SIZE
    <3>1. Insert(h, m, addr) = Hung(h, L, m, addr) BY <1>3, <2>3, <2>5 DEF Hung
    <3> QED BY <2>5, <3>1, HungSound
  <2> QED BY <2>4, <2>5
<1> QED BY <1>2, <1>3

-----------------------------------------------------------------------------
(* hash_table_pop.                                                         *)

(* A table without its i-th address.                                        *)
LEMMA DroppedFacts ==
  ASSUME NEW A, NEW t \in Seq(A), NEW i \in 1 .. Len(t)
  PROVE  /\ Dropped(t, i) \in Seq(A) /\ Len(Dropped(t, i)) = Len(t) - 1
         /\ \A x \in 1 .. Len(t) - 1 : Dropped(t, i)[x] = IF x = i THEN t[Len(t)] ELSE t[x]
<1> DEFINE n == Len(t)
           u == [t EXCEPT ![i] = t[n]]
<1>1. n \in Nat /\ DOMAIN t = 1 .. n BY LenProperties
<1>2. n \in 1 .. n /\ n # 0 /\ n - 1 \in Nat BY <1>1
<1>3. \A x \in 1 .. n : t[x] \in A BY ElementOfSeq
<1>4. u \in Seq(A) /\ Len(u) = n /\ \A x \in 1 .. n : u[x] = IF x = i THEN t[n] ELSE t[x]
  <2>1. t[n] \in A BY <1>2, <1>3
  <2>2. u \in Seq(A) /\ Len(u) = n BY <2>1, ExceptSeq
  <2>3. \A x \in 1 .. n : u[x] = IF x = i THEN t[n] ELSE t[x] BY <1>1
  <2> QED BY <2>2, <2>3
<1>5. Dropped(t, i) = SubSeq(u, 1, n - 1)
  <2>1. Last(t) = t[n] BY DEF Last
  <2>2. Dropped(t, i) = Front(u) BY <2>1 DEF Dropped
  <2>3. Front(u) = SubSeq(u, 1, Len(u) - 1) BY DEF Front
  <2> HIDE DEF u, n
  <2> QED BY <1>4, <2>2, <2>3
<1> HIDE DEF u, n
<1>6. /\ SubSeq(u, 1, n - 1) \in Seq(A) /\ Len(SubSeq(u, 1, n - 1)) = n - 1
      /\ \A x \in 1 .. n - 1 : SubSeq(u, 1, n - 1)[x] = u[x]
  <2>1. n - 1 \in Int /\ 1 \in Int BY <1>2
  <2>2. \A x \in 1 .. n - 1 : u[x] \in A
    <3>1. \A x \in 1 .. n - 1 : x \in 1 .. n BY <1>1
    <3> QED BY <1>4, <3>1, ElementOfSeq
  <2>3. /\ SubSeq(u, 1, n - 1) \in Seq(A)
        /\ Len(SubSeq(u, 1, n - 1)) = IF 1 <= n - 1 THEN (n - 1) - 1 + 1 ELSE 0
        /\ \A x \in 1 .. (n - 1) - 1 + 1 : SubSeq(u, 1, n - 1)[x] = u[1 + x - 1]
    BY <2>1, <2>2, SubSeqProperties
  <2>4. ASSUME NEW x \in 1 .. n - 1 PROVE SubSeq(u, 1, n - 1)[x] = u[x]
    <3>1. x \in 1 .. (n - 1) - 1 + 1 /\ 1 + x - 1 = x BY <1>1
    <3> QED BY <2>3, <3>1
  <2>5. Len(SubSeq(u, 1, n - 1)) = n - 1 BY <1>2, <2>3
  <2> QED BY <2>3, <2>4, <2>5
<1>7. \A x \in 1 .. n - 1 : x \in 1 .. n BY <1>1
<1> QED BY <1>4, <1>5, <1>6, <1>7 DEF n

(* A first page with one address is the only one of its bucket.             *)
LEMMA PopHead ==
  ASSUME NEW A, NEW h, NEW L, SoundAs(h, A, L), NEW m \in 0 .. MaxSize - 1, NEW addr,
         L[m] # <<>>, Len(Table(h, L, m, 1)) = 1
  PROVE  Len(L[m]) = 1 /\ Pop(h, m, addr) = Released(h, L, m)
<1>0. m \in 0 .. MaxSize /\ HASH_MAP_BLOCK_SIZE # 1 BY HashMapAssumption
<1>1. IsMap(h, A) /\ Layout(h, L) BY DEF SoundAs
<1>2. 1 \in 1 .. Len(L[m]) /\ Len(L[m]) \in Nat BY <1>0, <1>1, ListTypes
<1>3. Len(L[m]) = 1 BY <1>0, <1>2, BucketPage
<1>4. Bucket(h, m) = L[m] /\ h.dir[m] = L[m][1] BY <1>1, BucketIsList
<1>5. Pop(h, m, addr) = FreeHead(h, m) BY <1>4 DEF Pop, Table
<1> QED BY <1>3, <1>4, <1>5 DEF FreeHead, Released

\* Table t lists addr.
InTable(t, addr) == \E x \in 1 .. Len(t) : t[x] = addr

(* Which pages list an address.                                             *)
LEMMA ListsIs ==
  ASSUME NEW A, NEW h, IsMap(h, A), NEW L, Layout(h, L), NEW m \in 0 .. MaxSize,
         NEW i \in 1 .. Len(L[m]), NEW addr
  PROVE  Lists(h, L[m][i], addr) <=> InTable(Table(h, L, m, i), addr)
<1> DEFINE p == L[m][i]
<1>1. p \in DOMAIN h.maps BY ListTypes
<1> HIDE DEF p
<1>2. DOMAIN h.maps[p].table = 1 .. Len(h.maps[p].table) BY <1>1, MapPage
<1>3. Lists(h, p, addr) <=> \E x \in 1 .. Len(h.maps[p].table) : h.maps[p].table[x] = addr
  BY <1>2 DEF Lists, ToSet
<1> QED BY <1>3 DEF p, Table, InTable

(* hash_table_pop of an address the bucket lacks.                           *)
LEMMA PopNone ==
  ASSUME NEW A, NEW h, NEW L, SoundAs(h, A, L), NEW m \in 0 .. MaxSize - 1, NEW addr,
         Lacks(h, L, m, addr), L[m] = <<>> \/ Len(Table(h, L, m, 1)) # 1
  PROVE  Pop(h, m, addr) = h
<1>0. m \in 0 .. MaxSize BY HashMapAssumption
<1>1. IsMap(h, A) /\ Layout(h, L) BY DEF SoundAs
<1>2. Bucket(h, m) = L[m] BY <1>1, BucketIsList
<1>3. {k \in DOMAIN L[m] : Lists(h, L[m][k], addr)} = {}
  <2> SUFFICES ASSUME NEW k \in DOMAIN L[m], Lists(h, L[m][k], addr) PROVE FALSE
    OBVIOUS
  <2>1. k \in 1 .. Len(L[m]) BY <1>0, <1>1, ListTypes
  <2>2. PICK x \in 1 .. Len(Table(h, L, m, k)) : Table(h, L, m, k)[x] = addr
    <3>1. Lists(h, L[m][k], addr) <=> InTable(Table(h, L, m, k), addr)
      BY <1>0, <1>1, <2>1, ListsIs
    <3> QED BY <3>1 DEF InTable
  <2> QED BY <2>1, <2>2 DEF Lacks
<1>4. L[m] # <<>> => Len(h.maps[L[m][1]].table) # 1 BY DEF Table
<1> QED BY <1>2, <1>3, <1>4 DEF Pop

(* hash_table_pop of an address some page of the bucket lists.              *)
LEMMA PopCase ==
  ASSUME NEW A, NEW h, NEW L, SoundAs(h, A, L), NEW m \in 0 .. MaxSize - 1,
         Len(Table(h, L, m, 1)) # 1,
         NEW k \in 1 .. Len(L[m]), NEW i \in 1 .. Len(Table(h, L, m, k))
  PROVE  Pop(h, m, Table(h, L, m, k)[i]) =
            IF Len(Table(h, L, m, k)) > 1
            THEN Retabled(h, L, m, k, Dropped(Table(h, L, m, k), i))
            ELSE Released(h, L, m)
<1> DEFINE t == Table(h, L, m, k)
           addr == t[i]
           s == L[m]
           holders == {l \in DOMAIN s : Lists(h, s[l], addr)}
<1>0. m \in 0 .. MaxSize /\ HASH_MAP_BLOCK_SIZE # 1 BY HashMapAssumption
<1>1. IsMap(h, A) /\ Layout(h, L) BY DEF SoundAs
<1>2. Bucket(h, m) = s BY <1>1, BucketIsList
<1>3. DOMAIN s = 1 .. Len(s) /\ Len(s) \in Nat /\ k \in Nat BY <1>0, <1>1, ListTypes
<1>4. DOMAIN t = 1 .. Len(t) /\ Len(t) \in Nat BY <1>0, PageFacts
<1>5. holders = {k}
  <2>1. k \in holders
    <3>1. Lists(h, s[k], addr) <=> InTable(t, addr) BY <1>0, <1>1, ListsIs
    <3>2. InTable(t, addr) BY DEF InTable
    <3> QED BY <1>3, <3>1, <3>2
  <2>2. ASSUME NEW l \in DOMAIN s, Lists(h, s[l], addr) PROVE l = k
    <3>1. l \in 1 .. Len(L[m]) BY <1>3
    <3>2. PICK x \in 1 .. Len(Table(h, L, m, l)) : Table(h, L, m, l)[x] = addr
      <4>1. Lists(h, L[m][l], addr) <=> InTable(Table(h, L, m, l), addr)
        BY <1>0, <1>1, <3>1, ListsIs
      <4> QED BY <2>2, <4>1 DEF InTable
    <3> QED BY <3>1, <3>2, OneEntry
  <2> QED BY <2>1, <2>2
<1>6. (CHOOSE l \in holders : \A j \in holders : l <= j) = k
  <2> HIDE DEF holders
  <2>1. \A l \in holders : l = k BY <1>5
  <2>2. k \in holders /\ \A j \in holders : k <= j BY <1>3, <1>5
  <2> QED BY <2>1, <2>2
<1>7. (CHOOSE x \in DOMAIN t : t[x] = addr /\ \A j \in 1 .. x - 1 : t[j] # addr) = i
  <2>1. ASSUME NEW x \in DOMAIN t, t[x] = addr PROVE x = i
    <3>1. x \in 1 .. Len(Table(h, L, m, k)) BY <1>4
    <3> QED BY <2>1, <3>1, OneEntry
  <2>2. i \in DOMAIN t BY <1>4
  <2>3. \A j \in 1 .. i - 1 : t[j] # addr
    <3> SUFFICES ASSUME NEW j \in 1 .. i - 1, t[j] = addr PROVE FALSE OBVIOUS
    <3>1. j \in DOMAIN t /\ j # i BY <1>4
    <3> QED BY <2>1, <3>1
  <2> QED BY <2>1, <2>2, <2>3
<1>8. s # <<>> /\ Len(h.maps[s[1]].table) # 1 /\ holders # {}
  <2>1. s # <<>> BY <1>3
  <2> QED BY <1>5, <2>1 DEF Table
<1>9. Pop(h, m, addr) = DropFrom(h, s, k, addr)
  <2>1. Pop(h, m, addr) = DropFrom(h, s, CHOOSE l \in holders : \A j \in holders : l <= j, addr)
    BY <1>2, <1>8 DEF Pop
  <2> HIDE DEF holders
  <2> QED BY <1>6, <2>1
<1>10. CASE Len(t) > 1
  <2>1. DropFrom(h, s, k, addr) = [h EXCEPT !.maps[s[k]].table = Dropped(t, i)]
    <3>1. h.maps[s[k]].table = t BY DEF Table
    <3> HIDE DEF t
    <3> QED BY <1>7, <1>10, <3>1 DEF DropFrom
  <2> QED BY <1>9, <1>10, <2>1 DEF Retabled
<1>11. CASE ~(Len(t) > 1)
  <2>1. Len(t) = 1 BY <1>4, <1>11
  <2>2. k = Len(s) BY <1>0, <2>1, BucketPage
  <2>3. k # 1 BY <2>1
  <2>4. DropFrom(h, s, k, addr)
           = [h EXCEPT !.maps[s[k]] = [next |-> h.free, table |-> <<>>],
                       !.maps[s[k - 1]].next = h.maps[s[k]].next,
                       !.free = s[k]]
    <3>1. h.maps[s[k]].table = t BY DEF Table
    <3> HIDE DEF t
    <3> QED BY <1>11, <3>1 DEF DropFrom
  <2> QED BY <1>9, <1>11, <2>2, <2>3, <2>4 DEF Released
<1> QED BY <1>10, <1>11

(* A page without one of its addresses, not the only one of a last page.    *)
LEMMA DroppedFits ==
  ASSUME NEW A, NEW h, NEW L, SoundAs(h, A, L), NEW m \in 0 .. MaxSize - 1,
         L[m] # <<>>, NEW i \in 1 .. Len(Table(h, L, m, Len(L[m]))),
         Len(Table(h, L, m, Len(L[m]))) > 1
  PROVE  LET t == Dropped(Table(h, L, m, Len(L[m])), i)
         IN  t \in Seq(A) /\ Fits(h, L, m, Len(L[m]), t)
<1> DEFINE b == Len(L[m])
           u == Table(h, L, m, b)
           n == Len(u)
           t == Dropped(u, i)
           Old(x) == IF x = i THEN n ELSE x
<1>0. m \in 0 .. MaxSize /\ HASH_MAP_BLOCK_SIZE \in Nat BY HashMapAssumption
<1>1. Layout(h, L) BY DEF SoundAs
<1>2. b \in 1 .. Len(L[m]) BY <1>0, <1>1, ListTypes
<1>3. u \in Seq(A) /\ n \in Nat BY <1>0, <1>2, PageFacts
<1>4. n <= HASH_MAP_BLOCK_SIZE /\ n > 1 BY <1>2, BucketPage
<1>5. i \in 1 .. n OBVIOUS
<1> HIDE DEF u
<1>6. t \in Seq(A) /\ Len(t) = n - 1 /\ \A x \in 1 .. n - 1 : t[x] = IF x = i THEN u[n] ELSE u[x]
  BY <1>3, <1>5, DroppedFacts
<1> HIDE DEF n, t
<1>7. t # <<>> /\ Len(t) <= HASH_MAP_BLOCK_SIZE
  <2>1. Len(t) # 0 /\ Len(t) <= HASH_MAP_BLOCK_SIZE BY <1>0, <1>3, <1>4, <1>6
  <2> QED BY <1>6, <2>1, EmptySeq
<1>8. ASSUME NEW x \in 1 .. Len(t) PROVE Old(x) \in 1 .. n /\ t[x] = u[Old(x)] /\ x # n /\ x \in 1 .. n
  <2>1. x \in 1 .. n - 1 BY <1>6
  <2>2. n \in 1 .. n /\ x \in 1 .. n /\ x # n BY <1>3, <1>4, <2>1
  <2> QED BY <1>6, <2>1, <2>2
<1>9. ASSUME NEW x \in 1 .. Len(t), NEW y \in 1 .. Len(t), t[x] = t[y] PROVE x = y
  <2>1. Old(x) = Old(y)
    <3>1. /\ Old(x) \in 1 .. Len(Table(h, L, m, b)) /\ Old(y) \in 1 .. Len(Table(h, L, m, b))
          /\ Table(h, L, m, b)[Old(x)] = Table(h, L, m, b)[Old(y)]
      BY <1>8, <1>9 DEF u, n
    <3> HIDE DEF Old
    <3> QED BY <1>2, <3>1, OneEntry
  <2> QED BY <1>8, <2>1
<1>10. ASSUME NEW k \in 1 .. Len(L[m]), k # b,
              NEW x \in 1 .. Len(t), NEW y \in 1 .. Len(Table(h, L, m, k))
       PROVE  t[x] # Table(h, L, m, k)[y]
  <2> SUFFICES ASSUME t[x] = Table(h, L, m, k)[y] PROVE FALSE OBVIOUS
  <2>1. Old(x) \in 1 .. Len(Table(h, L, m, b))
        /\ Table(h, L, m, b)[Old(x)] = Table(h, L, m, k)[y]
    BY <1>8 DEF u, n
  <2> DEFINE z == Old(x)
  <2>2. z \in 1 .. Len(Table(h, L, m, b)) /\ Table(h, L, m, b)[z] = Table(h, L, m, k)[y]
    BY <2>1
  <2> HIDE DEF Old, z, b
  <2>3. b = k /\ z = y BY <1>2, <2>2, OneEntry
  <2> QED BY <1>10, <2>3
<1>11. Fits(h, L, m, b, t) BY <1>7, <1>9, <1>10 DEF Fits
<1> QED BY <1>6, <1>11 DEF t, u

(* hash_table_pop of an address of a bucket's last page.                    *)
LEMMA PopLastSound ==
  ASSUME NEW A, NEW h, NEW L, SoundAs(h, A, L), NEW m \in 0 .. MaxSize - 1,
         L[m] # <<>>, NEW i \in 1 .. Len(Table(h, L, m, Len(L[m])))
  PROVE  SoundMap(Pop(h, m, Table(h, L, m, Len(L[m]))[i]), A)
<1> DEFINE b == Len(L[m])
           u == Table(h, L, m, b)
<1>0. m \in 0 .. MaxSize BY HashMapAssumption
<1>1. Layout(h, L) BY DEF SoundAs
<1>2. b \in 1 .. Len(L[m]) BY <1>0, <1>1, ListTypes
<1>3. SoundMap(Released(h, L, m), A) BY ReleasedSound, SoundAsIs
<1>4. CASE Len(Table(h, L, m, 1)) = 1
  <2>1. Pop(h, m, u[i]) = Released(h, L, m) BY <1>4, PopHead
  <2> QED BY <1>3, <2>1
<1>5. CASE Len(Table(h, L, m, 1)) # 1
  <2>1. Pop(h, m, u[i]) = IF Len(u) > 1 THEN Retabled(h, L, m, b, Dropped(u, i))
                          ELSE Released(h, L, m)
    BY <1>2, <1>5, PopCase
  <2>2. CASE Len(u) > 1
    <3>1. Dropped(u, i) \in Seq(A) /\ Fits(h, L, m, b, Dropped(u, i)) BY <2>2, DroppedFits
    <3>2. SoundAs(Retabled(h, L, m, b, Dropped(u, i)), A, L) BY <1>2, <3>1, RetabledSound
    <3> QED BY <2>1, <2>2, <3>2, SoundAsIs
  <2>3. CASE ~(Len(u) > 1) BY <1>3, <2>1, <2>3
  <2> QED BY <2>2, <2>3
<1> QED BY <1>4, <1>5

-----------------------------------------------------------------------------
(* An address taken out and put in again, as table.c does.                  *)

(* Two maps with the same pages are the same.                               *)
LEMMA MapEqual ==
  ASSUME NEW A, NEW g, NEW h, IsMap(g, A), IsMap(h, A),
         DOMAIN g.maps = DOMAIN h.maps, g.dir = h.dir, g.free = h.free,
         \A q \in DOMAIN h.maps : g.maps[q].next = h.maps[q].next,
         \A q \in DOMAIN h.maps : g.maps[q].table = h.maps[q].table
  PROVE  g = h
<1> DEFINE D == DOMAIN h.maps
<1>1. IsRecord(g) /\ IsRecord(h) BY MapFields DEF IsRecord
<1>2. g.maps = [q \in D |-> g.maps[q]] /\ h.maps = [q \in D |-> h.maps[q]]
  <2>1. g.maps \in [1 .. Len(g.maps) -> Pages(A)] /\ h.maps \in [1 .. Len(h.maps) -> Pages(A)]
    BY MapFields
  <2> QED BY <2>1
<1>3. ASSUME NEW q \in D PROVE g.maps[q] = h.maps[q]
  <2>1. g.maps[q] = [next |-> g.maps[q].next, table |-> g.maps[q].table] BY MapRecord
  <2>2. h.maps[q] = [next |-> h.maps[q].next, table |-> h.maps[q].table] BY MapRecord
  <2> QED BY <2>1, <2>2
<1>4. g.maps = h.maps BY <1>2, <1>3
<1> QED BY <1>1, <1>4, RecordEqual

(* A table on a page takes the place of another.                            *)
LEMMA RetabledTwice ==
  ASSUME NEW A, NEW h, IsMap(h, A), NEW L, Layout(h, L), NEW m \in 0 .. MaxSize,
         NEW i \in 1 .. Len(L[m]), NEW t \in Seq(A), NEW u \in Seq(A)
  PROVE  Retabled(Retabled(h, L, m, i, t), L, m, i, u) = Retabled(h, L, m, i, u)
<1> DEFINE g == Retabled(h, L, m, i, t)
           v == Retabled(g, L, m, i, u)
           w == Retabled(h, L, m, i, u)
           p == L[m][i]
<1>1. /\ IsMap(g, A) /\ DOMAIN g.maps = DOMAIN h.maps /\ g.dir = h.dir /\ g.free = h.free
      /\ \A q \in DOMAIN h.maps : g.maps[q].next = h.maps[q].next
      /\ \A q \in DOMAIN h.maps : q # p => g.maps[q].table = h.maps[q].table
  BY RetabledMap
<1>2. /\ IsMap(w, A) /\ DOMAIN w.maps = DOMAIN h.maps /\ w.dir = h.dir /\ w.free = h.free
      /\ \A q \in DOMAIN h.maps : w.maps[q].next = h.maps[q].next
      /\ \A q \in DOMAIN h.maps : q # p => w.maps[q].table = h.maps[q].table
      /\ w.maps[p].table = u
  BY RetabledMap
<1>3. Layout(g, L) BY RetabledLayout
<1> HIDE DEF g
<1>4. /\ IsMap(v, A) /\ DOMAIN v.maps = DOMAIN g.maps /\ v.dir = g.dir /\ v.free = g.free
      /\ \A q \in DOMAIN g.maps : v.maps[q].next = g.maps[q].next
      /\ \A q \in DOMAIN g.maps : q # p => v.maps[q].table = g.maps[q].table
      /\ v.maps[p].table = u
  BY <1>1, <1>3, RetabledMap
<1> HIDE DEF v, w
<1>5. /\ DOMAIN v.maps = DOMAIN w.maps /\ v.dir = w.dir /\ v.free = w.free
      /\ \A q \in DOMAIN w.maps : v.maps[q].next = w.maps[q].next
      /\ \A q \in DOMAIN w.maps : v.maps[q].table = w.maps[q].table
  BY <1>1, <1>2, <1>4
<1>6. v = w BY <1>2, <1>4, <1>5, MapEqual
<1> QED BY <1>6 DEF v, w, g

(* An address that moves to the end of its page's table leaves it fitting.  *)
LEMMA MovedFits ==
  ASSUME NEW A, NEW h, NEW L, SoundAs(h, A, L), NEW m \in 0 .. MaxSize - 1,
         NEW k \in 1 .. Len(L[m]), NEW i \in 1 .. Len(Table(h, L, m, k))
  PROVE  LET u == Table(h, L, m, k)
             t == Append(Dropped(u, i), u[i])
         IN  t \in Seq(A) /\ Fits(h, L, m, k, t)
<1> DEFINE u == Table(h, L, m, k)
           n == Len(u)
           d == Dropped(u, i)
           t == Append(d, u[i])
           Old(x) == IF x = n THEN i ELSE IF x = i THEN n ELSE x
<1>0. m \in 0 .. MaxSize /\ HASH_MAP_BLOCK_SIZE \in Nat BY HashMapAssumption
<1>1. u \in Seq(A) /\ n \in Nat BY <1>0, PageFacts
<1>2. n <= HASH_MAP_BLOCK_SIZE /\ n # 0 /\ (k # Len(L[m]) => n = HASH_MAP_BLOCK_SIZE)
  BY BucketPage
<1>3. i \in 1 .. n OBVIOUS
<1> HIDE DEF u
<1>4. d \in Seq(A) /\ Len(d) = n - 1 /\ \A x \in 1 .. n - 1 : d[x] = IF x = i THEN u[n] ELSE u[x]
  BY <1>1, <1>3, DroppedFacts
<1>5. u[i] \in A BY <1>1, <1>3, ElementOfSeq
<1> HIDE DEF d
<1>6. /\ t \in Seq(A) /\ t # <<>> /\ Len(t) = n - 1 + 1
      /\ \A x \in 1 .. n - 1 : t[x] = d[x]
      /\ t[n - 1 + 1] = u[i]
  BY <1>4, <1>5, AppendProperties
<1> HIDE DEF n, t
<1>7. n - 1 + 1 = n /\ Len(t) = n BY <1>1, <1>6
<1>8. ASSUME NEW x \in 1 .. n PROVE Old(x) \in 1 .. n /\ t[x] = u[Old(x)]
  <2>1. CASE x = n BY <1>3, <1>6, <1>7, <2>1
  <2>2. CASE x # n
    <3>1. x \in 1 .. n - 1 /\ n \in 1 .. n BY <1>1, <2>2
    <3>2. t[x] = IF x = i THEN u[n] ELSE u[x] BY <1>4, <1>6, <3>1
    <3> QED BY <2>2, <3>1, <3>2
  <2> QED BY <2>1, <2>2
<1> HIDE DEF Old
<1>9. ASSUME NEW x \in 1 .. Len(t), NEW y \in 1 .. Len(t), t[x] = t[y] PROVE x = y
  <2>1. Old(x) = Old(y)
    <3>1. /\ Old(x) \in 1 .. Len(Table(h, L, m, k)) /\ Old(y) \in 1 .. Len(Table(h, L, m, k))
          /\ Table(h, L, m, k)[Old(x)] = Table(h, L, m, k)[Old(y)]
      BY <1>7, <1>8, <1>9 DEF u, n
    <3> QED BY <3>1, OneEntry
  <2> QED BY <2>1 DEF Old
<1>10. ASSUME NEW l \in 1 .. Len(L[m]), l # k,
              NEW x \in 1 .. Len(t), NEW y \in 1 .. Len(Table(h, L, m, l))
       PROVE  t[x] # Table(h, L, m, l)[y]
  <2> SUFFICES ASSUME t[x] = Table(h, L, m, l)[y] PROVE FALSE OBVIOUS
  <2>1. Old(x) \in 1 .. Len(Table(h, L, m, k))
        /\ Table(h, L, m, k)[Old(x)] = Table(h, L, m, l)[y]
    BY <1>7, <1>8 DEF u, n
  <2>2. k = l BY <2>1, OneEntry
  <2> QED BY <1>10, <2>2
<1>11. Fits(h, L, m, k, t) BY <1>2, <1>6, <1>7, <1>9, <1>10 DEF Fits
<1> QED BY <1>6, <1>11 DEF t, d, u

(* hash_table_insert after hash_table_pop of an address its page can spare:  *)
(* the page has room then, so the walk stops there.                         *)
LEMMA RelistMoved ==
  ASSUME NEW A, NEW h, NEW L, SoundAs(h, A, L), NEW m \in 0 .. MaxSize - 1,
         NEW k \in 1 .. Len(L[m]), NEW i \in 1 .. Len(Table(h, L, m, k)),
         Len(Table(h, L, m, k)) > 1
  PROVE  LET u == Table(h, L, m, k)
             g == Retabled(h, L, m, k, Dropped(u, i))
         IN  SoundMap(Insert(g, m, u[i]), A)
<1> DEFINE u == Table(h, L, m, k)
           n == Len(u)
           addr == u[i]
           d == Dropped(u, i)
           g == Retabled(h, L, m, k, d)
           t == Append(d, addr)
<1>0. m \in 0 .. MaxSize /\ HASH_MAP_BLOCK_SIZE \in Nat BY HashMapAssumption
<1>1. IsMap(h, A) /\ Layout(h, L) BY DEF SoundAs
<1>2. u \in Seq(A) /\ n \in Nat BY <1>0, PageFacts
<1>3. n <= HASH_MAP_BLOCK_SIZE BY BucketPage
<1>4. d \in Seq(A) /\ Len(d) = n - 1 BY <1>2, DroppedFacts
<1>5. t \in Seq(A) /\ Fits(h, L, m, k, t) BY MovedFits
<1>6. k \in Nat /\ Len(L[m]) \in Nat BY <1>0, <1>1, ListTypes
<1> HIDE DEF d
<1>7. IsMap(g, A) /\ Layout(g, L) BY <1>0, <1>1, <1>4, RetabledMap, RetabledLayout
<1>8. Table(g, L, m, k) = d BY <1>0, <1>1, <1>4, RetabledTables
<1>9. ASSUME NEW j \in 1 .. k - 1
      PROVE  /\ Len(Table(g, L, m, j)) = HASH_MAP_BLOCK_SIZE
             /\ \A x \in 1 .. Len(Table(g, L, m, j)) : Table(g, L, m, j)[x] # addr
  <2>1. j \in 1 .. Len(L[m]) /\ j # k /\ j # Len(L[m]) BY <1>6
  <2>2. Table(g, L, m, j) = Table(h, L, m, j) BY <1>0, <1>1, <1>4, <2>1, RetabledTables
  <2>3. Len(Table(h, L, m, j)) = HASH_MAP_BLOCK_SIZE BY <2>1, BucketPage
  <2>4. ASSUME NEW x \in 1 .. Len(Table(h, L, m, j)), Table(h, L, m, j)[x] = addr PROVE FALSE
    <3>1. j = k BY <2>1, <2>4, OneEntry
    <3> QED BY <2>1, <3>1
  <2> QED BY <2>2, <2>3, <2>4
<1>10. Passed(g, L, m, k, addr) BY <1>9 DEF Passed
<1>11. Len(d) # HASH_MAP_BLOCK_SIZE
  <2> HIDE DEF n
  <2> QED BY <1>0, <1>2, <1>3, <1>4
<1> HIDE DEF t
<1>12. Retabled(g, L, m, k, t) = Retabled(h, L, m, k, t) BY <1>0, <1>1, <1>4, <1>5, RetabledTwice
<1>13. SoundMap(Retabled(h, L, m, k, t), A)
  <2>1. SoundAs(Retabled(h, L, m, k, t), A, L) BY <1>5, RetabledSound
  <2> QED BY <2>1, SoundAsIs
<1> HIDE DEF g, addr
<1>14. Insert(g, m, addr) = Retabled(g, L, m, k, t)
  <2>1. Insert(g, m, addr) = IF Len(Table(g, L, m, k)) # HASH_MAP_BLOCK_SIZE
                             THEN Retabled(g, L, m, k, Append(Table(g, L, m, k), addr))
                             ELSE [WithPage(g, addr) EXCEPT !.maps[L[m][k]].next = NewPage(g)]
    <3>1. k = Len(L[m]) \/ Len(Table(g, L, m, k)) # HASH_MAP_BLOCK_SIZE BY <1>8, <1>11
    <3> QED BY <1>7, <1>10, <3>1, InsertCase
  <2> QED BY <1>8, <1>11, <2>1 DEF t
<1> QED BY <1>12, <1>13, <1>14 DEF g, d, addr

(* table.c takes a block out of a bucket, whether it is there or not, and   *)
(* puts it in: the map is sound again.                                      *)
LEMMA RelistSound ==
  ASSUME NEW A, NEW h, SoundMap(h, A), NEW m \in 0 .. MaxSize - 1, NEW addr \in A
  PROVE  SoundMap(Insert(Pop(h, m, addr), m, addr), A)
<1> DEFINE L == Chains(h)
           b == Len(L[m])
           g == Released(h, L, m)
           K == Freed(L, m)
<1>0. m \in 0 .. MaxSize /\ HASH_MAP_BLOCK_SIZE # 1 BY HashMapAssumption
<1>1. SoundAs(h, A, L) BY SoundHasLists
<1> HIDE DEF L
<1>2. IsMap(h, A) /\ Layout(h, L) BY <1>1 DEF SoundAs
<1>3. CASE Lacks(h, L, m, addr) /\ (L[m] = <<>> \/ Len(Table(h, L, m, 1)) # 1)
  <2>1. Pop(h, m, addr) = h BY <1>1, <1>3, PopNone
  <2> QED BY <1>1, <1>3, <2>1, InsertSound
<1>4. ASSUME L[m] # <<>>, Pop(h, m, addr) = g, \A j \in 1 .. b - 1 :
                \A x \in 1 .. Len(Table(h, L, m, j)) : Table(h, L, m, j)[x] # addr
      PROVE  SoundMap(Insert(Pop(h, m, addr), m, addr), A)
  <2>1. /\ SoundAs(g, A, K) /\ Len(K[m]) = b - 1
        /\ \A j \in 1 .. b - 1 : Table(g, K, m, j) = Table(h, L, m, j)
    BY <1>1, <1>4, ReleasedSound
  <2> HIDE DEF g, K, b
  <2>2. Lacks(g, K, m, addr) BY <1>4, <2>1 DEF Lacks
  <2> QED BY <1>4, <2>1, <2>2, InsertSound
<1>5. CASE L[m] # <<>> /\ Len(Table(h, L, m, 1)) = 1
  <2>1. b = 1 /\ Pop(h, m, addr) = g BY <1>1, <1>5, PopHead
  <2>2. 1 .. b - 1 = {} BY <2>1
  <2> HIDE DEF g, b
  <2> QED BY <1>4, <1>5, <2>1, <2>2
<1>6. CASE ~Lacks(h, L, m, addr) /\ Len(Table(h, L, m, 1)) # 1
  <2>1. PICK k \in 1 .. Len(L[m]) : \E i \in 1 .. Len(Table(h, L, m, k)) : Table(h, L, m, k)[i] = addr
    BY <1>6 DEF Lacks
  <2>2. PICK i \in 1 .. Len(Table(h, L, m, k)) : Table(h, L, m, k)[i] = addr BY <2>1
  <2> DEFINE u == Table(h, L, m, k)
  <2>3. Pop(h, m, addr) = IF Len(u) > 1 THEN Retabled(h, L, m, k, Dropped(u, i)) ELSE g
    BY <1>1, <1>6, <2>2, PopCase
  <2>4. CASE Len(u) > 1
    <3>1. SoundMap(Insert(Retabled(h, L, m, k, Dropped(u, i)), m, u[i]), A)
      BY <1>1, <2>4, RelistMoved
    <3> QED BY <2>2, <2>3, <2>4, <3>1
  <2>5. CASE ~(Len(u) > 1)
    <3>1. Len(u) \in 1 .. HASH_MAP_BLOCK_SIZE /\ (k # b => Len(u) = HASH_MAP_BLOCK_SIZE)
      BY <1>1, BucketPage
    <3>2. k = b
      <4> HIDE DEF u
      <4> QED BY <1>0, <2>5, <3>1, HashMapAssumption
    <3>3. Len(L[m]) \in Nat BY <1>0, <1>2, ListTypes
    <3>4. ASSUME NEW j \in 1 .. b - 1, NEW x \in 1 .. Len(Table(h, L, m, j)),
                 Table(h, L, m, j)[x] = addr
          PROVE  FALSE
      <4>1. j \in 1 .. Len(L[m]) /\ j # k BY <3>2, <3>3
      <4>2. j = k BY <1>1, <2>2, <3>4, <4>1, OneEntry
      <4> QED BY <4>1, <4>2
    <3>5. L[m] # <<>> BY <3>3
    <3>6. Pop(h, m, addr) = g BY <2>3, <2>5
    <3> HIDE DEF g, b
    <3> QED BY <1>4, <3>4, <3>5, <3>6
  <2> QED BY <2>4, <2>5
<1>7. L[m] = <<>> => Lacks(h, L, m, addr) BY DEF Lacks
<1> QED BY <1>3, <1>5, <1>6, <1>7

-----------------------------------------------------------------------------
(* hash_table_pop_lower_bound.                                             *)

(* A set of numbers has a smallest one.                                     *)
LEMMA SmallestNumber ==
  ASSUME NEW T \in SUBSET Nat, T # {}
  PROVE  \E n \in T : \A k \in T : n <= k
<1> SUFFICES ASSUME \A n \in T : \E k \in T : ~(n <= k) PROVE FALSE
  OBVIOUS
<1> DEFINE S == {n \in Nat : \A k \in T : n < k}
<1>1. 0 \in S
  <2> SUFFICES ASSUME NEW k \in T PROVE 0 < k OBVIOUS
  <2>1. k # 0
    <3> SUFFICES ASSUME k = 0 PROVE FALSE OBVIOUS
    <3>1. PICK l \in T : ~(k <= l) OBVIOUS
    <3> QED BY <3>1
  <2> QED BY <2>1
<1>2. ASSUME NEW n \in S PROVE n + 1 \in S
  <2> SUFFICES ASSUME NEW k \in T PROVE n + 1 < k OBVIOUS
  <2>1. n < k OBVIOUS
  <2>2. k # n + 1
    <3> SUFFICES ASSUME k = n + 1 PROVE FALSE OBVIOUS
    <3>1. PICK l \in T : ~(k <= l) OBVIOUS
    <3>2. n < l OBVIOUS
    <3> QED BY <3>1, <3>2
  <2> QED BY <2>1, <2>2
<1>3. S = Nat
  <2>1. S \in SUBSET Nat OBVIOUS
  <2> HIDE DEF S
  <2> QED BY <1>1, <1>2, <2>1, SetInduction
<1>4. PICK k \in T : TRUE OBVIOUS
<1>5. k \in S BY <1>3
<1> QED BY <1>5

(* It offers an address of the map and leaves a sound one.                  *)
LEMMA PopLowerBoundSound ==
  ASSUME NEW A, NEW h, SoundMap(h, A), NEW size \in Nat
  PROVE  LET p == PopLowerBound(h, size)
         IN  SoundMap(p.fsm, A) /\ p.addr \in {NoEntry} \union A
<1> DEFINE used == {m \in size .. MaxSize - 1 : h.dir[m] # NoEntry}
           m == CHOOSE m \in used : \A j \in used : m <= j
           addr == Last(h.maps[Last(Bucket(h, m))].table)
           L == Chains(h)
           b == Len(L[m])
           u == Table(h, L, m, b)
           p == PopLowerBound(h, size)
<1>0. MaxSize \in Nat BY HashMapAssumption
<1>1. p = IF used = {} THEN [fsm |-> h, addr |-> NoEntry]
          ELSE [fsm |-> Pop(h, m, addr), addr |-> addr]
  BY DEF PopLowerBound
<1>2. SoundAs(h, A, L) BY SoundHasLists
<1> HIDE DEF L
<1>3. CASE used = {} BY <1>1, <1>3
<1>4. CASE used # {}
  <2>1. m \in used
    <3>1. used \in SUBSET Nat BY <1>0
    <3> HIDE DEF used
    <3>2. \E l \in used : \A j \in used : l <= j BY <1>4, <3>1, SmallestNumber
    <3> QED BY <3>2
  <2>2. m \in 0 .. MaxSize - 1 /\ m \in 0 .. MaxSize /\ h.dir[m] # NoEntry
    <3> HIDE DEF m
    <3> QED BY <1>0, <2>1
  <2> HIDE DEF m, used
  <2>3. IsMap(h, A) /\ Layout(h, L) BY <1>2 DEF SoundAs
  <2>4. Bucket(h, m) = L[m] /\ L[m] # <<>> BY <2>2, <2>3, BucketIsList
  <2>5. b \in 1 .. Len(L[m]) BY <2>2, <2>3, <2>4, ListTypes
  <2>6. Last(Bucket(h, m)) = L[m][b] BY <2>4 DEF Last
  <2>7. addr = u[Len(u)] BY <2>6 DEF Last, Table
  <2>8. Len(u) \in 1 .. Len(u)
    <3>1. Len(u) \in Nat /\ Len(u) # 0 BY <1>2, <2>2, <2>5, BucketPage
    <3> HIDE DEF u
    <3> QED BY <3>1
  <2>9. u[Len(u)] \in A BY <1>2, <2>2, <2>5, <2>8, PageFacts
  <2>10. SoundMap(Pop(h, m, u[Len(u)]), A) BY <1>2, <2>2, <2>4, <2>8, PopLastSound
  <2> HIDE DEF addr, u
  <2>11. p = [fsm |-> Pop(h, m, addr), addr |-> addr] BY <1>1, <1>4
  <2> QED BY <2>7, <2>9, <2>10, <2>11
<1> QED BY <1>3, <1>4

-----------------------------------------------------------------------------
(* What a sound map is.                                                    *)

(* A map over some blocks is one over more.                                 *)
LEMMA SoundMore ==
  ASSUME NEW A, NEW B, A \subseteq B, NEW h, SoundMap(h, A)
  PROVE  SoundMap(h, B)
<1>1. Seq(A) \subseteq Seq(B)
  <2> SUFFICES ASSUME NEW s \in Seq(A) PROVE s \in Seq(B) OBVIOUS
  <2> QED BY SeqMonotonic
<1>2. [next : Nat, table : Seq(A)] \subseteq [next : Nat, table : Seq(B)] BY <1>1
<1>3. h.maps \in Seq([next : Nat, table : Seq(A)]) BY DEF SoundMap, IsMap
<1>4. h.maps \in Seq([next : Nat, table : Seq(B)]) BY <1>2, <1>3, SeqMonotonic
<1>5. IsMap(h, B) BY <1>4 DEF SoundMap, IsMap
<1> QED BY <1>5 DEF SoundMap

(* No bucket lists a block the map knows nothing of.                        *)
LEMMA LacksNew ==
  ASSUME NEW A, NEW h, SoundMap(h, A), NEW m \in 0 .. MaxSize - 1, NEW addr, addr \notin A
  PROVE  Lacks(h, Chains(h), m, addr)
<1> DEFINE L == Chains(h)
<1>0. m \in 0 .. MaxSize BY HashMapAssumption
<1>1. SoundAs(h, A, L) BY SoundHasLists
<1> HIDE DEF L
<1>2. ASSUME NEW i \in 1 .. Len(L[m]), NEW x \in 1 .. Len(Table(h, L, m, i))
      PROVE  Table(h, L, m, i)[x] # addr
  <2>1. Table(h, L, m, i)[x] \in A BY <1>0, <1>1, PageFacts
  <2> QED BY <2>1
<1>3. Lacks(h, L, m, addr) BY <1>2 DEF Lacks
<1> QED BY <1>3 DEF L

(* hash_table_init leaves a sound map: no bucket and one free page.         *)
LEMMA InitMapSound ==
  ASSUME NEW A
  PROVE  SoundMap(InitMap, A)
<1> DEFINE none == [m \in 0 .. MaxSize - 1 |-> NoEntry]
           e == [dir |-> none, maps |-> <<>>, free |-> NoPage]
           E == [j \in 0 .. MaxSize |-> <<>>]
<1>0. MaxSize \in Nat BY HashMapAssumption
<1>1. IsMap(e, A)
  <2>1. <<>> \in Seq([next : Nat, table : Seq(A)]) BY EmptySeq
  <2> QED BY <2>1 DEF IsMap, NoPage
<1>2. \A j \in 0 .. MaxSize : E[j] = <<>> /\ Len(E[j]) = 0 OBVIOUS
<1>3. \A j \in 0 .. MaxSize : First(e, j) = NoPage BY <1>0 DEF First
<1>4. DOMAIN e.maps = {} OBVIOUS
<1> HIDE DEF e, E
<1>5. 1 .. 0 = {} OBVIOUS
<1>6. Layout(e, E)
  <2>1. Linked(e, E)
    <3> SUFFICES ASSUME NEW j \in 0 .. MaxSize
                 PROVE  /\ E[j] \in Seq(DOMAIN e.maps)
                        /\ Len(E[j]) = 0 => First(e, j) = NoPage
                        /\ Len(E[j]) # 0 => First(e, j) = E[j][1]
                        /\ \A i \in 1 .. Len(E[j]) - 1 : e.maps[E[j][i]].next = E[j][i + 1]
                        /\ Len(E[j]) # 0 => e.maps[E[j][Len(E[j])]].next = NoPage
      BY DEF Linked
    <3>1. E[j] = <<>> /\ Len(E[j]) = 0 BY <1>2
    <3>2. <<>> \in Seq(DOMAIN e.maps) BY EmptySeq
    <3>3. 1 .. 0 - 1 = {} OBVIOUS
    <3> QED BY <1>3, <3>1, <3>2, <3>3
  <2>2. Placed(e, E) BY <1>4 DEF Placed
  <2>3. Apart(E) BY <1>2, <1>5 DEF Apart
  <2> QED BY <2>1, <2>2, <2>3, LayoutBy
<1>7. PackedIn(e, E)
  <2>1. \A j \in 0 .. MaxSize : 1 .. Len(E[j]) = {} BY <1>2, <1>5
  <2>2. MaxSize \in 0 .. MaxSize /\ \A j \in 0 .. MaxSize - 1 : j \in 0 .. MaxSize BY <1>0
  <2> QED BY <2>1, <2>2 DEF PackedIn
<1>8. DistinctIn(e, E)
  <2>1. \A j \in 0 .. MaxSize : 1 .. Len(E[j]) = {} BY <1>2, <1>5
  <2>2. \A j \in 0 .. MaxSize - 1 : j \in 0 .. MaxSize BY <1>0
  <2> QED BY <2>1, <2>2 DEF DistinctIn
<1>9. E = [j \in 0 .. MaxSize |-> E[j]] BY DEF E
<1>10. SoundAs(e, A, E) BY <1>1, <1>6, <1>7, <1>8, <1>9, SoundBy
<1>11. SoundMap(Extended(e), A)
  <2>1. E[MaxSize] = <<>> BY <1>0, <1>2
  <2>2. SoundAs(Extended(e), A, ExtendedLists(e, E)) BY <1>10, <2>1, ExtendedSound
  <2> QED BY <2>2, SoundAsIs
<1>12. Extended(e) = InitMap
  <2>1. Append(<<>>, Blank) = <<Blank>> OBVIOUS
  <2>2. Len(<<>>) + 1 = 1 OBVIOUS
  <2>3. Extended(e) = [dir |-> none, maps |-> Append(<<>>, Blank), free |-> Len(<<>>) + 1]
    <3> DEFINE l == Append(<<>>, Blank)
    <3>1. Append(e.maps, Blank) = l /\ Len(e.maps) + 1 = Len(<<>>) + 1 BY DEF e
    <3>2. Extended(e) = [e EXCEPT !.maps = l, !.free = Len(<<>>) + 1] BY <3>1 DEF Extended
    <3> HIDE DEF none, l
    <3> QED BY <3>2 DEF e, l
  <2>4. InitMap = [dir |-> none, maps |-> <<Blank>>, free |-> 1] BY DEF InitMap, Blank
  <2> HIDE DEF none
  <2> QED BY <2>1, <2>2, <2>3, <2>4
<1> QED BY <1>11, <1>12

(* The fields of a sound map and of its pages.                              *)
LEMMA SoundTypes ==
  ASSUME NEW A, NEW h, SoundMap(h, A)
  PROVE  /\ DOMAIN h.dir = 0 .. MaxSize - 1
         /\ \A m \in DOMAIN h.dir : h.dir[m] \in {NoEntry} \union DOMAIN h.maps
         /\ \A p \in DOMAIN h.maps : /\ h.maps[p].next \in {NoPage} \union DOMAIN h.maps
                                     /\ ToSet(h.maps[p].table) \subseteq A
<1> DEFINE L == Chains(h)
<1>1. IsMap(h, A) /\ Layout(h, L) BY DEF SoundMap
<1> HIDE DEF L
<1>2. /\ DOMAIN h.dir = 0 .. MaxSize - 1
      /\ \A m \in DOMAIN h.dir : h.dir[m] \in {NoEntry} \union DOMAIN h.maps
  BY <1>1 DEF IsMap
<1>3. ASSUME NEW p \in DOMAIN h.maps PROVE h.maps[p].next \in {NoPage} \union DOMAIN h.maps
  <2>1. PICK m \in 0 .. MaxSize : \E i \in DOMAIN L[m] : L[m][i] = p BY <1>1 DEF Layout
  <2>2. PICK i \in DOMAIN L[m] : L[m][i] = p BY <2>1
  <2>3. h.maps[p].next = IF i = Len(L[m]) THEN NoPage ELSE L[m][i + 1] BY <1>1, <2>2 DEF Layout
  <2>4. /\ Len(L[m]) \in Nat /\ DOMAIN L[m] = 1 .. Len(L[m])
        /\ \A l \in 1 .. Len(L[m]) : L[m][l] \in DOMAIN h.maps
    BY <1>1, ListTypes
  <2>5. CASE i = Len(L[m]) BY <2>3, <2>5
  <2>6. CASE i # Len(L[m])
    <3>1. i + 1 \in 1 .. Len(L[m]) BY <2>4, <2>6
    <3> QED BY <2>3, <2>4, <2>6, <3>1
  <2> QED BY <2>5, <2>6
<1>4. ASSUME NEW p \in DOMAIN h.maps PROVE ToSet(h.maps[p].table) \subseteq A
  <2> DEFINE t == h.maps[p].table
  <2>1. t \in Seq(A) /\ DOMAIN t = 1 .. Len(t) BY <1>1, MapPage
  <2> HIDE DEF t
  <2>2. \A x \in DOMAIN t : t[x] \in A BY <2>1, ElementOfSeq
  <2>3. ToSet(t) \subseteq A BY <2>2 DEF ToSet
  <2> QED BY <2>3 DEF t
<1> QED BY <1>2, <1>3, <1>4

(* Its chains and its free list are what hash_map.c counts on.              *)
LEMMA SoundIsWellFormed ==
  ASSUME NEW A, NEW h, SoundMap(h, A)
  PROVE  WellFormed(h)
<1> DEFINE L == Chains(h)
           used == {m \in 0 .. MaxSize - 1 : h.dir[m] # NoEntry}
           pages(m) == ToSet(Bucket(h, m))
           free == ToSet(FreeList(h))
<1>0. MaxSize \in Nat /\ MaxSize \in 0 .. MaxSize BY HashMapAssumption
<1>1. SoundAs(h, A, L) BY SoundHasLists
<1> HIDE DEF L
<1>2. IsMap(h, A) /\ Layout(h, L) BY <1>1 DEF SoundAs
<1>3. ASSUME NEW m \in used
      PROVE  m \in 0 .. MaxSize - 1 /\ m \in 0 .. MaxSize /\ m # MaxSize /\ Bucket(h, m) = L[m]
  <2>1. m \in 0 .. MaxSize - 1 OBVIOUS
  <2>2. m \in 0 .. MaxSize /\ m # MaxSize BY <1>0, <2>1
  <2> QED BY <1>2, <2>1, <2>2, BucketIsList
<1>4. FreeList(h) = L[MaxSize] BY <1>2, FreeIsList
<1>5. ASSUME NEW m \in used, NEW p
      PROVE  p \in pages(m) <=> \E i \in 1 .. Len(L[m]) : L[m][i] = p
  <2>1. DOMAIN L[m] = 1 .. Len(L[m]) BY <1>2, <1>3, ListTypes
  <2>2. pages(m) = {L[m][i] : i \in DOMAIN L[m]} BY <1>3 DEF ToSet
  <2> HIDE DEF used, pages
  <2> QED BY <2>1, <2>2
<1>6. ASSUME NEW p
      PROVE  p \in free <=> \E i \in 1 .. Len(L[MaxSize]) : L[MaxSize][i] = p
  <2>1. DOMAIN L[MaxSize] = 1 .. Len(L[MaxSize]) BY <1>0, <1>2, ListTypes
  <2>2. free = {L[MaxSize][i] : i \in DOMAIN L[MaxSize]} BY <1>4 DEF ToSet
  <2> HIDE DEF free
  <2> QED BY <2>1, <2>2
<1>7. ASSUME NEW m \in 0 .. MaxSize - 1, L[m] # <<>> PROVE m \in used
  <2>1. h.dir[m] # NoEntry BY <1>2, <1>7, BucketIsList
  <2> QED BY <2>1
<1> HIDE DEF used, pages, free
<1>8. free \union UNION {pages(m) : m \in used} = DOMAIN h.maps
  <2>1. ASSUME NEW p \in free PROVE p \in DOMAIN h.maps
    <3>1. PICK i \in 1 .. Len(L[MaxSize]) : L[MaxSize][i] = p BY <1>6
    <3>2. L[MaxSize][i] \in DOMAIN h.maps BY <1>0, <1>2, ListTypes
    <3> QED BY <3>1, <3>2
  <2>2. ASSUME NEW m \in used, NEW p \in pages(m) PROVE p \in DOMAIN h.maps
    <3>1. PICK i \in 1 .. Len(L[m]) : L[m][i] = p BY <1>5
    <3>2. L[m][i] \in DOMAIN h.maps BY <1>2, <1>3, ListTypes
    <3> QED BY <3>1, <3>2
  <2>3. ASSUME NEW p \in DOMAIN h.maps PROVE p \in free \/ \E m \in used : p \in pages(m)
    <3>1. PICK m \in 0 .. MaxSize : \E i \in DOMAIN L[m] : L[m][i] = p BY <1>2 DEF Layout
    <3>2. PICK i \in DOMAIN L[m] : L[m][i] = p BY <3>1
    <3>3. i \in 1 .. Len(L[m]) BY <1>2, <3>2, ListTypes
    <3>4. CASE m = MaxSize BY <1>6, <3>2, <3>3, <3>4
    <3>5. CASE m # MaxSize
      <4>1. m \in 0 .. MaxSize - 1 BY <1>0, <3>5
      <4>2. L[m] # <<>>
        <5> SUFFICES ASSUME L[m] = <<>> PROVE FALSE OBVIOUS
        <5>1. Len(L[m]) = 0 BY EmptySeq
        <5> QED BY <3>3, <5>1
      <4>3. m \in used BY <1>7, <4>1, <4>2
      <4>4. p \in pages(m) BY <1>5, <3>2, <3>3, <4>3
      <4> QED BY <4>3, <4>4
    <3> QED BY <3>4, <3>5
  <2> QED BY <2>1, <2>2, <2>3
<1>9. ASSUME NEW m \in used PROVE pages(m) \intersect free = {}
  <2> SUFFICES ASSUME NEW p \in pages(m), p \in free PROVE FALSE OBVIOUS
  <2>1. PICK i \in 1 .. Len(L[m]) : L[m][i] = p BY <1>5
  <2>2. PICK k \in 1 .. Len(L[MaxSize]) : L[MaxSize][k] = p BY <1>6
  <2>3. m = MaxSize BY <1>0, <1>2, <1>3, <2>1, <2>2, OnePlace
  <2> QED BY <1>3, <2>3
<1>10. ASSUME NEW m \in used, NEW j \in used, m # j PROVE pages(m) \intersect pages(j) = {}
  <2> SUFFICES ASSUME NEW p \in pages(m), p \in pages(j) PROVE FALSE OBVIOUS
  <2>1. PICK i \in 1 .. Len(L[m]) : L[m][i] = p BY <1>5
  <2>2. PICK k \in 1 .. Len(L[j]) : L[j][k] = p BY <1>5
  <2>3. m = j BY <1>2, <1>3, <2>1, <2>2, OnePlace
  <2> QED BY <1>10, <2>3
<1>11. ASSUME NEW p \in free PROVE h.maps[p].table = <<>>
  <2>1. PICK i \in 1 .. Len(L[MaxSize]) : L[MaxSize][i] = p BY <1>6
  <2>2. Table(h, L, MaxSize, i) = <<>> BY <1>1, FreePage
  <2> QED BY <2>1, <2>2 DEF Table
<1>12. ASSUME NEW m \in used, NEW p \in pages(m)
       PROVE  h.maps[p].table # <<>> /\ (h.maps[p].next # NoPage => Full(h, p))
  <2>1. PICK i \in 1 .. Len(L[m]) : L[m][i] = p BY <1>5
  <2>2. /\ Table(h, L, m, i) # <<>>
        /\ i # Len(L[m]) => Len(Table(h, L, m, i)) = HASH_MAP_BLOCK_SIZE
    BY <1>1, <1>3, BucketPage
  <2>3. h.maps[L[m][i]].next # NoPage => i # Len(L[m])
    <3>1. i \in DOMAIN L[m] BY <1>2, <1>3, ListTypes
    <3> QED BY <1>2, <1>3, <3>1 DEF Layout
  <2> QED BY <2>1, <2>2, <2>3 DEF Table, Full
<1>13. WellFormed(h)
  <2> USE DEF used, pages, free
  <2> QED BY Zenon, <1>8, <1>9, <1>10, <1>11, <1>12 DEF WellFormed
<1> QED BY <1>13

(* No bucket of it lists a block twice.                                     *)
LEMMA SoundHasNoRepeats ==
  ASSUME NEW A, NEW h, SoundMap(h, A)
  PROVE  NoRepeats(h)
<1> DEFINE L == Chains(h)
<1>1. SoundAs(h, A, L) BY SoundHasLists
<1> HIDE DEF L
<1>2. IsMap(h, A) /\ Layout(h, L) BY <1>1 DEF SoundAs
<1> SUFFICES ASSUME NEW m \in 0 .. MaxSize - 1
             PROVE  /\ \A p \in ToSet(Bucket(h, m)) : IsInjective(h.maps[p].table)
                    /\ \A p, q \in ToSet(Bucket(h, m)) :
                          p # q => ToSet(h.maps[p].table) \intersect ToSet(h.maps[q].table) = {}
  BY Zenon DEF NoRepeats
<1>3. m \in 0 .. MaxSize BY HashMapAssumption
<1>4. ASSUME NEW p \in ToSet(Bucket(h, m))
      PROVE  \E i \in 1 .. Len(L[m]) : /\ L[m][i] = p /\ h.maps[p].table = Table(h, L, m, i)
                                       /\ DOMAIN h.maps[p].table = 1 .. Len(Table(h, L, m, i))
  <2>1. Bucket(h, m) = L[m] /\ DOMAIN L[m] = 1 .. Len(L[m]) BY <1>2, <1>3, BucketIsList, ListTypes
  <2>2. PICK i \in 1 .. Len(L[m]) : L[m][i] = p BY <2>1 DEF ToSet
  <2>3. DOMAIN Table(h, L, m, i) = 1 .. Len(Table(h, L, m, i)) BY <1>1, <1>3, PageFacts
  <2> QED BY <2>2, <2>3 DEF Table
<1>5. ASSUME NEW p \in ToSet(Bucket(h, m)) PROVE IsInjective(h.maps[p].table)
  <2>1. PICK i \in 1 .. Len(L[m]) : /\ L[m][i] = p /\ h.maps[p].table = Table(h, L, m, i)
                                    /\ DOMAIN h.maps[p].table = 1 .. Len(Table(h, L, m, i))
    BY <1>4
  <2>2. ASSUME NEW x \in 1 .. Len(Table(h, L, m, i)), NEW y \in 1 .. Len(Table(h, L, m, i)),
               Table(h, L, m, i)[x] = Table(h, L, m, i)[y]
        PROVE  x = y
    BY <1>1, <2>2, OneEntry
  <2> QED BY <2>1, <2>2 DEF IsInjective
<1>6. ASSUME NEW p \in ToSet(Bucket(h, m)), NEW q \in ToSet(Bucket(h, m)), p # q
      PROVE  ToSet(h.maps[p].table) \intersect ToSet(h.maps[q].table) = {}
  <2>1. PICK i \in 1 .. Len(L[m]) : /\ L[m][i] = p /\ h.maps[p].table = Table(h, L, m, i)
                                    /\ DOMAIN h.maps[p].table = 1 .. Len(Table(h, L, m, i))
    BY <1>4
  <2>2. PICK k \in 1 .. Len(L[m]) : /\ L[m][k] = q /\ h.maps[q].table = Table(h, L, m, k)
                                    /\ DOMAIN h.maps[q].table = 1 .. Len(Table(h, L, m, k))
    BY <1>4
  <2>3. ASSUME NEW x \in 1 .. Len(Table(h, L, m, i)), NEW y \in 1 .. Len(Table(h, L, m, k)),
               Table(h, L, m, i)[x] = Table(h, L, m, k)[y]
        PROVE  FALSE
    <3>1. i = k BY <1>1, <2>3, OneEntry
    <3> QED BY <1>6, <2>1, <2>2, <3>1
  <2> QED BY <2>1, <2>2, <2>3 DEF ToSet
<1> QED BY <1>5, <1>6

-----------------------------------------------------------------------------
(* Blocks.                                                                 *)

(* There is a bucket for the free bytes of every block.                     *)
LEMMA SpaceHasBucket ==
  ASSUME NEW b, SoundBlock(b)
  PROVE  Space(b) \in 0 .. MaxSize - 1
<1>1. /\ b.n \in Nat /\ b.tail \in Nat /\ b.tail <= PAGE_SIZE /\ PAGE_SIZE \in Nat
      /\ Header + ItemIDSize * b.n <= b.tail
  BY Numbers
<1>2. PAGE_SIZE - Header < MaxSize /\ MaxSize \in Nat BY TableAssumption, HashMapAssumption
<1>3. Space(b) = b.tail - (Header + ItemIDSize * b.n) BY DEF Space, HeadPtr
<1>4. 4 * b.n \in Nat BY <1>1
<1> QED BY <1>1, <1>2, <1>3, <1>4 DEF Header, ItemIDSize

(* An item goes into a new block, as its first.                             *)
LEMMA FreshBlock ==
  ASSUME NEW v \in Val, NEW s \in Sizes
  PROVE  LET r == NewItem(InitBlock([x \in Offset |-> Zero]), v, s)
         IN  /\ r.idx = 0 /\ SoundBlock(r.block) /\ InUse(r.block) = {0}
             /\ GetItem(r.block, 0) = Item(v, s)
<1> DEFINE m == [x \in Offset |-> Zero]
           b == InitBlock(m)
<1>1. m \in [Offset -> Byte] BY DEF Byte
<1> HIDE DEF m
<1>2. SoundBlock(b) /\ InUse(b) = {} BY <1>1, InitSound
<1>3. b.n = 0 /\ b.tail = PAGE_SIZE BY DEF InitBlock
<1> HIDE DEF b
<1>4. s + ItemIDSize <= Space(b)
  <2>1. PAGE_SIZE \in Nat /\ s \in Nat BY BlockAssumption
  <2>2. Header + ItemIDSize + s <= PAGE_SIZE BY TableAssumption
  <2> QED BY <1>3, <2>1, <2>2 DEF Space, HeadPtr, Header, ItemIDSize
<1>5. Reusable(b, s) = {}
  <2> SUFFICES ASSUME NEW i \in 0 .. b.n - 1 PROVE FALSE BY DEF Reusable
  <2> QED BY <1>3
<1>6. NewItem(b, v, s) = [block |-> Appended(b, v, s), idx |-> b.n]
  BY <1>4, <1>5 DEF NewItem
<1>7. /\ SoundBlock(Appended(b, v, s)) /\ InUse(Appended(b, v, s)) = InUse(b) \union {b.n}
      /\ GetItem(Appended(b, v, s), b.n) = Item(v, s)
  BY <1>2, <1>4, AppendSound
<1> QED BY <1>2, <1>3, <1>6, <1>7 DEF b, m

-----------------------------------------------------------------------------
(* The invariant.                                                          *)

(* The blocks of the file are numbered from 1.                              *)
LEMMA FileTypes ==
  ASSUME IInv
  PROVE  /\ blocks \in Seq(Range(blocks)) /\ Len(blocks) \in Nat /\ Len(blocks) <= MaxBlocks
         /\ DOMAIN blocks = 1 .. Len(blocks)
         /\ NoEntry \notin DOMAIN blocks
<1>1. blocks \in Seq(Range(blocks)) /\ Len(blocks) <= MaxBlocks BY DEF IInv
<1>2. Len(blocks) \in Nat /\ DOMAIN blocks = 1 .. Len(blocks) BY <1>1, LenProperties
<1> QED BY <1>1, <1>2 DEF NoEntry

(* Which RIDs are live.                                                     *)
LEMMA LiveIs ==
  ASSUME NEW a, NEW i
  PROVE  RID(a, i) \in LiveRids <=> a \in DOMAIN blocks /\ i \in InUse(blocks[a])
<1>1. ASSUME RID(a, i) \in LiveRids PROVE a \in DOMAIN blocks /\ i \in InUse(blocks[a])
  <2>1. PICK x \in DOMAIN blocks : RID(a, i) \in {RID(x, j) : j \in InUse(blocks[x])}
    BY <1>1 DEF LiveRids
  <2>2. PICK j \in InUse(blocks[x]) : RID(a, i) = RID(x, j) BY <2>1
  <2>3. x = a /\ j = i BY <2>2 DEF RID
  <2> QED BY <2>3
<1> QED BY <1>1 DEF LiveRids

(* A live RID names a block and an item of it.                              *)
LEMMA LiveRid ==
  ASSUME IInv, NEW rid \in DOMAIN heap
  PROVE  /\ rid = RID(rid.addr, rid.idx)
         /\ rid.addr \in DOMAIN blocks /\ rid.idx \in InUse(blocks[rid.addr])
         /\ rid.idx \in 0 .. blocks[rid.addr].n - 1
         /\ rid \in [addr : 1 .. MaxBlocks, idx : Offset]
<1>1. rid \in LiveRids BY DEF IInv, ReadBack
<1>2. PICK a \in DOMAIN blocks : rid \in {RID(a, i) : i \in InUse(blocks[a])}
  BY <1>1 DEF LiveRids
<1>3. PICK i \in InUse(blocks[a]) : rid = RID(a, i) BY <1>2
<1>4. rid.addr = a /\ rid.idx = i BY <1>3 DEF RID
<1>5. SoundBlock(blocks[a]) BY DEF IInv
<1>6. i \in 0 .. blocks[a].n - 1 BY DEF InUse
<1>7. i \in Offset
  <2>1. blocks[a].n \in Nat /\ blocks[a].n < PAGE_SIZE /\ PAGE_SIZE \in Nat BY <1>5, Numbers
  <2> QED BY <1>6, <2>1 DEF Offset
<1>8. a \in 1 .. MaxBlocks BY FileTypes, TableAssumption
<1> QED BY <1>3, <1>4, <1>6, <1>7, <1>8 DEF RID

(* The empty file.                                                          *)
LEMMA InitIInv == Init => IInv
<1> SUFFICES ASSUME Init PROVE IInv
  OBVIOUS
<1>1. blocks = <<>> /\ fsm = InitMap /\ heap = [r \in {} |-> Zero] BY DEF Init
<1>2. blocks \in Seq(Range(blocks)) /\ Len(blocks) = 0 /\ DOMAIN blocks = {}
  BY <1>1, EmptySeq
<1>3. Len(blocks) <= MaxBlocks BY <1>2, TableAssumption
<1>4. DOMAIN heap = {} /\ heap = [r \in DOMAIN heap |-> heap[r]] BY <1>1
<1>5. LiveRids = {} BY <1>2 DEF LiveRids
<1>6. SoundMap(fsm, DOMAIN blocks) BY <1>1, InitMapSound
<1> QED BY <1>2, <1>3, <1>4, <1>5, <1>6 DEF IInv, ReadBack

(* An item more in one block, which may be a new one.                       *)
LEMMA PutEffect ==
  ASSUME IInv, NEW a, NEW n, NEW v \in Val, NEW s \in Sizes, NEW used,
         used = IF a \in DOMAIN blocks THEN InUse(blocks[a]) ELSE {},
         blocks' \in Seq(Range(blocks')), Len(blocks') <= MaxBlocks,
         DOMAIN blocks' = DOMAIN blocks \union {a},
         \A x \in DOMAIN blocks : x # a => blocks'[x] = blocks[x],
         SoundBlock(blocks'[a]), InUse(blocks'[a]) = used \union {n}, n \notin used,
         GetItem(blocks'[a], n) = Item(v, s),
         \A i \in used : GetItem(blocks'[a], i) = GetItem(blocks[a], i),
         SoundMap(fsm', DOMAIN blocks'),
         Expect(RID(a, n), v, s)
  PROVE  IInv' /\ RID(a, n) \notin DOMAIN heap
<1> DEFINE rid == RID(a, n)
<1>1. DOMAIN heap = LiveRids /\ heap = [r \in DOMAIN heap |-> heap[r]] BY DEF IInv, ReadBack
<1>2. rid \notin DOMAIN heap BY <1>1, LiveIs
<1>3. heap' = [r \in DOMAIN heap \union {rid} |-> IF r = rid THEN Item(v, s) ELSE heap[r]]
  BY DEF Expect
<1>4. \A x \in DOMAIN blocks' : SoundBlock(blocks'[x]) BY DEF IInv
<1>5. ASSUME NEW r \in DOMAIN heap PROVE r \in LiveRids' /\ Read(r)' = heap[r] /\ r # rid
  <2>1. /\ r = RID(r.addr, r.idx)
        /\ r.addr \in DOMAIN blocks /\ r.idx \in InUse(blocks[r.addr])
    BY LiveRid
  <2>2. Read(r) = heap[r] BY DEF IInv, ReadBack
  <2>3. CASE r.addr # a
    <3>1. blocks'[r.addr] = blocks[r.addr] /\ r.addr \in DOMAIN blocks' BY <2>1, <2>3
    <3>2. r \in LiveRids' BY <2>1, <3>1 DEF LiveRids
    <3> QED BY <1>2, <2>2, <3>1, <3>2 DEF Read
  <2>4. CASE r.addr = a
    <3>1. r.idx \in used BY <2>1, <2>4
    <3>2. r.idx \in InUse(blocks'[a]) /\ a \in DOMAIN blocks' BY <3>1
    <3>3. r \in LiveRids' BY <2>1, <2>4, <3>2 DEF LiveRids
    <3>4. GetItem(blocks'[a], r.idx) = GetItem(blocks[a], r.idx) BY <3>1
    <3> QED BY <1>2, <2>2, <2>4, <3>3, <3>4 DEF Read
  <2> QED BY <2>3, <2>4
<1>6. rid \in LiveRids' /\ Read(rid)' = Item(v, s)
  <2>1. a \in DOMAIN blocks' /\ n \in InUse(blocks'[a]) BY Zenon
  <2>2. rid \in LiveRids' BY <2>1 DEF LiveRids
  <2>3. rid.addr = a /\ rid.idx = n BY DEF RID
  <2> QED BY <2>2, <2>3 DEF Read
<1>7. ASSUME NEW r \in LiveRids' PROVE r \in DOMAIN heap \union {rid}
  <2>1. PICK x \in DOMAIN blocks' : r \in {RID(x, j) : j \in InUse(blocks'[x])}
    BY DEF LiveRids
  <2>2. PICK j \in InUse(blocks'[x]) : r = RID(x, j) BY <2>1
  <2>3. CASE x # a
    <3>1. x \in DOMAIN blocks /\ j \in InUse(blocks[x]) BY <2>3
    <3> QED BY <1>1, <2>2, <3>1, LiveIs
  <2>4. CASE x = a
    <3>1. j \in used \/ j = n BY <2>4
    <3>2. j \in used => a \in DOMAIN blocks /\ j \in InUse(blocks[a]) OBVIOUS
    <3> QED BY <1>1, <2>2, <2>4, <3>1, <3>2, LiveIs
  <2> QED BY <2>3, <2>4
<1> HIDE DEF rid
<1>8. DOMAIN heap' = DOMAIN heap \union {rid} /\ heap' = [r \in DOMAIN heap' |-> heap'[r]]
  BY <1>3
<1>9. LiveRids' = DOMAIN heap' BY <1>5, <1>6, <1>7, <1>8
<1>10. ASSUME NEW r \in DOMAIN heap' PROVE Read(r)' = heap'[r]
  <2>1. CASE r = rid BY <1>3, <1>6, <2>1
  <2>2. CASE r # rid
    <3>1. r \in DOMAIN heap BY <1>8, <2>2
    <3>2. heap'[r] = heap[r] BY <1>3, <2>2, <3>1
    <3> QED BY <1>5, <3>1, <3>2
  <2> QED BY <2>1, <2>2
<1>11. ReadBack' BY <1>9, <1>10 DEF ReadBack
<1> QED BY <1>2, <1>4, <1>8, <1>11 DEF IInv, rid

-----------------------------------------------------------------------------
(* The file.                                                               *)

\* u is q with e at i, and q with e behind its last element.
AsExchanged(u, q, i, e) ==
    /\ u \in Seq(Range(u)) /\ Len(u) = Len(q) /\ DOMAIN u = DOMAIN q
    /\ u[i] = e /\ \A x \in DOMAIN q : x # i => u[x] = q[x]
AsAppended(u, q, e) ==
    /\ u \in Seq(Range(u)) /\ Len(u) = Len(q) + 1 /\ Len(q) \in Nat
    /\ DOMAIN u = DOMAIN q \union {Len(q) + 1} /\ Len(q) + 1 \notin DOMAIN q
    /\ u[Len(q) + 1] = e /\ \A x \in DOMAIN q : u[x] = q[x]

(* A sequence with another element somewhere.                               *)
LEMMA Exchanged ==
  ASSUME NEW q, q \in Seq(Range(q)), NEW i \in DOMAIN q, NEW e, NEW u,
         u = [q EXCEPT ![i] = e]
  PROVE  AsExchanged(u, q, i, e)
<1> DEFINE S == Range(q) \union {e}
<1>1. q \in Seq(S)
  <2>1. Range(q) \subseteq S OBVIOUS
  <2> HIDE DEF S
  <2> QED BY <2>1, SeqMonotonic
<1>2. e \in S OBVIOUS
<1> HIDE DEF S
<1>3. Len(q) \in Nat /\ DOMAIN q = 1 .. Len(q) BY <1>1, LenProperties
<1>4. u \in Seq(S) /\ Len(u) = Len(q) BY <1>1, <1>2, <1>3, ExceptSeq
<1>5. u \in [1 .. Len(u) -> S] /\ DOMAIN u = 1 .. Len(u) BY <1>4, LenProperties
<1>6. \A x \in 1 .. Len(u) : u[x] \in Range(u) BY <1>5 DEF Range
<1>7. u \in [1 .. Len(u) -> Range(u)] BY <1>5, <1>6
<1>8. u \in Seq(Range(u))
  <2> DEFINE R == Range(u)
             n == Len(u)
  <2>1. n \in Nat /\ u \in [1 .. n -> R] BY <1>4, <1>7, LenProperties
  <2> HIDE DEF R, n
  <2>2. u \in UNION {[1 .. k -> R] : k \in Nat} BY <2>1
  <2>3. u \in Seq(R) BY <2>2, SeqDef
  <2> QED BY <2>3 DEF R
<1> QED BY <1>3, <1>4, <1>5, <1>8 DEF AsExchanged

(* A sequence with one element more.                                        *)
LEMMA OneMore ==
  ASSUME NEW q, q \in Seq(Range(q)), NEW e, NEW u, u = Append(q, e)
  PROVE  AsAppended(u, q, e)
<1> DEFINE S == Range(q) \union {e}
<1>1. q \in Seq(S)
  <2>1. Range(q) \subseteq S OBVIOUS
  <2> HIDE DEF S
  <2> QED BY <2>1, SeqMonotonic
<1>2. e \in S OBVIOUS
<1> HIDE DEF S
<1>3. Len(q) \in Nat /\ DOMAIN q = 1 .. Len(q) BY <1>1, LenProperties
<1>4. /\ u \in Seq(S) /\ Len(u) = Len(q) + 1 /\ u[Len(q) + 1] = e
      /\ \A x \in 1 .. Len(q) : u[x] = q[x]
  BY <1>1, <1>2, AppendProperties
<1>5. u \in [1 .. Len(u) -> S] /\ DOMAIN u = 1 .. Len(u) BY <1>4, LenProperties
<1>6. \A x \in 1 .. Len(u) : u[x] \in Range(u) BY <1>5 DEF Range
<1>7. u \in [1 .. Len(u) -> Range(u)] BY <1>5, <1>6
<1>8. u \in Seq(Range(u))
  <2> DEFINE R == Range(u)
             n == Len(u)
  <2>1. n \in Nat /\ u \in [1 .. n -> R] BY <1>4, <1>7, LenProperties
  <2> HIDE DEF R, n
  <2>2. u \in UNION {[1 .. k -> R] : k \in Nat} BY <2>1
  <2>3. u \in Seq(R) BY <2>2, SeqDef
  <2> QED BY <2>3 DEF R
<1>9. 1 .. Len(q) + 1 = 1 .. Len(q) \union {Len(q) + 1} /\ Len(q) + 1 \notin 1 .. Len(q)
  BY <1>3
<1> QED BY <1>3, <1>4, <1>5, <1>8, <1>9 DEF AsAppended

(* The item is put into the block the map offers.                           *)
LEMMA InsertIntoEffect ==
  ASSUME IInv, NEW v \in Val, NEW s \in Sizes, NEW p, NEW r,
         p.addr \in DOMAIN blocks, SoundMap(p.fsm, DOMAIN blocks),
         r = NewItem(blocks[p.addr], v, s), InsertInto(p, r, v, s)
  PROVE  /\ IInv' /\ RID(p.addr, r.idx) \notin DOMAIN heap
         /\ RID(p.addr, r.idx) \in [addr : 1 .. MaxBlocks, idx : Offset]
<1> DEFINE b == blocks[p.addr]
           c == Appended(b, v, s)
<1>1. SoundBlock(b) BY DEF IInv
<1>2. r.idx # -1 BY DEF InsertInto
<1>3. s + ItemIDSize <= Space(b) /\ r = [block |-> c, idx |-> b.n]
  BY <1>1, <1>2, NewItemCases
<1>4. r.block = c /\ r.idx = b.n BY <1>3
<1>5. /\ SoundBlock(c) /\ InUse(c) = InUse(b) \union {b.n} /\ b.n \notin InUse(b)
      /\ GetItem(c, b.n) = Item(v, s)
      /\ \A i \in InUse(b) : GetItem(c, i) = GetItem(b, i)
  BY <1>1, <1>3, AppendSound
<1>6. b.n \in Offset BY <1>1, Numbers DEF Offset
<1>7. /\ blocks' = [blocks EXCEPT ![p.addr] = c]
      /\ fsm' = Insert(Pop(p.fsm, Space(c), p.addr), Space(c), p.addr)
      /\ Expect(RID(p.addr, b.n), v, s)
  BY <1>4 DEF InsertInto
<1> HIDE DEF c
<1>8. Space(c) \in 0 .. MaxSize - 1 BY <1>5, SpaceHasBucket
<1>9. SoundMap(fsm', DOMAIN blocks) BY <1>7, <1>8, RelistSound
<1>10. blocks \in Seq(Range(blocks)) /\ Len(blocks) <= MaxBlocks BY FileTypes
<1>11. /\ blocks' \in Seq(Range(blocks')) /\ Len(blocks') = Len(blocks)
       /\ DOMAIN blocks' = DOMAIN blocks /\ blocks'[p.addr] = c
       /\ \A x \in DOMAIN blocks : x # p.addr => blocks'[x] = blocks[x]
  <2>1. blocks' = [blocks EXCEPT ![p.addr] = c] BY <1>7
  <2>2. blocks \in Seq(Range(blocks)) /\ p.addr \in DOMAIN blocks BY <1>10
  <2>3. AsExchanged(blocks', blocks, p.addr, c) BY <2>1, <2>2, Exchanged
  <2> QED BY <2>3 DEF AsExchanged
<1>12. DOMAIN blocks' = DOMAIN blocks \union {p.addr} BY <1>11
<1>13. Len(blocks') <= MaxBlocks /\ SoundMap(fsm', DOMAIN blocks') BY <1>9, <1>10, <1>11
<1>14. InUse(b) = IF p.addr \in DOMAIN blocks THEN InUse(blocks[p.addr]) ELSE {} OBVIOUS
<1> DEFINE used == InUse(b)
<1>15. /\ used = IF p.addr \in DOMAIN blocks THEN InUse(blocks[p.addr]) ELSE {}
       /\ InUse(blocks'[p.addr]) = used \union {b.n} /\ b.n \notin used
       /\ SoundBlock(blocks'[p.addr]) /\ GetItem(blocks'[p.addr], b.n) = Item(v, s)
       /\ \A i \in used : GetItem(blocks'[p.addr], i) = GetItem(blocks[p.addr], i)
  BY <1>5, <1>11, <1>14
<1> DEFINE n == b.n
<1>16. n = r.idx /\ n \in Offset BY <1>4, <1>6
<1>17. p.addr \in 1 .. MaxBlocks BY FileTypes, TableAssumption
<1> HIDE DEF used, n
<1>18. IInv' /\ RID(p.addr, n) \notin DOMAIN heap
  BY <1>7, <1>11, <1>12, <1>13, <1>15, PutEffect DEF n
<1> QED BY <1>16, <1>17, <1>18 DEF RID

(* The item is put into a new block.                                        *)
LEMMA InsertFreshEffect ==
  ASSUME IInv, NEW v \in Val, NEW s \in Sizes, NEW h, SoundMap(h, DOMAIN blocks),
         InsertFresh(h, v, s)
  PROVE  LET rid == RID(Len(blocks) + 1, 0)
         IN  /\ IInv' /\ rid \notin DOMAIN heap
             /\ rid \in [addr : 1 .. MaxBlocks, idx : Offset] /\ Expect(rid, v, s)
<1> DEFINE a == Len(blocks) + 1
           r == NewItem(InitBlock([x \in Offset |-> Zero]), v, s)
           c == r.block
<1>1. /\ r.idx = 0 /\ SoundBlock(c) /\ InUse(c) = {0} /\ GetItem(c, 0) = Item(v, s)
  BY FreshBlock
<1>2. /\ Len(blocks) < MaxBlocks /\ blocks' = Append(blocks, c)
      /\ fsm' = Insert(h, Space(c), a) /\ Expect(RID(a, 0), v, s)
  BY <1>1 DEF InsertFresh
<1> HIDE DEF r, c
<1>2a. blocks' = Append(blocks, c) BY <1>2
<1>3. blocks \in Seq(Range(blocks)) BY FileTypes
<1>4. /\ blocks' \in Seq(Range(blocks')) /\ Len(blocks') = a /\ Len(blocks) \in Nat
      /\ DOMAIN blocks' = DOMAIN blocks \union {a} /\ a \notin DOMAIN blocks
      /\ blocks'[a] = c /\ \A x \in DOMAIN blocks : blocks'[x] = blocks[x]
  <2>1. AsAppended(blocks', blocks, c) BY <1>2a, <1>3, OneMore
  <2> QED BY <2>1 DEF AsAppended, a
<1>5. a \in 1 .. MaxBlocks /\ Len(blocks') <= MaxBlocks
  BY <1>2, <1>4, TableAssumption
<1> HIDE DEF a
<1>6. Space(c) \in 0 .. MaxSize - 1 BY <1>1, SpaceHasBucket
<1>7. Lacks(h, Chains(h), Space(c), a) BY <1>4, <1>6, LacksNew
<1>8. SoundMap(h, DOMAIN blocks')
  <2>1. DOMAIN blocks \subseteq DOMAIN blocks' BY <1>4
  <2> QED BY <2>1, SoundMore
<1>9. SoundAs(h, DOMAIN blocks', Chains(h)) BY <1>8, SoundHasLists
<1>10. a \in DOMAIN blocks' BY <1>4
<1>11. SoundMap(fsm', DOMAIN blocks') BY <1>2, <1>6, <1>7, <1>9, <1>10, InsertSound
<1> DEFINE used == {}
           n == 0
<1>12. /\ used = IF a \in DOMAIN blocks THEN InUse(blocks[a]) ELSE {}
       /\ InUse(blocks'[a]) = used \union {n} /\ n \notin used
       /\ SoundBlock(blocks'[a]) /\ GetItem(blocks'[a], n) = Item(v, s)
       /\ \A i \in used : GetItem(blocks'[a], i) = GetItem(blocks[a], i)
       /\ \A x \in DOMAIN blocks : x # a => blocks'[x] = blocks[x]
  BY <1>1, <1>4
<1> HIDE DEF used
<1>12a. /\ blocks' \in Seq(Range(blocks')) /\ Len(blocks') <= MaxBlocks
        /\ DOMAIN blocks' = DOMAIN blocks \union {a} /\ SoundMap(fsm', DOMAIN blocks')
        /\ Expect(RID(a, n), v, s)
  BY <1>2, <1>4, <1>5, <1>11
<1> HIDE DEF n
<1>13. IInv' /\ RID(a, n) \notin DOMAIN heap
  BY <1>12, <1>12a, PutEffect
<1>14. 0 \in Offset BY BlockAssumption DEF Offset, Header
<1>15. RID(a, 0) \in [addr : 1 .. MaxBlocks, idx : Offset] BY <1>5, <1>14 DEF RID
<1> QED BY <1>2, <1>13, <1>15 DEF a, n

(* What an insertion changes: an item more, under a RID nobody has.         *)
LEMMA InsertEffect ==
  ASSUME IInv, NEW v \in Val, NEW s \in Sizes, TableInsert(v, s)
  PROVE  /\ IInv'
         /\ \E rid \in [addr : 1 .. MaxBlocks, idx : Offset] :
               rid \notin DOMAIN heap /\ Expect(rid, v, s)
<1> DEFINE p == PopLowerBound(fsm, s)
           r == NewItem(blocks[p.addr], v, s)
<1>1. s \in Nat BY BlockAssumption
<1>2. SoundMap(fsm, DOMAIN blocks) BY DEF IInv
<1>3. SoundMap(p.fsm, DOMAIN blocks) /\ p.addr \in {NoEntry} \union DOMAIN blocks
  BY <1>1, <1>2, PopLowerBoundSound
<1>4. \/ InsertFresh(p.fsm, v, s)
      \/ p.addr # NoEntry /\ InsertInto(p, r, v, s)
  BY DEF TableInsert
<1>5. r = NewItem(blocks[p.addr], v, s) OBVIOUS
<1> HIDE DEF p, r
<1>6. CASE InsertFresh(p.fsm, v, s)
  <2> DEFINE rid == RID(Len(blocks) + 1, 0)
  <2>1. /\ IInv' /\ rid \notin DOMAIN heap
        /\ rid \in [addr : 1 .. MaxBlocks, idx : Offset] /\ Expect(rid, v, s)
    BY <1>3, <1>6, InsertFreshEffect
  <2> HIDE DEF rid
  <2> QED BY <2>1
<1>7. CASE p.addr # NoEntry /\ InsertInto(p, r, v, s)
  <2> DEFINE rid == RID(p.addr, r.idx)
  <2>1. p.addr \in DOMAIN blocks BY <1>3, <1>7
  <2>2. /\ IInv' /\ rid \notin DOMAIN heap
        /\ rid \in [addr : 1 .. MaxBlocks, idx : Offset]
    BY <1>3, <1>5, <1>7, <2>1, InsertIntoEffect
  <2>3. Expect(rid, v, s) BY <1>7 DEF InsertInto
  <2> HIDE DEF rid
  <2> QED BY <2>2, <2>3
<1> QED BY <1>4, <1>6, <1>7

(* What a deletion changes: that item is gone, the others are where their   *)
(* RIDs say, although delete_item has moved them.                           *)
LEMMA DeleteEffect ==
  ASSUME IInv, NEW rid \in DOMAIN heap, TableDelete(rid)
  PROVE  IInv' /\ heap' = [r \in DOMAIN heap \ {rid} |-> heap[r]]
<1> DEFINE a == rid.addr
           i == rid.idx
           b == blocks[a]
           c == DeleteItem(b, i)
<1>1. /\ rid = RID(a, i) /\ a \in DOMAIN blocks /\ i \in InUse(b) /\ i \in 0 .. b.n - 1
  BY LiveRid
<1>2. SoundBlock(b) BY <1>1 DEF IInv
<1>3. /\ SoundBlock(c) /\ InUse(c) = InUse(b) \ {i}
      /\ \A j \in InUse(c) : GetItem(c, j) = GetItem(b, j)
  BY <1>1, <1>2, DeleteSound
<1>4. /\ blocks' = [blocks EXCEPT ![a] = c]
      /\ fsm' = Insert(Pop(fsm, Space(b), a), Space(b), a)
      /\ heap' = [r \in DOMAIN heap \ {rid} |-> heap[r]]
  BY DEF TableDelete
<1> HIDE DEF c
<1>5. Space(b) \in 0 .. MaxSize - 1 BY <1>2, SpaceHasBucket
<1>6. SoundMap(fsm', DOMAIN blocks)
  <2>1. SoundMap(fsm, DOMAIN blocks) BY DEF IInv
  <2> HIDE DEF b, a
  <2>2. SoundMap(Insert(Pop(fsm, Space(b), a), Space(b), a), DOMAIN blocks)
    BY <1>1, <1>5, <2>1, RelistSound
  <2> QED BY <1>4, <2>2
<1>7. blocks \in Seq(Range(blocks)) /\ Len(blocks) <= MaxBlocks BY FileTypes
<1> HIDE DEF a, i
<1>8. AsExchanged(blocks', blocks, a, c)
  <2>1. blocks' = [blocks EXCEPT ![a] = c] BY <1>4
  <2> QED BY <1>1, <1>7, <2>1, Exchanged
<1>9. /\ blocks' \in Seq(Range(blocks')) /\ Len(blocks') = Len(blocks)
      /\ DOMAIN blocks' = DOMAIN blocks /\ blocks'[a] = c
      /\ \A x \in DOMAIN blocks : x # a => blocks'[x] = blocks[x]
  BY <1>8 DEF AsExchanged
<1>10. \A x \in DOMAIN blocks' : SoundBlock(blocks'[x]) BY <1>3, <1>9 DEF IInv
<1>11. DOMAIN heap = LiveRids /\ heap = [r \in DOMAIN heap |-> heap[r]] BY DEF IInv, ReadBack
<1>12. DOMAIN heap' = DOMAIN heap \ {rid} /\ heap' = [r \in DOMAIN heap' |-> heap'[r]]
  BY <1>4
<1>13. ASSUME NEW r \in DOMAIN heap' PROVE r \in LiveRids' /\ Read(r)' = heap'[r]
  <2>1. r \in DOMAIN heap /\ r # rid /\ heap'[r] = heap[r] BY <1>4, <1>12
  <2>2. /\ r = RID(r.addr, r.idx)
        /\ r.addr \in DOMAIN blocks /\ r.idx \in InUse(blocks[r.addr])
    BY <2>1, LiveRid
  <2>3. Read(r) = heap[r] BY <2>1 DEF IInv, ReadBack
  <2>4. CASE r.addr # a
    <3>1. blocks'[r.addr] = blocks[r.addr] /\ r.addr \in DOMAIN blocks' BY <1>9, <2>2, <2>4
    <3>2. r \in LiveRids' BY <2>2, <3>1 DEF LiveRids
    <3> QED BY <2>1, <2>3, <3>1, <3>2 DEF Read
  <2>5. CASE r.addr = a
    <3>1. r.idx # i BY <1>1, <2>1, <2>2, <2>5
    <3>2. r.idx \in InUse(blocks'[a]) /\ a \in DOMAIN blocks'
      BY <1>1, <1>3, <1>9, <2>2, <2>5, <3>1
    <3>3. r \in LiveRids' BY <2>2, <2>5, <3>2 DEF LiveRids
    <3>4. GetItem(blocks'[a], r.idx) = GetItem(blocks[a], r.idx) BY <1>3, <1>9, <3>2
    <3> QED BY <2>1, <2>3, <2>5, <3>3, <3>4 DEF Read
  <2> QED BY <2>4, <2>5
<1>14. ASSUME NEW r \in LiveRids' PROVE r \in DOMAIN heap'
  <2>1. PICK x \in DOMAIN blocks' : r \in {RID(x, j) : j \in InUse(blocks'[x])}
    BY DEF LiveRids
  <2>2. PICK j \in InUse(blocks'[x]) : r = RID(x, j) BY <2>1
  <2>3. x \in DOMAIN blocks BY <1>9
  <2>4. j \in InUse(blocks[x]) /\ (x = a => j # i) BY <1>3, <1>9, <2>3
  <2>5. r \in LiveRids BY <2>2, <2>3, <2>4, LiveIs
  <2>6. r # rid
    <3>1. r.addr = x /\ r.idx = j BY <2>2 DEF RID
    <3> QED BY <2>4, <3>1 DEF a, i
  <2> QED BY <1>11, <1>12, <2>5, <2>6
<1>15. ReadBack' BY <1>13, <1>14 DEF ReadBack
<1>16. Len(blocks') <= MaxBlocks /\ SoundMap(fsm', DOMAIN blocks') BY <1>6, <1>7, <1>9
<1> QED BY <1>4, <1>9, <1>10, <1>12, <1>15, <1>16 DEF IInv

(* Every step preserves the invariant.                                      *)
LEMMA NextPreserves == IInv /\ [Next]_vars => IInv'
<1> SUFFICES ASSUME IInv, [Next]_vars PROVE IInv'
  OBVIOUS
<1>1. ASSUME NEW v \in Val, NEW s \in Sizes, TableInsert(v, s) PROVE IInv'
  BY <1>1, InsertEffect
<1>2. ASSUME NEW rid \in DOMAIN heap, TableDelete(rid) PROVE IInv'
  BY <1>2, DeleteEffect
<1>3. CASE UNCHANGED vars
  BY <1>3 DEF vars, IInv, ReadBack, LiveRids, Read
<1> QED BY <1>1, <1>2, <1>3 DEF Next

-----------------------------------------------------------------------------
(* The theorems.                                                           *)

(* Blocks and map stay sound and callers' expectations stay met, whatever   *)
(* calls of table_insert and table_delete are made.                         *)
THEOREM TableStaysSound == Spec => []IInv
  BY InitIInv, NextPreserves, PTL DEF Spec

(* The fields of the blocks and of the map pages stay what they are read as *)
(* (block.c, hash_map.c).                                                   *)
THEOREM TableTypeCorrect == Spec => []TypeOK
<1>1. IInv => TypeOK
  <2> SUFFICES ASSUME IInv PROVE TypeOK OBVIOUS
  <2>1. \A a \in DOMAIN blocks : IsBlock(blocks[a]) BY DEF IInv, SoundBlock
  <2>2. SoundMap(fsm, DOMAIN blocks) BY DEF IInv
  <2> QED BY <2>1, <2>2, SoundTypes DEF TypeOK
<1> QED BY <1>1, TableStaysSound, PTL

(* table_read returns what table_insert was given for a RID until           *)
(* table_delete is called on it, and the blocks hold nothing else.          *)
THEOREM TableReadsBack == Spec => []ReadBack
<1>1. IInv => ReadBack BY DEF IInv
<1> QED BY <1>1, TableStaysSound, PTL

(* No item of any block overlaps another or the ItemIDs (block.c).          *)
THEOREM BlocksStayTiled == Spec => []BlocksTiled
<1>1. IInv => BlocksTiled BY DEF IInv, SoundBlock, BlocksTiled
<1> QED BY <1>1, TableStaysSound, PTL

(* The chains of the map stay disjoint and packed from their first page on, *)
(* and no page is lost: what hash_table_pop and hash_table_insert count on. *)
THEOREM MapStaysWellFormed == Spec => []FsmWellFormed
<1>1. IInv => FsmWellFormed BY SoundIsWellFormed DEF IInv, FsmWellFormed
<1> QED BY <1>1, TableStaysSound, PTL

(* No bucket offers a block twice (hash_table_insert does not look).        *)
THEOREM MapNeverRepeats == Spec => []FsmNoRepeats
<1>1. IInv => FsmNoRepeats BY SoundHasNoRepeats DEF IInv, FsmNoRepeats
<1> QED BY <1>1, TableStaysSound, PTL

(* A table is a heap of items: table_insert returns a RID no live item has, *)
(* and each call is a step of the abstract heap.                            *)
THEOREM TableIsAHeap == Spec => RidsAreFresh
<1>1. Init => Promise!Init
  BY DEF Init, Promise!Init
<1>2. IInv /\ [Next]_vars => [Promise!Next]_heap
  <2> SUFFICES ASSUME IInv, [Next]_vars PROVE [Promise!Next]_heap
    OBVIOUS
  <2>1. ASSUME NEW v \in Val, NEW s \in Sizes, TableInsert(v, s) PROVE [Promise!Next]_heap
    <3>1. PICK rid \in [addr : 1 .. MaxBlocks, idx : Offset] :
             rid \notin DOMAIN heap /\ Expect(rid, v, s)
      BY <2>1, InsertEffect
    <3>2. Item(v, s) \in {Item(w, t) : w \in Val, t \in Sizes} OBVIOUS
    <3>3. Promise!Put(rid, Item(v, s)) BY <3>1 DEF Promise!Put, Expect
    <3> QED BY <3>2, <3>3 DEF Promise!Next
  <2>2. ASSUME NEW rid \in DOMAIN heap, TableDelete(rid) PROVE [Promise!Next]_heap
    <3>1. heap' = [r \in DOMAIN heap \ {rid} |-> heap[r]] BY <2>2, DeleteEffect
    <3>2. rid \in [addr : 1 .. MaxBlocks, idx : Offset] BY LiveRid
    <3>3. Promise!Remove(rid) BY <3>1 DEF Promise!Remove
    <3> QED BY <3>2, <3>3 DEF Promise!Next
  <2>3. CASE UNCHANGED vars BY <2>3 DEF vars
  <2> QED BY <2>1, <2>2, <2>3 DEF Next
<1> QED BY <1>1, <1>2, TableStaysSound, PTL DEF Spec, RidsAreFresh, Promise!Spec
=============================================================================
