------------------------------- MODULE HashMap -------------------------------
(***************************************************************************)
(* hash_map.c: the free space map.  One bucket per number of free bytes; a  *)
(* bucket is a chain of map pages, each with a few addresses of data blocks.*)
(*                                                                          *)
(* The map is a record: dir[size] is the first page of a bucket (the        *)
(* control block's and the directory pages' part of the file), maps the map *)
(* pages in the order of their addresses, free the first page of the free   *)
(* list.  A page's n_items is Len(table): the entries from n_items on are   *)
(* -1 throughout hash_map.c.                                                *)
(***************************************************************************)
EXTENDS Integers, SequencesExt

CONSTANTS HASH_MAP_BLOCK_SIZE,  \* addresses in a map page (14 with 128-byte pages)
          MaxSize               \* max_size: buckets (128)

\* With one address to a page, hash_table_pop would take a full first page for
\* the last of its bucket and lose the others.
ASSUME HashMapAssumption ==
    /\ HASH_MAP_BLOCK_SIZE \in Nat \ {0, 1}
    /\ MaxSize \in Nat

NoPage  == 0      \* the end of a chain and of the free list
NoEntry == -1     \* an empty bucket; no address

\* hash_table_init on a new file: no bucket has a page and one page is free.
InitMap ==
    [dir  |-> [m \in 0 .. MaxSize - 1 |-> NoEntry],
     maps |-> <<[next |-> NoPage, table |-> <<>>]>>,
     free |-> 1]

-----------------------------------------------------------------------------
(* Chains.                                                                 *)

\* The pages from p on, in order.
Chain(h, p) ==
    LET from[q \in 0 .. Len(h.maps)] ==
            IF q = NoPage THEN <<>> ELSE <<q>> \o from[h.maps[q].next]
    IN  from[p]

Bucket(h, size) == IF h.dir[size] = NoEntry THEN <<>> ELSE Chain(h, h.dir[size])

Full(h, p)         == Len(h.maps[p].table) = HASH_MAP_BLOCK_SIZE
Lists(h, p, a)     == a \in ToSet(h.maps[p].table)
Addresses(h, size) == UNION {ToSet(h.maps[p].table) : p \in ToSet(Bucket(h, size))}

-----------------------------------------------------------------------------
(* hash_table_insert.                                                      *)

\* Mutant of NewPage: n_all_blocks is counted up too early.
NewPageTooFar(h) == IF h.free = NoPage THEN Len(h.maps) + 2 ELSE h.free

\* A page that holds just addr: the first free one, or a new one behind the
\* others.
NewPage(h) == IF h.free = NoPage THEN Len(h.maps) + 1 ELSE h.free

WithPage(h, addr) ==
    LET new == [next |-> NoPage, table |-> <<addr>>]
    IN  IF h.free = NoPage THEN [h EXCEPT !.maps = Append(@, new)]
        ELSE [h EXCEPT !.maps[h.free] = new, !.free = h.maps[h.free].next]

\* The walk passes full pages that have a successor.
WalkEnd(h, s) ==
    CHOOSE k \in DOMAIN s :
        /\ k = Len(s) \/ ~Full(h, s[k])
        /\ \A j \in 1 .. k - 1 : Full(h, s[j])

Insert(h, size, addr) ==
    LET s == Bucket(h, size)
        k == WalkEnd(h, s)
    IN  CASE size >= MaxSize -> h
          [] size < MaxSize /\ h.dir[size] = NoEntry ->
                 [WithPage(h, addr) EXCEPT !.dir[size] = NewPage(h)]
          [] OTHER ->
                 IF \E j \in 1 .. k - 1 : Lists(h, s[j], addr) THEN h
                 ELSE IF ~Full(h, s[k])
                 THEN [h EXCEPT !.maps[s[k]].table = Append(@, addr)]
                 ELSE [WithPage(h, addr) EXCEPT !.maps[s[k]].next = NewPage(h)]

-----------------------------------------------------------------------------
(* hash_table_pop.                                                         *)

\* The last address of a page takes the place of the i-th.
Dropped(table, i) == Front([table EXCEPT ![i] = Last(table)])

\* Mutant of FreeHead: the directory still names the freed page.
FreeHeadStillListed(h, size) ==
    LET p == h.dir[size]
    IN  [h EXCEPT !.maps[p] = [next |-> h.free, table |-> <<>>], !.free = p]

\* A first page with one address is freed with whatever address it has.
FreeHead(h, size) ==
    LET p == h.dir[size]
    IN  [h EXCEPT !.maps[p] = [next |-> h.free, table |-> <<>>],
                  !.dir[size] = NoEntry,
                  !.free = p]

\* addr leaves the k-th page of the bucket; a later page that is empty then
\* is taken out of the chain.
DropFrom(h, s, k, addr) ==
    LET p == s[k]
        t == h.maps[p].table
        i == CHOOSE i \in DOMAIN t : t[i] = addr /\ \A j \in 1 .. i - 1 : t[j] # addr
    IN  IF Len(t) > 1 THEN [h EXCEPT !.maps[p].table = Dropped(t, i)]
        ELSE [h EXCEPT !.maps[p] = [next |-> h.free, table |-> <<>>],
                       !.maps[s[k - 1]].next = h.maps[p].next,
                       !.free = p]

Pop(h, size, addr) ==
    LET s == Bucket(h, size)
        holders == {k \in DOMAIN s : Lists(h, s[k], addr)}
    IN  IF s = <<>> THEN h
        ELSE IF Len(h.maps[s[1]].table) = 1 THEN FreeHead(h, size)
        ELSE IF holders = {} THEN h
        ELSE DropFrom(h, s, CHOOSE k \in holders : \A j \in holders : k <= j, addr)

-----------------------------------------------------------------------------
(* hash_table_pop_lower_bound: the last address of the first bucket from    *)
(* size on that has one, and the map without it.                            *)

PopLowerBound(h, size) ==
    LET used == {m \in size .. MaxSize - 1 : h.dir[m] # NoEntry}
        m    == CHOOSE m \in used : \A j \in used : m <= j
        addr == Last(h.maps[Last(Bucket(h, m))].table)
    IN  IF used = {} THEN [fsm |-> h, addr |-> NoEntry]
        ELSE [fsm |-> Pop(h, m, addr), addr |-> addr]

-----------------------------------------------------------------------------
(* What holds of the map between two calls of table.c.                      *)

FreeList(h) == Chain(h, h.free)

\* Chains and free list share no page and miss none; a chain has no empty
\* page and only its last may have room; a free page is empty.
WellFormed(h) ==
    LET used == {m \in 0 .. MaxSize - 1 : h.dir[m] # NoEntry}
        pages(m) == ToSet(Bucket(h, m))
    IN  /\ ToSet(FreeList(h)) \union UNION {pages(m) : m \in used} = DOMAIN h.maps
        /\ \A m \in used : pages(m) \intersect ToSet(FreeList(h)) = {}
        /\ \A m, j \in used : m # j => pages(m) \intersect pages(j) = {}
        /\ \A p \in ToSet(FreeList(h)) : h.maps[p].table = <<>>
        /\ \A m \in used : \A p \in pages(m) :
              /\ h.maps[p].table # <<>>
              /\ h.maps[p].next # NoPage => Full(h, p)

\* No bucket lists an address twice.
NoRepeats(h) ==
    \A m \in 0 .. MaxSize - 1 :
        /\ \A p \in ToSet(Bucket(h, m)) : IsInjective(h.maps[p].table)
        /\ \A p, q \in ToSet(Bucket(h, m)) :
              p # q => ToSet(h.maps[p].table) \intersect ToSet(h.maps[q].table) = {}

-----------------------------------------------------------------------------
(* The inductive form of the above: the map as lists of pages.              *)

\* The buckets, and behind them the free list.
Chains(h)   == [m \in 0 .. MaxSize |-> IF m = MaxSize THEN FreeList(h) ELSE Bucket(h, m)]
First(h, m) == IF m = MaxSize THEN h.free
               ELSE IF h.dir[m] = NoEntry THEN NoPage ELSE h.dir[m]

\* The parts of a map that lists the addresses A.
IsMap(h, A) ==
    /\ h = [dir |-> h.dir, maps |-> h.maps, free |-> h.free]
    /\ h.dir \in [0 .. MaxSize - 1 -> {NoEntry} \union DOMAIN h.maps]
    /\ h.maps \in Seq([next : Nat, table : Seq(A)])
    /\ h.free \in Nat

\* L[m] are the pages of list m in the order they are linked, and every page
\* is in one place of one list.
Layout(h, L) ==
    /\ \A m \in 0 .. MaxSize :
          /\ L[m] \in Seq(DOMAIN h.maps)
          /\ First(h, m) = IF L[m] = <<>> THEN NoPage ELSE L[m][1]
          /\ \A i \in DOMAIN L[m] :
                h.maps[L[m][i]].next = IF i = Len(L[m]) THEN NoPage ELSE L[m][i + 1]
    /\ \A p \in DOMAIN h.maps : \E m \in 0 .. MaxSize : \E i \in DOMAIN L[m] : L[m][i] = p
    /\ \A m, j \in 0 .. MaxSize : \A i \in DOMAIN L[m], k \in DOMAIN L[j] :
          L[m][i] = L[j][k] => m = j /\ i = k

\* Free pages are empty; of a bucket's pages all but the last are full.
Packed(h, L) ==
    /\ \A i \in DOMAIN L[MaxSize] : h.maps[L[MaxSize][i]].table = <<>>
    /\ \A m \in 0 .. MaxSize - 1 : \A i \in DOMAIN L[m] :
          LET t == h.maps[L[m][i]].table
          IN  /\ t # <<>> /\ Len(t) <= HASH_MAP_BLOCK_SIZE
              /\ i # Len(L[m]) => Len(t) = HASH_MAP_BLOCK_SIZE

\* An address is in one place of a bucket.
Distinct(h, L) ==
    \A m \in 0 .. MaxSize - 1 : \A i, k \in DOMAIN L[m] :
        LET t == h.maps[L[m][i]].table
            u == h.maps[L[m][k]].table
        IN  \A x \in DOMAIN t, y \in DOMAIN u : t[x] = u[y] => i = k /\ x = y

SoundMap(h, A) ==
    IsMap(h, A) /\ LET L == Chains(h) IN Layout(h, L) /\ Packed(h, L) /\ Distinct(h, L)
=============================================================================
