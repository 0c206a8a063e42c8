------------------------------- MODULE BlockOps -------------------------------
(***************************************************************************)
(* block.c: a slotted page.  ItemIDs grow up from the header, items grow    *)
(* down from the end, and a deletion slides the items below it up.          *)
(*                                                                          *)
(* A block is a record.  head_ptr is left out: wherever block.c moves it,   *)
(* it moves with n_items (HeadPtr).  A byte is the pair of the item it belongs *)
(* to and its position there, or Zero; the bytes of the ItemID section are  *)
(* the records ids[i], and Tiled shows that no item reaches into it.        *)
(***************************************************************************)
EXTENDS Integers

CONSTANTS PAGE_SIZE,  \* bytes of a page (128 in file_io.h)
          Val,        \* contents of items
          Sizes       \* sizes of items

Header     == 6       \* n_items, head_ptr, tail_ptr
ItemIDSize == 4

ASSUME BlockAssumption ==
    /\ PAGE_SIZE \in Nat
    /\ PAGE_SIZE >= Header
    /\ Sizes \subseteq Nat \ {0}    \* table.c's callers store no empty item

Offset == 0 .. PAGE_SIZE - 1
Zero   == <<>>
Byte   == (Val \X Nat) \union {Zero}

\* ItemID: compose_item_id with its three fields.
ItemID(avail, off, size) == [avail |-> avail, off |-> off, size |-> size]

\* The bytes of an item.
Item(v, s) == [j \in 0 .. s - 1 |-> <<v, j>>]

-----------------------------------------------------------------------------
(* The functions of block.c.                                               *)

\* init_block: the bytes of the page stay what they were.
InitBlock(mem) == [n |-> 0, tail |-> PAGE_SIZE, ids |-> [i \in 0 .. -1 |-> ItemID(0, 0, 0)], mem |-> mem]

HeadPtr(b)  == Header + ItemIDSize * b.n
Space(b) == b.tail - HeadPtr(b)

\* The items get_item returns, and the bytes of one.
InUse(b) == {i \in 0 .. b.n - 1 : b.ids[i].avail = 0}
GetItem(b, i) == [j \in 0 .. b.ids[i].size - 1 |-> b.mem[b.ids[i].off + j]]

\* Bytes off .. off + s - 1 become those of item v.
Written(mem, off, v, s) ==
    [x \in Offset |-> IF x \in off .. off + s - 1 THEN <<v, x - off>> ELSE mem[x]]

Reusable(b, s) == {i \in 0 .. b.n - 1 : b.ids[i].avail = 1 /\ b.ids[i].size >= s}

\* An available ItemID that is large enough: the item is written at its old
\* offset and then said to be at the tail.
Reused(b, i, v, s) ==
    [n    |-> b.n,
     tail |-> b.tail - s,
     ids  |-> [b.ids EXCEPT ![i] = ItemID(0, b.tail - s, s)],
     mem  |-> Written(b.mem, b.ids[i].off, v, s)]

Appended(b, v, s) ==
    [n    |-> b.n + 1,
     tail |-> b.tail - s,
     ids  |-> [i \in 0 .. b.n |-> IF i = b.n THEN ItemID(0, b.tail - s, s) ELSE b.ids[i]],
     mem  |-> Written(b.mem, b.tail - s, v, s)]

\* Mutant of NewItem: the room for a new ItemID is not counted.
NewItemTooTight(b, v, s) ==
    IF s > Space(b) THEN [block |-> b, idx |-> -1]
    ELSE [block |-> Appended(b, v, s), idx |-> b.n]

\* new_item: the block it leaves and the index it returns, -1 for no space.
NewItem(b, v, s) ==
    IF s <= Space(b) /\ Reusable(b, s) # {}
    THEN LET i == CHOOSE i \in Reusable(b, s) : \A k \in Reusable(b, s) : i <= k
         IN  [block |-> Reused(b, i, v, s), idx |-> i]
    ELSE IF s + ItemIDSize <= Space(b)
    THEN [block |-> Appended(b, v, s), idx |-> b.n]
    ELSE [block |-> b, idx |-> -1]

\* The last ItemID is dropped, whichever it is.
DropLastId(b) ==
    [n |-> b.n - 1, tail |-> b.tail, ids |-> [i \in 0 .. b.n - 2 |-> b.ids[i]], mem |-> b.mem]

\* Mutants of Compacted: every item's offset moves; the bytes do not.
CompactedAllOffsets(b, idx) ==
    LET size == b.ids[idx].size
    IN  [n    |-> b.n,
         tail |-> b.tail + size,
         ids  |-> [i \in 0 .. b.n - 1 |->
                      IF b.ids[i].avail = 0 THEN ItemID(0, b.ids[i].off + size, b.ids[i].size)
                                            ELSE b.ids[i]],
         mem  |-> b.mem]

CompactedNoMove(b, idx) ==
    LET off  == b.ids[idx].off
        size == b.ids[idx].size
    IN  [n    |-> b.n,
         tail |-> b.tail + size,
         ids  |-> [i \in 0 .. b.n - 1 |->
                      IF b.ids[i].avail = 0 /\ b.ids[i].off < off
                      THEN ItemID(0, b.ids[i].off + size, b.ids[i].size) ELSE b.ids[i]],
         mem  |-> b.mem]

\* Item idx goes and the items below it move up over it.
Compacted(b, idx) ==
    LET off  == b.ids[idx].off
        size == b.ids[idx].size
        Moves(i) == b.ids[i].avail = 0 /\ b.ids[i].off < off
    IN  [n    |-> b.n,
         tail |-> b.tail + size,
         ids  |-> [i \in 0 .. b.n - 1 |->
                      IF Moves(i) THEN ItemID(0, b.ids[i].off + size, b.ids[i].size)
                                  ELSE b.ids[i]],
         mem  |-> [x \in Offset |->
                      IF x \in b.tail + size .. off + size - 1 THEN b.mem[x - size]
                      ELSE IF x \in b.tail .. b.tail + size - 1 THEN Zero
                      ELSE b.mem[x]]]

\* Mutants of DeleteItem: an ItemID is dropped for every deletion; an
\* available ItemID keeps its size.
DeleteDropsAnId(b, idx) ==
    IF b.ids[idx].avail = 1 THEN b ELSE DropLastId(Compacted(b, idx))

DeleteKeepsSize(b, idx) ==
    IF b.ids[idx].avail = 1 THEN b
    ELSE IF idx = b.n - 1 THEN DropLastId(Compacted(b, idx))
    ELSE [Compacted(b, idx) EXCEPT !.ids[idx] = ItemID(1, 0, b.ids[idx].size)]

\* delete_item.
DeleteItem(b, idx) ==
    IF b.ids[idx].avail = 1 THEN b
    ELSE IF b.ids[idx].size = 0 THEN DropLastId(b)
    ELSE IF idx = b.n - 1 THEN DropLastId(Compacted(b, idx))
    ELSE [Compacted(b, idx) EXCEPT !.ids[idx] = ItemID(1, 0, 0)]

-----------------------------------------------------------------------------
(* What holds of a block at every point of its life.                       *)

\* The fields of a block stay within a page.
IsBlock(b) ==
    /\ b.n \in Nat
    /\ b.tail \in 0 .. PAGE_SIZE
    /\ b.ids \in [0 .. b.n - 1 -> [avail : {0, 1}, off : 0 .. PAGE_SIZE, size : 0 .. PAGE_SIZE]]
    /\ b.mem \in [Offset -> Byte]

Begin(b, i) == b.ids[i].off
End(b, i)   == b.ids[i].off + b.ids[i].size

\* Whatever was inserted, deleted and slid around, every byte behind the tail
\* belongs to exactly one live item, items lie behind the tail, and the tail
\* is behind the ItemIDs: nothing overlaps and no hole is left.
TiledBlock(b) ==
    /\ HeadPtr(b) <= b.tail
    /\ \A i \in InUse(b) : /\ b.tail <= Begin(b, i)
                          /\ Begin(b, i) < End(b, i)
                          /\ End(b, i) <= PAGE_SIZE
    /\ \A i, k \in InUse(b) : i # k => End(b, i) <= Begin(b, k) \/ End(b, k) <= Begin(b, i)
    /\ \A x \in b.tail .. PAGE_SIZE - 1 :
          \E i \in InUse(b) : Begin(b, i) <= x /\ x < End(b, i)

\* An ItemID made available has no size left, so that none is ever large
\* enough for a new item.
SpentIds(b) == \A i \in 0 .. b.n - 1 : b.ids[i].avail = 1 => b.ids[i].size = 0

SoundBlock(b) == IsBlock(b) /\ TiledBlock(b) /\ SpentIds(b)
=============================================================================
