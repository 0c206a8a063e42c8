-------------------------------- MODULE Table --------------------------------
(***************************************************************************)
(* table.c: data blocks (block.c) and the free space map (hash_map.c) that  *)
(* says which of them to try.  One action is one call; reads change nothing *)
(* and are the operator Read.  Both files are seen through their pools,     *)
(* which BufferPool shows to be transparent to such a caller, so that       *)
(* table_close and table_init on existing files are no steps here.          *)
(*                                                                          *)
(* Addresses of blocks are their positions in the file, counted from 1.     *)
(***************************************************************************)
EXTENDS BlockOps, HashMap

CONSTANT MaxBlocks    \* bound: blocks the data file may grow to

ASSUME TableAssumption ==
    /\ MaxBlocks \in Nat
    /\ MaxSize <= PAGE_SIZE   \* PAGE_SIZE / HASH_MAP_DIR_BLOCK_SIZE directory pages
    /\ PAGE_SIZE - Header < MaxSize   \* no block has more free bytes than there are buckets
    /\ \A s \in Sizes : Header + ItemIDSize + s <= PAGE_SIZE  \* str.c: at most 32 bytes

VARIABLES blocks,   \* the data file, a sequence of blocks
          fsm,      \* the free space map
          heap      \* what callers expect at each RID they were given

vars == <<blocks, fsm, heap>>

RID(addr, idx) == [addr |-> addr, idx |-> idx]

\* table_read.
Read(rid) == GetItem(blocks[rid.addr], rid.idx)

\* table_init on new files.
Init == /\ blocks = <<>>
        /\ fsm = InitMap
        /\ heap = [r \in {} |-> Zero]

Expect(rid, v, s) ==
    heap' = [r \in DOMAIN heap \union {rid} |-> IF r = rid THEN Item(v, s) ELSE heap[r]]

-----------------------------------------------------------------------------
(* table_insert.                                                           *)

\* Mutant of InsertInto: new_item's -1 is not looked at.
InsertUnchecked(p, r, v, s) ==
    /\ blocks' = [blocks EXCEPT ![p.addr] = r.block]
    /\ fsm' = Insert(Pop(p.fsm, Space(r.block), p.addr), Space(r.block), p.addr)
    /\ Expect(RID(p.addr, r.idx), v, s)

\* The block popped from the map takes the item: the map drops the block's
\* new space, where nobody has put it yet, and then adds it there.
InsertInto(p, r, v, s) ==
    /\ r.idx # -1
    /\ blocks' = [blocks EXCEPT ![p.addr] = r.block]
    /\ fsm' = Insert(Pop(p.fsm, Space(r.block), p.addr), Space(r.block), p.addr)
    /\ Expect(RID(p.addr, r.idx), v, s)

\* Mutant of InsertFresh: the RID names the last block, not the new one.
InsertFreshMisnamed(h, v, s) ==
    LET addr == IF blocks = <<>> THEN 1 ELSE Len(blocks)
        r == NewItem(InitBlock([x \in Offset |-> Zero]), v, s)
    IN  /\ Len(blocks) < MaxBlocks
        /\ blocks' = Append(blocks, r.block)
        /\ fsm' = Insert(h, Space(r.block), Len(blocks) + 1)
        /\ Expect(RID(addr, r.idx), v, s)

\* The item goes into a new block at the end of the file.
InsertFresh(h, v, s) ==
    LET addr == Len(blocks) + 1
        r == NewItem(InitBlock([x \in Offset |-> Zero]), v, s)
    IN  /\ Len(blocks) < MaxBlocks
        /\ blocks' = Append(blocks, r.block)
        /\ fsm' = Insert(h, Space(r.block), addr)
        /\ Expect(RID(addr, r.idx), v, s)

\* A block the map offers may still be too small; the map has lost it then.
TableInsert(v, s) ==
    LET p == PopLowerBound(fsm, s)
        r == NewItem(blocks[p.addr], v, s)
    IN  \/ p.addr = NoEntry /\ InsertFresh(p.fsm, v, s)
        \/ p.addr # NoEntry /\ r.idx = -1 /\ InsertFresh(p.fsm, v, s)
        \/ p.addr # NoEntry /\ InsertInto(p, r, v, s)

-----------------------------------------------------------------------------
\* Mutant of TableDelete: the block is put into the map without being taken
\* out first.
DeleteAddsAgain(rid) ==
    LET b == blocks[rid.addr]
    IN  /\ blocks' = [blocks EXCEPT ![rid.addr] = DeleteItem(b, rid.idx)]
        /\ fsm' = Insert(fsm, Space(b), rid.addr)
        /\ heap' = [r \in DOMAIN heap \ {rid} |-> heap[r]]

\* table_delete: the space is that of before the deletion.
TableDelete(rid) ==
    LET b == blocks[rid.addr]
        space == Space(b)
    IN  /\ blocks' = [blocks EXCEPT ![rid.addr] = DeleteItem(b, rid.idx)]
        /\ fsm' = Insert(Pop(fsm, space, rid.addr), space, rid.addr)
        /\ heap' = [r \in DOMAIN heap \ {rid} |-> heap[r]]

Next == \/ \E v \in Val, s \in Sizes : TableInsert(v, s)
        \/ \E rid \in DOMAIN heap : TableDelete(rid)

Spec == Init /\ [][Next]_vars

-----------------------------------------------------------------------------
(* Properties.                                                             *)

LiveRids == UNION {{RID(a, i) : i \in InUse(blocks[a])} : a \in DOMAIN blocks}

\* Types, of the blocks and of the map.
TypeOK ==
    /\ \A a \in DOMAIN blocks : IsBlock(blocks[a])
    /\ DOMAIN fsm.dir = 0 .. MaxSize - 1
    /\ \A m \in DOMAIN fsm.dir : fsm.dir[m] \in {NoEntry} \union DOMAIN fsm.maps
    /\ \A p \in DOMAIN fsm.maps : /\ fsm.maps[p].next \in {NoPage} \union DOMAIN fsm.maps
                                  /\ ToSet(fsm.maps[p].table) \subseteq DOMAIN blocks

\* table_read returns what was inserted under a RID until that is deleted,
\* and the blocks hold nothing else: every insert found room, in a block or
\* in the new page it asked for.
ReadBack ==
    /\ LiveRids = DOMAIN heap
    /\ \A rid \in DOMAIN heap : Read(rid) = heap[rid]

\* No item overlaps another or the ItemIDs of its block.
BlocksTiled == \A a \in DOMAIN blocks : TiledBlock(blocks[a])

\* The map's pages form disjoint packed chains and a free list: in
\* particular the first page of a chain never has one address and a
\* successor, which hash_table_pop would lose.
FsmWellFormed == WellFormed(fsm)

\* No bucket offers a block twice.
FsmNoRepeats == NoRepeats(fsm)

\* A new RID is never that of a live item, which keeps its RID.
Promise == INSTANCE Heap WITH
    Rid <- [addr : 1 .. MaxBlocks, idx : Offset],
    Record <- {Item(v, s) : v \in Val, s \in Sizes}
RidsAreFresh == Promise!Spec

\* hash_map.h:40 asks that "there should not be no duplicate addr" in the map.
FsmNoDuplicates ==
    \A m, j \in 0 .. MaxSize - 1 : m # j => Addresses(fsm, m) \intersect Addresses(fsm, j) = {}

\* hash_map.h:46 asks that an "addr to be poped must exist", and README.md:22
\* that the map keeps the free space of the data blocks: a call that works on
\* block b takes no other block out of the map.
Listed(h, a) == \E m \in 0 .. MaxSize - 1 : a \in Addresses(h, m)
OthersStayListed ==
    [][\A a, b \in DOMAIN blocks :
         a # b /\ blocks'[b] # blocks[b] /\ Listed(fsm, a) => Listed(fsm', a)]_vars

-----------------------------------------------------------------------------
(* The inductive invariant.                                                *)

\* Blocks are sound and hold what callers expect of them, and the map is one
\* over the blocks there are.
IInv ==
    /\ blocks \in Seq(Range(blocks))
    /\ Len(blocks) <= MaxBlocks
    /\ \A a \in DOMAIN blocks : SoundBlock(blocks[a])
    /\ heap = [r \in DOMAIN heap |-> heap[r]]
    /\ ReadBack
    /\ SoundMap(fsm, DOMAIN blocks)
=============================================================================
