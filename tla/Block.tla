-------------------------------- MODULE Block --------------------------------
(***************************************************************************)
(* One block and its user, who remembers what it put where.                *)
(***************************************************************************)
EXTENDS BlockOps

VARIABLES block,   \* the page
          heap     \* what the user expects at each index it was given

vars == <<block, heap>>

Init == /\ block = InitBlock([x \in Offset |-> Zero])
        /\ heap = [i \in {} |-> Zero]

New(v, s) ==
    LET r == NewItem(block, v, s)
    IN  /\ block' = r.block
        /\ heap' = IF r.idx = -1 THEN heap
                   ELSE [i \in DOMAIN heap \union {r.idx} |->
                            IF i = r.idx THEN Item(v, s) ELSE heap[i]]

Delete(idx) ==
    /\ block' = DeleteItem(block, idx)
    /\ heap' = [i \in DOMAIN heap \ {idx} |-> heap[i]]

Next == \/ \E v \in Val, s \in Sizes : New(v, s)
        \/ \E idx \in 0 .. block.n - 1 : Delete(idx)

Spec == Init /\ [][Next]_vars

-----------------------------------------------------------------------------
(* Properties.                                                             *)

\* The block is one, and heap a function on indexes.
TypeOK ==
    /\ IsBlock(block)
    /\ heap = [i \in DOMAIN heap |-> heap[i]]
    /\ DOMAIN heap \subseteq Offset

\* Items tile the page behind the tail (TiledBlock), whatever was inserted,
\* deleted and slid around.
Tiled == TiledBlock(block)

\* get_item returns, byte for byte, what was put in under that index, for all
\* live items and no others, however deletions of others have moved it.
ReadBack == /\ InUse(block) = DOMAIN heap
            /\ \A i \in DOMAIN heap : GetItem(block, i) = heap[i]

\* An index that is given out is not that of a live item.
Promise == INSTANCE Heap WITH Rid <- Offset, Record <- {Item(v, s) : v \in Val, s \in Sizes}
IndexesAreFresh == Promise!Spec

\* block.h:24 calls an ItemID with the availability bit set "available (for
\* future use)": while a block has one, a new item takes no further ItemID.
NewItemReuses ==
    [][(\E i \in 0 .. block.n - 1 : block.ids[i].avail = 1) => block'.n <= block.n]_vars

-----------------------------------------------------------------------------
(* The inductive invariant.                                                *)

IInv == TypeOK /\ SoundBlock(block) /\ ReadBack
=============================================================================
