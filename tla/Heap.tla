-------------------------------- MODULE Heap --------------------------------
(***************************************************************************)
(* What a place to keep items promises, a block or a whole table: an item   *)
(* put in gets an identifier no live item has, and is what that identifier  *)
(* names until the item is removed.                                         *)
(***************************************************************************)
CONSTANTS Rid,     \* identifiers
          Record   \* items

VARIABLE heap      \* heap[r]: the live item with identifier r

Init == DOMAIN heap = {}

Put(r, x) ==
    /\ r \notin DOMAIN heap
    /\ heap' = [q \in DOMAIN heap \union {r} |-> IF q = r THEN x ELSE heap[q]]

Remove(r) ==
    /\ r \in DOMAIN heap
    /\ heap' = [q \in DOMAIN heap \ {r} |-> heap[q]]

Next == \/ \E r \in Rid, x \in Record : Put(r, x)
        \/ \E r \in Rid : Remove(r)

Spec == Init /\ [][Next]_heap
=============================================================================
