------------------------------- MODULE MCBTree -------------------------------
(***************************************************************************)
(* BTree from indexes of one, two and three levels, built by the calls that *)
(* build them, of whose RIDs some are then busy, coming and going, and the  *)
(* others stay.                                                             *)
(***************************************************************************)
EXTENDS BTree

CONSTANT Start   \* [filled: what is inserted first, drained: and deleted
                 \*  again, busy: the RIDs that come and go after that]

VARIABLE busy

Upto(n) == [i \in 1 .. n |-> i]

MCStart ==
    { \* An empty index.
      [filled |-> <<>>, drained |-> <<>>, busy |-> 1 .. 8],
      \* Three levels, as sparse as can be, with a node on the free list.
      [filled  |-> <<1, 6, 2, 13, 9, 8, 5, 7, 10, 14, 12, 4, 11, 3>>,
       drained |-> <<2, 10, 6, 1, 11>>,
       busy    |-> {3, 5, 7, 8, 9, 12, 13, 14}],
      \* Two and three full levels, about to grow.
      [filled |-> Upto(16), drained |-> <<>>, busy |-> {2, 3, 7, 9, 17, 18}],
      [filled |-> Upto(31), drained |-> <<>>, busy |-> {4, 17, 25, 32, 33, 34}] }

MCInit ==
    \E s \in Start :
        LET full == FoldLeft(LAMBDA t, r : Insert(t, RidOrder, r), InitTree, s.filled)
        IN  /\ tree = FoldLeft(LAMBDA t, r : Delete(t, RidOrder, r), full, s.drained)
            /\ set  = Range(s.filled) \ Range(s.drained)
            /\ busy = s.busy

MCNext == /\ \/ \E rid \in busy : BTreeInsert(rid)
             \/ \E rid \in busy \intersect set : BTreeDelete(rid)
          /\ UNCHANGED busy

MCSpec == MCInit /\ [][MCNext]_<<vars, busy>>
=============================================================================
