----------------------------- MODULE BlockProofs -----------------------------
(***************************************************************************)
(* Theorems about Block for every page size, every content and every set of *)
(* item sizes.                                                              *)
(***************************************************************************)
EXTENDS Block, BlockOpsProofs, TLAPS

-----------------------------------------------------------------------------
(* The invariant and the theorems.                                         *)

(* A fresh block whose user expects nothing.                                *)
LEMMA InitIInv == Init => IInv
<1> SUFFICES ASSUME Init PROVE IInv
  OBVIOUS
<1> DEFINE m == [x \in Offset |-> Zero]
<1>1. m \in [Offset -> Byte] BY DEF Byte
<1>2. SoundBlock(block) /\ InUse(block) = {} BY <1>1, InitSound DEF Init
<1>3. heap = [i \in {} |-> Zero] /\ DOMAIN heap = {} BY DEF Init
<1> QED BY <1>2, <1>3 DEF IInv, TypeOK, ReadBack, SoundBlock

(* What a new item changes, in the block and in what the user expects.      *)
LEMMA NewEffect ==
  ASSUME IInv, NEW v \in Val, NEW s \in Sizes, New(v, s)
  PROVE  /\ IInv'
         /\ \/ UNCHANGED heap
            \/ /\ block.n \notin DOMAIN heap /\ block.n \in Offset
               /\ heap' = [q \in DOMAIN heap \union {block.n} |->
                              IF q = block.n THEN Item(v, s) ELSE heap[q]]
<1>0. SoundBlock(block) /\ ReadBack /\ TypeOK BY DEF IInv
<1>1. CASE NewItem(block, v, s) = [block |-> block, idx |-> -1]
  <2>1. block' = block /\ heap' = heap BY <1>1 DEF New
  <2> QED BY <2>1, <1>0 DEF IInv, TypeOK, ReadBack
<1>2. CASE /\ s + ItemIDSize <= Space(block)
           /\ NewItem(block, v, s) = [block |-> Appended(block, v, s), idx |-> block.n]
  <2> DEFINE n == block.n
  <2>1. n \in Offset /\ n # -1 BY <1>0, Numbers DEF Offset
  <2>2. /\ block' = Appended(block, v, s)
        /\ heap' = [i \in DOMAIN heap \union {n} |-> IF i = n THEN Item(v, s) ELSE heap[i]]
    BY <1>2, <2>1 DEF New
  <2>3. /\ SoundBlock(block') /\ InUse(block') = InUse(block) \union {n}
        /\ n \notin InUse(block) /\ GetItem(block', n) = Item(v, s)
        /\ \A i \in InUse(block) : GetItem(block', i) = GetItem(block, i)
    BY <1>0, <1>2, <2>2, AppendSound
  <2> HIDE DEF n
  <2>4. n \notin DOMAIN heap BY <1>0, <2>3 DEF ReadBack
  <2>5. ReadBack' BY <1>0, <2>2, <2>3 DEF ReadBack
  <2>6. TypeOK' BY <1>0, <2>1, <2>2, <2>3 DEF TypeOK, SoundBlock
  <2> QED BY <2>1, <2>2, <2>3, <2>4, <2>5, <2>6 DEF IInv, n
<1> QED BY <1>0, <1>1, <1>2, NewItemCases

(* What a deletion changes.                                                 *)
LEMMA DeleteEffect ==
  ASSUME IInv, NEW idx \in 0 .. block.n - 1, Delete(idx)
  PROVE  IInv' /\ heap' = [i \in DOMAIN heap \ {idx} |-> heap[i]]
<1>0. SoundBlock(block) /\ ReadBack /\ TypeOK BY DEF IInv
<1>1. /\ block' = DeleteItem(block, idx)
      /\ heap' = [i \in DOMAIN heap \ {idx} |-> heap[i]]
  BY DEF Delete
<1>2. /\ SoundBlock(block') /\ InUse(block') = InUse(block) \ {idx}
      /\ \A i \in InUse(block') : GetItem(block', i) = GetItem(block, i)
  BY <1>0, <1>1, DeleteSound
<1>3. ReadBack' BY <1>0, <1>1, <1>2 DEF ReadBack
<1>4. TypeOK' BY <1>0, <1>1, <1>2 DEF TypeOK, SoundBlock
<1> QED BY <1>1, <1>2, <1>3, <1>4 DEF IInv

(* Every step preserves the invariant.                                      *)
LEMMA NextPreserves == IInv /\ [Next]_vars => IInv'
<1> SUFFICES ASSUME IInv, [Next]_vars PROVE IInv'
  OBVIOUS
<1>1. ASSUME NEW v \in Val, NEW s \in Sizes, New(v, s) PROVE IInv'
  BY <1>1, NewEffect
<1>2. ASSUME NEW idx \in 0 .. block.n - 1, Delete(idx) PROVE IInv'
  BY <1>2, DeleteEffect
<1>3. CASE UNCHANGED vars
  BY <1>3 DEF vars, IInv, TypeOK, ReadBack
<1> QED BY <1>1, <1>2, <1>3 DEF Next

(* A block stays sound and its user's expectations stay met.                *)
THEOREM BlockStaysSound == Spec => []IInv
  BY InitIInv, NextPreserves, PTL DEF Spec

(* The fields of a block stay within a page (new_item, delete_item).        *)
THEOREM BlockTypeCorrect == Spec => []TypeOK
<1>1. IInv => TypeOK BY DEF IInv
<1> QED BY <1>1, BlockStaysSound, PTL

(* Items never overlap, leave no hole and never reach the ItemIDs, whatever *)
(* sequence of new_item and delete_item led there.                          *)
THEOREM ItemsTileTheBlock == Spec => []Tiled
<1>1. IInv => Tiled BY DEF IInv, SoundBlock, Tiled
<1> QED BY <1>1, BlockStaysSound, PTL

(* get_item returns what was put in under an index until it is deleted,     *)
(* although delete_item moves it.                                           *)
THEOREM ItemsReadBack == Spec => []ReadBack
<1>1. IInv => ReadBack BY DEF IInv
<1> QED BY <1>1, BlockStaysSound, PTL

(* A block is a heap of items: new_item returns an index no live item has.  *)
THEOREM BlockIsAHeap == Spec => IndexesAreFresh
<1>1. Init => Promise!Init
  BY DEF Init, Promise!Init
<1>2. IInv /\ [Next]_vars => [Promise!Next]_heap
  <2> SUFFICES ASSUME IInv, [Next]_vars PROVE [Promise!Next]_heap
    OBVIOUS
  <2>1. ASSUME NEW v \in Val, NEW s \in Sizes, New(v, s) PROVE [Promise!Next]_heap
    BY <2>1, NewEffect DEF Promise!Next, Promise!Put
  <2>2. ASSUME NEW idx \in 0 .. block.n - 1, Delete(idx) PROVE [Promise!Next]_heap
    <3>1. heap' = [i \in DOMAIN heap \ {idx} |-> heap[i]] BY <2>2, DeleteEffect
    <3>2. CASE idx \in DOMAIN heap
      <4>1. idx \in Offset BY <3>2 DEF IInv, TypeOK
      <4> QED BY <3>1, <3>2, <4>1 DEF Promise!Next, Promise!Remove
    <3>3. CASE idx \notin DOMAIN heap
      <4>1. DOMAIN heap \ {idx} = DOMAIN heap BY <3>3
      <4>2. heap = [i \in DOMAIN heap |-> heap[i]] BY DEF IInv, TypeOK
      <4> QED BY <3>1, <4>1, <4>2
    <3> QED BY <3>2, <3>3
  <2>3. CASE UNCHANGED vars BY <2>3 DEF vars
  <2> QED BY <2>1, <2>2, <2>3 DEF Next
<1> QED BY <1>1, <1>2, BlockStaysSound, PTL DEF Spec, IndexesAreFresh, Promise!Spec
=============================================================================
