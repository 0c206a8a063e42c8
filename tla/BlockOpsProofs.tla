---------------------------- MODULE BlockOpsProofs ----------------------------
(***************************************************************************)
(* What the functions of block.c do to any sound block, for every page      *)
(* size, every content and every set of item sizes.                         *)
(***************************************************************************)
EXTENDS BlockOps, TLAPS

(* An empty block is sound.                                                 *)
LEMMA InitSound ==
  ASSUME NEW mem \in [Offset -> Byte]
  PROVE  SoundBlock(InitBlock(mem)) /\ InUse(InitBlock(mem)) = {}
<1> DEFINE b == InitBlock(mem)
<1>1. b.n = 0 /\ b.tail = PAGE_SIZE /\ b.ids = [i \in 0 .. -1 |-> ItemID(0, 0, 0)] /\ b.mem = mem
  BY DEF InitBlock
<1>2. 0 .. b.n - 1 = {} /\ PAGE_SIZE \in Nat /\ b.tail .. PAGE_SIZE - 1 = {}
  BY <1>1, BlockAssumption
<1> HIDE DEF b
<1>3. InUse(b) = {} BY <1>2 DEF InUse
<1>4. IsBlock(b) BY <1>1, <1>2 DEF IsBlock
<1>5. HeadPtr(b) <= b.tail BY <1>1, BlockAssumption DEF HeadPtr, Header, ItemIDSize
<1>6. TiledBlock(b) BY <1>2, <1>3, <1>5 DEF TiledBlock
<1>7. SpentIds(b) BY <1>2 DEF SpentIds
<1> QED BY <1>3, <1>4, <1>6, <1>7 DEF SoundBlock, b

(* new_item never finds an ItemID to use again: those that are available    *)
(* have size 0 and items do not.                                            *)
LEMMA NewItemCases ==
  ASSUME NEW b, SoundBlock(b), NEW v \in Val, NEW s \in Sizes
  PROVE  \/ /\ NewItem(b, v, s) = [block |-> b, idx |-> -1]
         \/ /\ s + ItemIDSize <= Space(b)
            /\ NewItem(b, v, s) = [block |-> Appended(b, v, s), idx |-> b.n]
<1>1. Reusable(b, s) = {}
  <2> SUFFICES ASSUME NEW i \in 0 .. b.n - 1, b.ids[i].avail = 1, b.ids[i].size >= s
               PROVE  FALSE
    BY DEF Reusable
  <2>1. b.ids[i].size = 0 BY DEF SoundBlock, SpentIds
  <2> QED BY <2>1, BlockAssumption
<1> QED BY <1>1 DEF NewItem

(* What the numbers of a sound block and of an item that fits amount to.    *)
LEMMA Numbers ==
  ASSUME NEW b, SoundBlock(b)
  PROVE  /\ b.n \in Nat /\ b.tail \in Nat /\ b.tail <= PAGE_SIZE /\ PAGE_SIZE \in Nat
         /\ Header + ItemIDSize * b.n <= b.tail /\ b.n < PAGE_SIZE
         /\ \A i \in 0 .. b.n - 1 : /\ b.ids[i].avail \in {0, 1}
                                    /\ b.ids[i].off \in Nat /\ b.ids[i].size \in Nat
<1>1. b.n \in Nat /\ b.tail \in 0 .. PAGE_SIZE /\ PAGE_SIZE \in Nat
  BY BlockAssumption DEF SoundBlock, IsBlock
<1>2. Header + ItemIDSize * b.n <= b.tail
  BY DEF SoundBlock, TiledBlock, HeadPtr
<1>3. b.n < PAGE_SIZE BY <1>1, <1>2 DEF Header, ItemIDSize
<1>4. \A i \in 0 .. b.n - 1 : /\ b.ids[i].avail \in {0, 1}
                            /\ b.ids[i].off \in Nat /\ b.ids[i].size \in Nat
  <2> SUFFICES ASSUME NEW i \in 0 .. b.n - 1
               PROVE  b.ids[i].avail \in {0, 1} /\ b.ids[i].off \in Nat /\ b.ids[i].size \in Nat
    OBVIOUS
  <2>1. b.ids[i] \in [avail : {0, 1}, off : 0 .. PAGE_SIZE, size : 0 .. PAGE_SIZE]
    BY DEF SoundBlock, IsBlock
  <2> QED BY <2>1
<1> QED BY <1>1, <1>2, <1>3, <1>4

(* Appending an item in front of the tail keeps a block sound, adds that    *)
(* item and leaves the others readable.                                     *)
LEMMA AppendSound ==
  ASSUME NEW b, SoundBlock(b), NEW v \in Val, NEW s \in Sizes, s + ItemIDSize <= Space(b)
  PROVE  LET c == Appended(b, v, s)
         IN  /\ SoundBlock(c)
             /\ InUse(c) = InUse(b) \union {b.n}
             /\ b.n \notin InUse(b)
             /\ GetItem(c, b.n) = Item(v, s)
             /\ \A i \in InUse(b) : GetItem(c, i) = GetItem(b, i)
<1> DEFINE c == Appended(b, v, s)
<1>1. /\ s \in Nat \ {0} /\ s <= b.tail /\ b.tail - s \in Nat
      /\ Header + ItemIDSize * (b.n + 1) <= b.tail - s
  BY Numbers, BlockAssumption DEF Space, HeadPtr, Header, ItemIDSize
<1>2. /\ c.n = b.n + 1 /\ c.tail = b.tail - s
      /\ c.ids = [i \in 0 .. b.n |-> IF i = b.n THEN ItemID(0, b.tail - s, s) ELSE b.ids[i]]
      /\ c.mem = Written(b.mem, b.tail - s, v, s)
  BY DEF Appended
<1>3. /\ \A i \in 0 .. b.n - 1 : c.ids[i] = b.ids[i]
      /\ c.ids[b.n] = [avail |-> 0, off |-> b.tail - s, size |-> s]
  BY <1>2, Numbers DEF ItemID
<1> HIDE DEF c
<1>4. InUse(c) = InUse(b) \union {b.n} /\ b.n \notin InUse(b)
  BY <1>2, <1>3, Numbers DEF InUse
<1>5. IsBlock(c)
  <2>1. c.ids \in [0 .. c.n - 1 -> [avail : {0, 1}, off : 0 .. PAGE_SIZE, size : 0 .. PAGE_SIZE]]
    <3>1. ItemID(0, b.tail - s, s) \in [avail : {0, 1}, off : 0 .. PAGE_SIZE, size : 0 .. PAGE_SIZE]
      BY <1>1, Numbers DEF ItemID
    <3>2. c.n - 1 = b.n BY <1>2, Numbers
    <3> QED BY <1>2, <3>1, <3>2, Numbers DEF SoundBlock, IsBlock
  <2>2. c.mem \in [Offset -> Byte]
    <3> SUFFICES ASSUME NEW x \in Offset, x \in b.tail - s .. b.tail - s + s - 1
                 PROVE  <<v, x - (b.tail - s)>> \in Byte
      BY <1>2 DEF Written, SoundBlock, IsBlock
    <3>1. x - (b.tail - s) \in Nat BY <1>1
    <3> QED BY <3>1 DEF Byte
  <2> QED BY <1>1, <1>2, <2>1, <2>2, Numbers DEF IsBlock
<1>6. TiledBlock(c)
  <2>1. \A i \in InUse(b) : i \in 0 .. b.n - 1 BY DEF InUse
  <2>2. /\ Begin(c, b.n) = b.tail - s /\ End(c, b.n) = b.tail
        /\ \A i \in InUse(b) : /\ Begin(c, i) = Begin(b, i) /\ End(c, i) = End(b, i)
                               /\ Begin(b, i) \in Nat /\ End(b, i) \in Nat
    BY <1>1, <1>3, <2>1, Numbers DEF Begin, End
  <2>3. HeadPtr(c) <= c.tail BY <1>1, <1>2 DEF HeadPtr
  <2>4. \A i \in InUse(c) : c.tail <= Begin(c, i) /\ Begin(c, i) < End(c, i) /\ End(c, i) <= PAGE_SIZE
    BY <1>1, <1>2, <1>4, <2>2, Numbers DEF SoundBlock, TiledBlock
  <2>5. \A i, k \in InUse(c) : i # k => End(c, i) <= Begin(c, k) \/ End(c, k) <= Begin(c, i)
    BY <1>4, <2>2 DEF SoundBlock, TiledBlock
  <2>6. ASSUME NEW x \in c.tail .. PAGE_SIZE - 1
        PROVE  \E i \in InUse(c) : Begin(c, i) <= x /\ x < End(c, i)
    <3>1. CASE x < b.tail BY <1>1, <1>2, <1>4, <2>2, <3>1
    <3>2. CASE x >= b.tail
      <4>1. x \in b.tail .. PAGE_SIZE - 1 BY <1>1, <1>2, <3>2, Numbers
      <4>2. PICK i \in InUse(b) : Begin(b, i) <= x /\ x < End(b, i)
        BY <4>1 DEF SoundBlock, TiledBlock
      <4> QED BY <1>4, <2>2, <4>2
    <3>3. x \in Int /\ b.tail \in Int BY <1>1, <1>2, Numbers
    <3> QED BY <3>1, <3>2, <3>3
  <2> QED BY <2>3, <2>4, <2>5, <2>6 DEF TiledBlock
<1>7. SpentIds(c)
  BY <1>2, <1>3, Numbers DEF SpentIds, SoundBlock
<1>8. GetItem(c, b.n) = Item(v, s)
  <2>1. \A j \in 0 .. s - 1 : c.mem[b.tail - s + j] = <<v, j>>
    <3> SUFFICES ASSUME NEW j \in 0 .. s - 1 PROVE c.mem[b.tail - s + j] = <<v, j>>
      OBVIOUS
    <3>1. /\ b.tail - s + j \in Offset /\ b.tail - s + j \in b.tail - s .. b.tail - s + s - 1
          /\ b.tail - s + j - (b.tail - s) = j
      BY <1>1, Numbers DEF Offset
    <3> DEFINE y == b.tail - s + j
    <3>2. c.mem[y] = <<v, y - (b.tail - s)>>
      <4> HIDE DEF y
      <4> QED BY <1>2, <3>1 DEF Written, y
    <3>3. y - (b.tail - s) = j BY <1>1, Numbers
    <3> HIDE DEF y
    <3>4. c.mem[y] = <<v, j>> BY <3>2, <3>3, Zenon
    <3> QED BY <3>4 DEF y
  <2> QED BY <1>3, <2>1 DEF GetItem, Item
<1>9. ASSUME NEW i \in InUse(b) PROVE GetItem(c, i) = GetItem(b, i)
  <2>1. i \in 0 .. b.n - 1 /\ c.ids[i] = b.ids[i] BY <1>3 DEF InUse
  <2>2. b.tail <= Begin(b, i) /\ End(b, i) <= PAGE_SIZE BY DEF SoundBlock, TiledBlock
  <2>3. ASSUME NEW j \in 0 .. b.ids[i].size - 1
        PROVE  c.mem[b.ids[i].off + j] = b.mem[b.ids[i].off + j]
    <3>1. /\ b.ids[i].off + j \in Offset
          /\ b.ids[i].off + j \notin b.tail - s .. b.tail - s + s - 1
      BY <1>1, <2>1, <2>2, Numbers DEF Begin, End, Offset
    <3> QED BY <1>2, <3>1 DEF Written
  <2> QED BY <2>1, <2>3 DEF GetItem
<1> QED BY <1>4, <1>5, <1>6, <1>7, <1>8, <1>9 DEF SoundBlock, c

(* Deleting item idx slides the items below it up.  A block f that keeps    *)
(* all items of the compacted block but idx is tiled, and its items read as *)
(* before.                                                                  *)
LEMMA CompactTiled ==
  ASSUME NEW b, SoundBlock(b), NEW idx \in InUse(b),
         NEW f, f.tail = Compacted(b, idx).tail, f.mem = Compacted(b, idx).mem,
         f.n \in Nat, f.n <= b.n, InUse(f) = InUse(b) \ {idx},
         \A i \in InUse(f) : f.ids[i] = Compacted(b, idx).ids[i]
  PROVE  /\ TiledBlock(f)
         /\ f.tail \in 0 .. PAGE_SIZE /\ f.mem \in [Offset -> Byte]
         /\ \A i \in InUse(f) : GetItem(f, i) = GetItem(b, i) /\ f.ids[i].size = b.ids[i].size
<1> DEFINE off  == b.ids[idx].off
           size == b.ids[idx].size
           Lower(i) == b.ids[i].off < off
<1>1. /\ \A i \in InUse(b) : /\ i \in 0 .. b.n - 1 /\ b.ids[i].avail = 0
                            /\ b.ids[i].off \in Nat /\ b.ids[i].size \in Nat
                            /\ Begin(b, i) = b.ids[i].off
                            /\ End(b, i) = b.ids[i].off + b.ids[i].size
                            /\ b.tail <= b.ids[i].off /\ b.ids[i].size > 0
                            /\ b.ids[i].off + b.ids[i].size <= PAGE_SIZE
  <2> SUFFICES ASSUME NEW i \in InUse(b)
               PROVE  /\ i \in 0 .. b.n - 1 /\ b.ids[i].avail = 0
                      /\ b.ids[i].off \in Nat /\ b.ids[i].size \in Nat
                      /\ Begin(b, i) = b.ids[i].off
                      /\ End(b, i) = b.ids[i].off + b.ids[i].size
                      /\ b.tail <= b.ids[i].off /\ b.ids[i].size > 0
                      /\ b.ids[i].off + b.ids[i].size <= PAGE_SIZE
    OBVIOUS
  <2>1. i \in 0 .. b.n - 1 /\ b.ids[i].avail = 0 BY DEF InUse
  <2>2. b.tail <= Begin(b, i) /\ Begin(b, i) < End(b, i) /\ End(b, i) <= PAGE_SIZE
    BY DEF SoundBlock, TiledBlock
  <2> QED BY <2>1, <2>2, Numbers DEF Begin, End
<1>2. \A i, k \in InUse(b) : i # k => \/ b.ids[i].off + b.ids[i].size <= b.ids[k].off
                                     \/ b.ids[k].off + b.ids[k].size <= b.ids[i].off
  BY <1>1 DEF SoundBlock, TiledBlock
<1>3. /\ f.tail = b.tail + size
      /\ f.mem = [x \in Offset |->
                     IF x \in b.tail + size .. off + size - 1 THEN b.mem[x - size]
                     ELSE IF x \in b.tail .. b.tail + size - 1 THEN Zero
                     ELSE b.mem[x]]
  BY DEF Compacted
<1>4. /\ off \in Nat /\ size \in Nat \ {0} /\ b.tail \in Nat /\ PAGE_SIZE \in Nat
      /\ b.tail <= off /\ off + size <= PAGE_SIZE
  BY <1>1, Numbers
<1>5. ASSUME NEW i \in InUse(f)
      PROVE  /\ i \in InUse(b) /\ i # idx
             /\ f.ids[i].size = b.ids[i].size
             /\ Lower(i) => f.ids[i].off = b.ids[i].off + size /\ b.ids[i].off + b.ids[i].size <= off
             /\ ~Lower(i) => f.ids[i].off = b.ids[i].off /\ off + size <= b.ids[i].off
             /\ Begin(f, i) = f.ids[i].off /\ End(f, i) = f.ids[i].off + f.ids[i].size
  <2>1. i \in InUse(b) /\ i # idx /\ i \in 0 .. b.n - 1 /\ b.ids[i].avail = 0 BY <1>1
  <2>2. f.ids[i] = IF Lower(i) THEN ItemID(0, b.ids[i].off + size, b.ids[i].size) ELSE b.ids[i]
    BY <2>1 DEF Compacted
  <2>3. b.ids[i].off + b.ids[i].size <= off \/ off + size <= b.ids[i].off
    BY <1>2, <2>1
  <2>4. b.ids[i].off \in Nat /\ b.ids[i].size \in Nat \ {0} BY <1>1, <2>1
  <2> HIDE DEF off, size
  <2> QED BY <1>4, <2>1, <2>2, <2>3, <2>4 DEF ItemID, Begin, End
<1> HIDE DEF off, size
<1>6. f.tail \in 0 .. PAGE_SIZE BY <1>3, <1>4
<1>7. f.mem \in [Offset -> Byte]
  <2>1. Zero \in Byte BY DEF Byte
  <2>2. ASSUME NEW x \in Offset, x \in b.tail + size .. off + size - 1 PROVE x - size \in Offset
    BY <1>4, <2>2 DEF Offset
  <2>3. b.mem \in [Offset -> Byte] BY DEF SoundBlock, IsBlock
  <2> QED BY <1>3, <2>1, <2>2, <2>3
<1>8. TiledBlock(f)
  <2>1. HeadPtr(f) <= f.tail
    <3>1. Header + ItemIDSize * f.n <= Header + ItemIDSize * b.n
      BY Numbers DEF Header, ItemIDSize
    <3> QED BY <1>3, <1>4, <3>1, Numbers DEF HeadPtr, Header, ItemIDSize
  <2>2. ASSUME NEW i \in InUse(f)
        PROVE  f.tail <= Begin(f, i) /\ Begin(f, i) < End(f, i) /\ End(f, i) <= PAGE_SIZE
    BY <1>1, <1>3, <1>4, <1>5, <2>2
  <2>3. ASSUME NEW i \in InUse(f), NEW k \in InUse(f), i # k
        PROVE  End(f, i) <= Begin(f, k) \/ End(f, k) <= Begin(f, i)
    <3>1. /\ b.ids[i].off + b.ids[i].size <= b.ids[k].off
            \/ b.ids[k].off + b.ids[k].size <= b.ids[i].off
          /\ b.ids[i].off \in Nat /\ b.ids[k].off \in Nat
          /\ b.ids[i].size \in Nat \ {0} /\ b.ids[k].size \in Nat \ {0}
      BY <1>1, <1>2, <1>5, <2>3
    <3> QED BY <1>4, <1>5, <2>3, <3>1
  <2>4. ASSUME NEW x \in f.tail .. PAGE_SIZE - 1
        PROVE  \E i \in InUse(f) : Begin(f, i) <= x /\ x < End(f, i)
    <3>1. x \in Int /\ b.tail + size <= x /\ x <= PAGE_SIZE - 1 BY <1>3, <1>4
    <3> DEFINE y == IF x < off + size THEN x - size ELSE x
    <3>2. y \in b.tail .. PAGE_SIZE - 1 /\ ~(off <= y /\ y < off + size)
      BY <1>4, <3>1
    <3>3. PICK i \in InUse(b) : Begin(b, i) <= y /\ y < End(b, i)
      BY <3>2 DEF SoundBlock, TiledBlock
    <3>4. b.ids[i].off <= y /\ y < b.ids[i].off + b.ids[i].size
      BY <1>1, <3>3
    <3>5. i # idx BY <3>2, <3>4 DEF off, size
    <3>6. i \in InUse(f) BY <3>5
    <3> QED BY <1>1, <1>4, <1>5, <3>1, <3>4, <3>6
  <2> QED BY <2>1, <2>2, <2>3, <2>4 DEF TiledBlock
<1>9. ASSUME NEW i \in InUse(f) PROVE GetItem(f, i) = GetItem(b, i)
  <2>1. i \in InUse(b) /\ f.ids[i].size = b.ids[i].size BY <1>5
  <2>2. ASSUME NEW j \in 0 .. b.ids[i].size - 1
        PROVE  f.mem[f.ids[i].off + j] = b.mem[b.ids[i].off + j]
    <3>1. b.ids[i].off \in Nat /\ b.ids[i].size \in Nat \ {0} /\ b.tail <= b.ids[i].off
          /\ b.ids[i].off + b.ids[i].size <= PAGE_SIZE
      BY <1>1, <2>1
    <3>2. CASE Lower(i)
      <4> DEFINE x == f.ids[i].off + j
      <4>1. /\ x \in Offset /\ x \in b.tail + size .. off + size - 1
            /\ x - size = b.ids[i].off + j
        BY <1>4, <1>5, <3>1, <3>2 DEF Offset
      <4> HIDE DEF x
      <4>2. f.mem[x] = b.mem[x - size] BY <1>3, <4>1
      <4> QED BY <4>1, <4>2, Zenon DEF x
    <3>3. CASE ~Lower(i)
      <4> DEFINE x == b.ids[i].off + j
      <4>1. /\ x \in Offset /\ x \notin b.tail + size .. off + size - 1
            /\ x \notin b.tail .. b.tail + size - 1
        BY <1>4, <1>5, <3>1, <3>3 DEF Offset
      <4> HIDE DEF x
      <4>2. f.mem[x] = b.mem[x] BY <1>3, <4>1
      <4>3. f.ids[i].off = b.ids[i].off BY <1>5, <3>3
      <4> QED BY <4>2, <4>3 DEF x
    <3> QED BY <3>2, <3>3
  <2> QED BY <2>1, <2>2 DEF GetItem
<1> QED BY <1>5, <1>6, <1>7, <1>8, <1>9

(* Whether the ItemID of a deleted item is dropped or made available, the   *)
(* block stays sound, loses that item and no other, and the others read as  *)
(* before.                                                                  *)
LEMMA DeleteSound ==
  ASSUME NEW b, SoundBlock(b), NEW idx \in 0 .. b.n - 1
  PROVE  LET f == DeleteItem(b, idx)
         IN  /\ SoundBlock(f)
             /\ InUse(f) = InUse(b) \ {idx}
             /\ \A i \in InUse(f) : GetItem(f, i) = GetItem(b, i)
<1> DEFINE f == DeleteItem(b, idx)
           c == Compacted(b, idx)
<1>1. CASE b.ids[idx].avail = 1
  <2>1. f = b /\ idx \notin InUse(b) BY <1>1 DEF DeleteItem, InUse
  <2> QED BY <2>1
<1>2. CASE b.ids[idx].avail = 0
  <2>1. idx \in InUse(b) BY <1>2 DEF InUse
  <2>2. b.ids[idx].size # 0
    <3>1. Begin(b, idx) < End(b, idx) BY <2>1 DEF SoundBlock, TiledBlock
    <3> QED BY <3>1, Numbers DEF Begin, End
  <2>3. /\ c.n = b.n /\ b.n \in Nat \ {0}
        /\ \A i \in 0 .. b.n - 1 :
              /\ c.ids[i].avail = b.ids[i].avail /\ c.ids[i].size = b.ids[i].size
              /\ c.ids[i] = [avail |-> c.ids[i].avail, off |-> c.ids[i].off, size |-> c.ids[i].size]
        /\ DOMAIN c.ids = 0 .. b.n - 1
    <3>1. b.n \in Nat \ {0} BY Numbers
    <3>2. ASSUME NEW i \in 0 .. b.n - 1
          PROVE  /\ c.ids[i].avail = b.ids[i].avail /\ c.ids[i].size = b.ids[i].size
                 /\ c.ids[i] = [avail |-> c.ids[i].avail, off |-> c.ids[i].off, size |-> c.ids[i].size]
      <4>1. b.ids[i] \in [avail : {0, 1}, off : 0 .. PAGE_SIZE, size : 0 .. PAGE_SIZE]
        BY DEF SoundBlock, IsBlock
      <4> QED BY <4>1 DEF Compacted, ItemID
    <3> QED BY <3>1, <3>2 DEF Compacted
  <2>4. /\ f.tail = c.tail /\ f.mem = c.mem
        /\ f.n \in Nat /\ f.n <= b.n
        /\ InUse(f) = InUse(b) \ {idx}
        /\ \A i \in 0 .. f.n - 1 : i \in 0 .. b.n - 1
        /\ \A i \in 0 .. f.n - 1 : i # idx => f.ids[i] = c.ids[i]
        /\ \A i \in 0 .. f.n - 1 : i = idx => f.ids[i] = ItemID(1, 0, 0)
        /\ DOMAIN f.ids = 0 .. f.n - 1 /\ f.ids = [i \in 0 .. f.n - 1 |-> f.ids[i]]
    <3> HIDE DEF c
    <3>1. CASE idx = b.n - 1
      <4>1. f = [n |-> c.n - 1, tail |-> c.tail, ids |-> [i \in 0 .. c.n - 2 |-> c.ids[i]], mem |-> c.mem]
        BY <1>2, <2>2, <3>1 DEF DeleteItem, DropLastId, c
      <4> HIDE DEF f
      <4>2. f.n = b.n - 1 /\ f.tail = c.tail /\ f.mem = c.mem /\ f.ids = [i \in 0 .. f.n - 1 |-> c.ids[i]]
        BY <2>3, <4>1
      <4>3. 0 .. f.n - 1 = (0 .. b.n - 1) \ {idx} BY <2>3, <3>1, <4>2
      <4>4. InUse(f) = InUse(b) \ {idx}
        <5>1. \A i \in 0 .. f.n - 1 : f.ids[i] = c.ids[i] BY <4>2
        <5>2. \A i \in 0 .. f.n - 1 : i \in 0 .. b.n - 1 /\ i # idx BY <4>3
        <5>3. \A i \in 0 .. f.n - 1 : f.ids[i].avail = b.ids[i].avail
          BY <2>3, <5>1, <5>2
        <5> HIDE DEF c
        <5> QED BY <4>3, <5>3 DEF InUse
      <4> QED BY <2>3, <4>2, <4>3, <4>4
    <3>2. CASE idx # b.n - 1
      <4>1. f = [c EXCEPT !.ids[idx] = ItemID(1, 0, 0)]
        BY <1>2, <2>2, <3>2 DEF DeleteItem, c
      <4>2. c = [n |-> c.n, tail |-> c.tail, ids |-> c.ids, mem |-> c.mem]
        BY DEF c, Compacted
      <4>5. c.ids = [i \in 0 .. b.n - 1 |-> c.ids[i]] BY DEF c, Compacted
      <4> HIDE DEF f
      <4>3. /\ f.n = b.n /\ f.tail = c.tail /\ f.mem = c.mem
            /\ f.ids = [i \in 0 .. b.n - 1 |-> IF i = idx THEN ItemID(1, 0, 0) ELSE c.ids[i]]
        BY <2>3, <4>1, <4>2, <4>5
      <4>4. /\ f.ids[idx].avail = 1
            /\ \A i \in 0 .. b.n - 1 : i # idx => f.ids[i].avail = b.ids[i].avail
        <5>1. f.ids[idx] = ItemID(1, 0, 0) BY <4>3
        <5>2. \A i \in 0 .. b.n - 1 : i # idx => f.ids[i] = c.ids[i] BY <4>3
        <5>3. f.ids[idx].avail = 1 BY <5>1 DEF ItemID
        <5> QED BY <2>3, <5>2, <5>3
      <4>6. InUse(f) = InUse(b) \ {idx} BY <4>3, <4>4 DEF InUse
      <4> QED BY <2>3, <4>3, <4>6
    <3> QED BY <3>1, <3>2
  <2> HIDE DEF f
  <2>5. /\ TiledBlock(f) /\ f.tail \in 0 .. PAGE_SIZE /\ f.mem \in [Offset -> Byte]
        /\ \A i \in InUse(f) : GetItem(f, i) = GetItem(b, i)
    <3>1. \A i \in InUse(f) : f.ids[i] = c.ids[i] BY <2>4 DEF InUse
    <3>2. /\ f.tail = Compacted(b, idx).tail /\ f.mem = Compacted(b, idx).mem
          /\ \A i \in InUse(f) : f.ids[i] = Compacted(b, idx).ids[i]
      BY <2>4, <3>1
    <3>3. f.n \in Nat /\ f.n <= b.n /\ InUse(f) = InUse(b) \ {idx} BY <2>4
    <3> QED BY <2>1, <3>2, <3>3, CompactTiled
  <2>6. SpentIds(f)
    <3> SUFFICES ASSUME NEW i \in 0 .. f.n - 1, f.ids[i].avail = 1
                 PROVE  f.ids[i].size = 0
      BY DEF SpentIds
    <3> HIDE DEF c
    <3>1. CASE i = idx BY <2>4, <3>1 DEF ItemID
    <3>2. CASE i # idx
      <4>1. f.ids[i] = c.ids[i] /\ i \in 0 .. b.n - 1 BY <2>4, <3>2
      <4>2. b.ids[i].avail = 1 /\ f.ids[i].size = b.ids[i].size BY <2>3, <4>1
      <4> QED BY <4>1, <4>2 DEF SpentIds, SoundBlock
    <3> QED BY <3>1, <3>2
  <2>7. IsBlock(f)
    <3> SUFFICES ASSUME NEW i \in 0 .. f.n - 1
                 PROVE  f.ids[i] \in [avail : {0, 1}, off : 0 .. PAGE_SIZE, size : 0 .. PAGE_SIZE]
      BY <2>4, <2>5 DEF IsBlock
    <3>1. CASE i = idx BY <2>4, <3>1, BlockAssumption DEF ItemID
    <3>2. CASE i # idx
      <4>1. f.ids[i] = c.ids[i] /\ i \in 0 .. b.n - 1 BY <2>4, <3>2
      <4>2. b.ids[i] \in [avail : {0, 1}, off : 0 .. PAGE_SIZE, size : 0 .. PAGE_SIZE]
        BY <4>1 DEF SoundBlock, IsBlock
      <4>3. c.ids[i].off \in 0 .. PAGE_SIZE
        <5>1. CASE b.ids[i].avail = 0 /\ b.ids[i].off < b.ids[idx].off
          <6>1. c.ids[i].off = b.ids[i].off + b.ids[idx].size
            BY <4>1, <5>1 DEF Compacted, ItemID
          <6>2. End(b, idx) <= PAGE_SIZE BY <2>1 DEF SoundBlock, TiledBlock
          <6> QED BY <4>1, <5>1, <6>1, <6>2, Numbers DEF End
        <5>2. CASE ~(b.ids[i].avail = 0 /\ b.ids[i].off < b.ids[idx].off)
          BY <4>1, <4>2, <5>2 DEF Compacted
        <5> QED BY <5>1, <5>2
      <4> HIDE DEF c
      <4>4. /\ c.ids[i] = [avail |-> c.ids[i].avail, off |-> c.ids[i].off, size |-> c.ids[i].size]
            /\ c.ids[i].avail \in {0, 1} /\ c.ids[i].size \in 0 .. PAGE_SIZE
        BY <2>3, <4>1, <4>2
      <4> QED BY <4>1, <4>3, <4>4
    <3> QED BY <3>1, <3>2
  <2> QED BY <2>4, <2>5, <2>6, <2>7 DEF SoundBlock, f
<1> QED BY <1>1, <1>2, Numbers
===============================================================================
