-------------------------- MODULE BufferPoolProofs --------------------------
(***************************************************************************)
(* Theorems about BufferPool for every number of slots, pages and contents. *)
(***************************************************************************)
EXTENDS AnyCaller, SequenceTheorems, WellFoundedInduction, TLAPS

(* An empty pool satisfies the invariant.                                   *)
LEMMA InitIInv == Init => IInv
  BY PoolAssumption
     DEF Init, IInv, TypeOK, FrameInv, MirrorInv, FileInv, Occupied, Held, FrameAddrs,
         Addr, NoAddr, PageNo, Slots

(* read_page leaves a page's contents in the slot.                          *)
LEMMA ReadIntoType ==
  ASSUME TypeOK, NEW i \in Slots, NEW a \in Addr
  PROVE  ReadInto(i, a) \in Val
<1>1. CASE a \in 0 .. length - 1 /\ disk[a] # NoData
  <2>1. a \in PageNo BY <1>1 DEF TypeOK, PageNo, Addr, NoAddr
  <2> QED BY <1>1, <2>1 DEF ReadInto, TypeOK
<1>2. CASE ~(a \in 0 .. length - 1 /\ disk[a] # NoData)
  BY <1>2 DEF ReadInto, TypeOK
<1> QED BY <1>1, <1>2

(* The slot get_page finds for a page, under a caller that released nothing *)
(* out of order: the page's own slot when it is held, the next otherwise.   *)
LEMMA FirstUsableSlot ==
  ASSUME IInv, open, released = {}, NEW a \in Addr, NEW i \in Slots, FirstUsable(i, a)
  PROVE  /\ i \in empty => i = Len(frame) /\ a \notin Held
         /\ i \notin empty => i < Len(frame) /\ frame[i + 1].addr = a
<1> USE DEF IInv, FrameInv, MirrorInv, Occupied
<1>1. Len(frame) \in Nat /\ DOMAIN frame = 1 .. Len(frame)
  BY DEF TypeOK
<1>2. \A j \in Slots : j < Len(frame) <=> j \notin empty
  BY <1>1 DEF Slots
<1>3. CASE i \in empty
  <2>1. \A j \in 0 .. i - 1 : j \in Slots /\ j \notin empty
    BY <1>3, PoolAssumption DEF FirstUsable, Slots
  <2>2. i = Len(frame)
    <3>1. i >= Len(frame) BY <1>1, <1>2, <1>3 DEF Slots
    <3>2. CASE i > Len(frame)
      <4>1. Len(frame) \in 0 .. i - 1 BY <1>1, <3>2, PoolAssumption DEF Slots
      <4> QED BY <1>1, <1>2, <2>1, <4>1
    <3> QED BY <1>1, <3>1, <3>2, PoolAssumption DEF Slots
  <2>3. \A k \in DOMAIN frame : frame[k].addr # a
    <3> SUFFICES ASSUME NEW k \in DOMAIN frame PROVE frame[k].addr # a
      OBVIOUS
    <3>1. k - 1 \in 0 .. i - 1 BY <1>1, <2>2
    <3>2. k - 1 \in Slots /\ k - 1 + 1 = k BY <1>1, <2>1, <3>1
    <3>3. addrs[k - 1] = frame[k].addr BY <3>2
    <3> QED BY <3>1, <3>3 DEF FirstUsable
  <2> QED BY <1>3, <2>2, <2>3 DEF Held, FrameAddrs
<1>4. CASE i \notin empty
  BY <1>1, <1>2, <1>4 DEF FirstUsable
<1> QED BY <1>3, <1>4

(* The slot such a caller gets is not the last, so get_page returns the     *)
(* page of that slot.                                                       *)
LEMMA HandedSlot ==
  ASSUME IInv, open, released = {}, NEW a \in Addr, NEW i \in Slots, Load(i, a),
         a \in Held \/ Len(frame) < MaxPins
  PROVE  Handed(i) = i
<1>1. i = Len(frame) /\ a \notin Held BY FirstUsableSlot DEF Load
<1>2. i # Last BY <1>1, PoolAssumption DEF Last, Slots
<1> QED BY <1>2 DEF Handed

(* While the caller keeps to its discipline the last slot is never in use,  *)
(* so get_page takes neither the eviction path nor the exchange.            *)
LEMMA LastSlotFree ==
  ASSUME IInv, open
  PROVE  Last \in empty /\ ref[Last] = 0
<1>1. Last \in Slots /\ Last = CACHE_PAGE - 1
  BY PoolAssumption DEF Last, Slots
<1>2. ~Occupied(Last)
  BY <1>1, PoolAssumption DEF IInv, FrameInv, TypeOK, Occupied
<1> QED BY <1>1, <1>2 DEF IInv, MirrorInv

-----------------------------------------------------------------------------
(* One lemma per action.                                                    *)

(* Reading a page into the first free slot pushes it on the frame.          *)
LEMMA LoadPreserves ==
  ASSUME IInv, open, released = {}, NEW a \in Addr, a <= length, NEW i \in Slots,
         a \in Held \/ Len(frame) < MaxPins, Load(i, a),
         frame' = Append(frame, [addr |-> a, slot |-> i]),
         UNCHANGED <<open, released>>
  PROVE  IInv'
<1> DEFINE p == [addr |-> a, slot |-> i]
<1>0. TypeOK /\ FrameInv /\ MirrorInv /\ FileInv BY DEF IInv
<1>1. i = Len(frame) /\ a \notin Held
  BY FirstUsableSlot DEF Load
<1>2. /\ Len(frame) \in Nat /\ DOMAIN frame = 1 .. Len(frame)
      /\ frame \in Seq([addr : Addr, slot : Slots]) /\ p \in [addr : Addr, slot : Slots]
  BY DEF IInv, TypeOK
<1>3. /\ frame' \in Seq([addr : Addr, slot : Slots])
      /\ Len(frame') = Len(frame) + 1
      /\ DOMAIN frame' = 1 .. Len(frame) + 1
      /\ \A k \in DOMAIN frame : frame'[k] = frame[k]
      /\ frame'[Len(frame) + 1] = p
  BY <1>2
<1>4. FrameAddrs' = FrameAddrs \union {a} /\ Held' = Held \union {a}
  BY <1>2, <1>3 DEF FrameAddrs, Held
<1>5. TypeOK'
  <2>1. pages' \in [Slots -> Val]
    BY ReadIntoType, <1>0 DEF Load, TypeOK
  <2>2. addrs' \in [Slots -> Addr] /\ ref' \in [Slots -> Nat] /\ empty' \in SUBSET Slots
    BY <1>0 DEF Load, TypeOK
  <2> QED BY <2>1, <2>2, <1>0, <1>3 DEF Load, TypeOK
<1>6. FrameInv'
  <2>1. Len(frame') <= MaxPins
    BY <1>0, <1>1, <1>2, <1>3, PoolAssumption DEF FrameInv
  <2>2. \A k \in DOMAIN frame' : frame'[k].slot = k - 1 /\ frame'[k].addr <= length'
    BY <1>0, <1>1, <1>2, <1>3 DEF FrameInv, Load
  <2>3. \A k \in DOMAIN frame : frame[k].addr # a
    BY <1>1 DEF Held, FrameAddrs
  <2>4. \A j, k \in DOMAIN frame' : frame'[j].addr = frame'[k].addr => j = k
    BY <1>0, <1>2, <1>3, <2>3 DEF FrameInv
  <2> QED BY <2>1, <2>2, <2>4 DEF FrameInv
<1>7. MirrorInv'
  <2> SUFFICES ASSUME NEW j \in Slots
               PROVE  IF Occupied(j)' THEN j \notin empty' /\ addrs'[j] = frame'[j + 1].addr
                      ELSE j \in empty' /\ addrs'[j] = NoAddr /\ ref'[j] = 0
    BY DEF MirrorInv
  <2>1. CASE j = i
    <3>1. Occupied(j)' BY <2>1, <1>1, <1>2, <1>3 DEF Occupied
    <3>2. frame'[j + 1].addr = a BY <2>1, <1>1, <1>3
    <3> QED BY <2>1, <3>1, <3>2, <1>0 DEF Load, TypeOK
  <2>2. CASE j # i
    <3>1. j + 1 \in DOMAIN frame' <=> j + 1 \in DOMAIN frame
      BY <2>2, <1>1, <1>2, <1>3, PoolAssumption DEF Slots
    <3>2. Occupied(j)' <=> Occupied(j) BY <3>1, <1>3 DEF Occupied
    <3>3. addrs'[j] = addrs[j] /\ ref'[j] = ref[j] /\ (j \in empty' <=> j \in empty)
      BY <2>2, <1>0 DEF Load, TypeOK
    <3> QED BY <3>1, <3>2, <3>3, <1>0, <1>3 DEF MirrorInv, Occupied
  <2> QED BY <2>1, <2>2
<1>8. FileInv'
  BY <1>0, <1>4 DEF FileInv, Load
<1> QED BY <1>5, <1>6, <1>7, <1>8 DEF IInv

(* Getting a held page again changes nothing but its reference count.       *)
LEMMA HitPreserves ==
  ASSUME IInv, open, released = {}, NEW a \in Addr, NEW i \in Slots, Hit(i, a),
         UNCHANGED <<frame, open, released>>
  PROVE  IInv'
<1>0. TypeOK /\ FrameInv /\ MirrorInv /\ FileInv BY DEF IInv
<1>1. i < Len(frame) BY FirstUsableSlot DEF Hit
<1>2. TypeOK' BY <1>0 DEF TypeOK, Hit
<1>3. FrameInv' /\ FileInv' BY <1>0 DEF FrameInv, FileInv, FrameAddrs, Held, Hit
<1>4. MirrorInv'
  <2>1. \A j \in Slots : Occupied(j)' <=> Occupied(j) BY DEF Occupied
  <2>2. Occupied(i) BY <1>0, <1>1 DEF Hit, MirrorInv
  <2>3. \A j \in Slots : j # i => ref'[j] = ref[j] BY <1>0 DEF Hit, TypeOK
  <2> QED BY <2>1, <2>2, <2>3, <1>0 DEF MirrorInv, Hit
<1> QED BY <1>2, <1>3, <1>4 DEF IInv

(* get_page takes one of the two ways above.                                *)
LEMMA GetPreserves ==
  ASSUME IInv, NEW a \in Addr, Get(a)
  PROVE  IInv'
<1>1. open /\ released = {} /\ a <= length /\ UNCHANGED <<open, released>>
  BY DEF Get, GetPage
<1>2. ASSUME NEW i \in Slots, Load(i, a), frame' = Append(frame, [addr |-> a, slot |-> Handed(i)])
      PROVE  IInv'
  <2>1. a \in Held \/ Len(frame) < MaxPins BY DEF Get
  <2>2. Handed(i) = i BY <1>1, <1>2, <2>1, HandedSlot
  <2>3. frame' = Append(frame, [addr |-> a, slot |-> i]) BY <1>2, <2>2
  <2> QED BY <1>1, <1>2, <2>1, <2>3, LoadPreserves
<1>3. ASSUME NEW i \in Slots, Hit(i, a), UNCHANGED frame
      PROVE  IInv'
  BY <1>1, <1>3, HitPreserves
<1>4. ~Steal(a)
  BY <1>1, LastSlotFree DEF Steal
<1> QED BY <1>2, <1>3, <1>4 DEF Get, GetPage

(* release writes a held page back: it is on disk afterwards, the file      *)
(* grows when the page was the one behind its end, and no other page and no *)
(* other slot changes.                                                      *)
LEMMA PoolReleaseFacts ==
  ASSUME IInv, open, NEW a \in Addr, PoolRelease(a)
  PROVE  /\ pages' \in [Slots -> Val] /\ addrs' \in [Slots -> Addr]
         /\ ref' \in [Slots -> Nat] /\ empty' \in SUBSET Slots
         /\ disk' \in [PageNo -> Val \union {NoData}]
         /\ \A i \in Slots : IF addrs[i] = a
                            THEN addrs'[i] = NoAddr /\ ref'[i] = 0 /\ i \in empty'
                            ELSE addrs'[i] = addrs[i] /\ ref'[i] = ref[i]
                                 /\ (i \in empty' <=> i \in empty)
         /\ \A b \in PageNo \ {a} : disk'[b] = disk[b]
         /\ length' >= length /\ length' \in Nat
         /\ \A b \in PageNo : b < length' => b < length \/ b = a
         /\ a \in Held => /\ a \in PageNo => disk'[a] # NoData /\ a < length'
                        /\ length' \in 0 .. MaxPages
         /\ a \notin Held => disk' = disk /\ length' = length
<1>0. TypeOK /\ FrameInv /\ MirrorInv /\ FileInv BY DEF IInv
<1>1. \A i \in Slots : IF addrs[i] = a
                      THEN addrs'[i] = NoAddr /\ ref'[i] = 0 /\ i \in empty'
                      ELSE addrs'[i] = addrs[i] /\ ref'[i] = ref[i]
                           /\ (i \in empty' <=> i \in empty)
  BY <1>0 DEF PoolRelease, Mapped, TypeOK
<1>2. /\ pages' \in [Slots -> Val] /\ addrs' \in [Slots -> Addr]
      /\ ref' \in [Slots -> Nat] /\ empty' \in SUBSET Slots
  BY <1>0 DEF PoolRelease, Mapped, TypeOK, Addr
<1>3. length \in 0 .. MaxPages BY <1>0 DEF TypeOK
<1>4. CASE a \in PageNo /\ a \in Held
  <2>1. PICK k \in DOMAIN frame : frame[k].addr = a /\ a \notin released
    BY <1>4 DEF Held, FrameAddrs
  <2>2. k - 1 \in Slots /\ k - 1 + 1 = k /\ a <= length
    BY <1>0, <2>1, PoolAssumption DEF FrameInv, TypeOK, Slots
  <2>3. Mapped(a) = {k - 1}
    <3>1. addrs[k - 1] = a BY <1>0, <2>1, <2>2 DEF MirrorInv, Occupied
    <3>2. ASSUME NEW i \in Slots, addrs[i] = a PROVE i = k - 1
      <4>1. Occupied(i) /\ frame[i + 1].addr = a
        BY <1>0, <1>4, <3>2 DEF MirrorInv, PageNo, NoAddr
      <4>2. i + 1 = k BY <1>0, <2>1, <4>1 DEF FrameInv, Occupied
      <4> QED BY <4>2 DEF Slots
    <3> QED BY <2>2, <3>1, <3>2 DEF Mapped
  <2>4. LastOf(Mapped(a)) = k - 1 BY <2>2, <2>3 DEF LastOf, Slots
  <2>5. Writable(a) BY <1>3, <1>4, <2>2, <2>3 DEF Writable, PageNo
  <2>6. disk' = [disk EXCEPT ![a] = pages[k - 1]] BY <2>4, <2>5 DEF PoolRelease, Flushed
  <2>7. pages[k - 1] \in Val /\ pages[k - 1] # NoData
    BY <1>0, <2>2, PoolAssumption DEF TypeOK
  <2>8. /\ disk' \in [PageNo -> Val \union {NoData}]
        /\ \A b \in PageNo \ {a} : disk'[b] = disk[b]
        /\ disk'[a] # NoData
    BY <1>0, <1>4, <2>6, <2>7 DEF TypeOK
  <2>9. /\ length' \in 0 .. MaxPages /\ length' >= length
        /\ \A b \in PageNo : b < length' => b < length \/ b = a
        /\ a < length'
    BY <1>3, <1>4, <2>2, <2>5, PoolAssumption DEF PoolRelease, Grown, PageNo
  <2> QED BY <1>1, <1>2, <1>4, <2>8, <2>9
<1>5. CASE a \notin PageNo \/ a \notin Held
  <2>1. ~Writable(a)
    <3>1. CASE a \notin PageNo BY <3>1, <1>3 DEF Writable, Addr, NoAddr
    <3>2. CASE a \in PageNo /\ a \notin Held
      BY <3>2, <1>0 DEF Writable, Mapped, MirrorInv, Occupied, Held, FrameAddrs, NoAddr, PageNo
    <3> QED BY <1>5, <3>1, <3>2
  <2>2. disk' = disk /\ length' = length BY <2>1 DEF PoolRelease, Flushed, Grown
  <2> QED BY <1>0, <1>1, <1>2, <1>3, <1>5, <2>2 DEF TypeOK
<1> QED BY <1>4, <1>5

(* Dropping the last element of a sequence keeps the others where they are. *)
LEMMA PopFacts ==
  ASSUME NEW S, NEW s \in Seq(S), s # <<>>
  PROVE  LET n == Len(s)
             t == SubSeq(s, 1, n - 1)
         IN  /\ n \in Nat \ {0} /\ t \in Seq(S) /\ DOMAIN s = 1 .. n
             /\ Len(t) = n - 1 /\ DOMAIN t = 1 .. n - 1
             /\ \A k \in 1 .. n - 1 : t[k] = s[k]
<1>1. Len(s) \in Nat \ {0} /\ DOMAIN s = 1 .. Len(s)
  BY EmptySeq, LenProperties
<1>2. /\ SubSeq(s, 1, Len(s) - 1) \in Seq(S)
      /\ Len(SubSeq(s, 1, Len(s) - 1)) = Len(s) - 1
      /\ \A k \in 1 .. Len(s) - 1 : SubSeq(s, 1, Len(s) - 1)[k] = s[k]
  BY <1>1, SubSeqProperties
<1> QED BY <1>1, <1>2, LenProperties

(* The pages of the frame are addresses, and those behind it are numbers.   *)
LEMMA FrameTypes ==
  ASSUME TypeOK
  PROVE  /\ Len(frame) \in Nat /\ DOMAIN frame = 1 .. Len(frame)
         /\ frame \in Seq([addr : Addr, slot : Slots])
         /\ \A k \in DOMAIN frame : frame[k].addr \in Addr /\ frame[k].addr \in Int
<1>1. frame \in Seq([addr : Addr, slot : Slots]) BY DEF TypeOK
<1>2. Len(frame) \in Nat /\ DOMAIN frame = 1 .. Len(frame) BY <1>1
<1>3. \A k \in DOMAIN frame : frame[k].addr \in Addr
  <2> SUFFICES ASSUME NEW k \in DOMAIN frame PROVE frame[k].addr \in Addr
    OBVIOUS
  <2>1. frame[k] \in [addr : Addr, slot : Slots] BY <1>1, ElementOfSeq, LenProperties
  <2> QED BY <2>1
<1>4. Addr \subseteq Int BY PoolAssumption DEF Addr, NoAddr, PageNo
<1> QED BY <1>1, <1>2, <1>3, <1>4

(* Which side of a boundary a slot lies on.                                 *)
LEMMA Boundary ==
  \A m, n \in Nat : /\ m < n - 1 => m + 1 # n
                    /\ ~(m < n - 1) /\ m # n - 1 => ~(m < n)
  OBVIOUS

(* Giving back a page leaves the frame a stack in consecutive slots: the    *)
(* last page is popped, or, in the final drain, marked as released.         *)
LEMMA ReleasePreserves ==
  ASSUME IInv, NEW a \in Addr, Release(a)
  PROVE  IInv'
<1>0. open /\ open' = open /\ PoolRelease(a) BY DEF Release
<1>1. TypeOK /\ FrameInv /\ MirrorInv /\ FileInv BY <1>0 DEF IInv
<1>2. Len(frame) \in Nat /\ DOMAIN frame = 1 .. Len(frame)
  BY <1>1, FrameTypes
<1>t. /\ frame \in Seq([addr : Addr, slot : Slots])
      /\ \A k \in DOMAIN frame : frame[k].addr \in Addr /\ frame[k].addr \in Int
  BY <1>1, FrameTypes
<1>3. \A i \in Slots : addrs[i] = a <=> IF Occupied(i) THEN frame[i + 1].addr = a ELSE a = NoAddr
  BY <1>1 DEF MirrorInv
<1>4. CASE a \notin Held /\ UNCHANGED <<frame, released>>
  <2>1. disk' = disk /\ length' = length BY <1>0, <1>4, PoolReleaseFacts
  <2>2. TypeOK' BY <1>0, <1>1, <1>4, <2>1, PoolReleaseFacts DEF TypeOK
  <2>3. FrameInv' /\ FileInv'
    BY <1>1, <1>4, <2>1 DEF FrameInv, FileInv, Held, FrameAddrs
  <2>4. ASSUME NEW i \in Slots, Occupied(i) PROVE addrs[i] # a
    BY <1>3, <1>4, <2>4 DEF Occupied, Held, FrameAddrs
  <2>5. MirrorInv'
    BY <1>0, <1>1, <1>4, <2>4, PoolReleaseFacts DEF MirrorInv, Occupied
  <2> QED BY <1>0, <2>2, <2>3, <2>5 DEF IInv
<1>5. CASE /\ a \in Held /\ released = {} /\ a = frame[Len(frame)].addr
           /\ frame' = SubSeq(frame, 1, Len(frame) - 1) /\ UNCHANGED released
  <2>1. Len(frame) > 0 BY <1>2, <1>5 DEF Held, FrameAddrs
  <2>2. /\ frame' \in Seq([addr : Addr, slot : Slots])
        /\ Len(frame') = Len(frame) - 1 /\ DOMAIN frame' = 1 .. Len(frame) - 1
        /\ \A k \in 1 .. Len(frame) - 1 : frame'[k] = frame[k]
    <3> DEFINE S == [addr : Addr, slot : Slots]
    <3>1. frame \in Seq(S) /\ frame # <<>> BY <1>t, <2>1
    <3>2. frame' = SubSeq(frame, 1, Len(frame) - 1) BY <1>5
    <3> HIDE DEF S
    <3>3. /\ SubSeq(frame, 1, Len(frame) - 1) \in Seq(S)
          /\ Len(SubSeq(frame, 1, Len(frame) - 1)) = Len(frame) - 1
          /\ DOMAIN SubSeq(frame, 1, Len(frame) - 1) = 1 .. Len(frame) - 1
          /\ \A k \in 1 .. Len(frame) - 1 : SubSeq(frame, 1, Len(frame) - 1)[k] = frame[k]
      BY <3>1, PopFacts
    <3> QED BY <3>2, <3>3 DEF S
  <2>3. Held' = Held \ {a}
    <3>1. DOMAIN frame = DOMAIN frame' \union {Len(frame)} BY <1>2, <2>1, <2>2
    <3>2. \A k \in DOMAIN frame' : frame'[k].addr = frame[k].addr BY <2>2
    <3>3. \A k \in DOMAIN frame' : frame[k].addr # a
      BY <1>1, <1>2, <1>5, <2>1, <2>2, <3>1 DEF FrameInv
    <3>4. FrameAddrs = FrameAddrs' \union {a}
      <4>1. a \in FrameAddrs BY <1>5, Zenon DEF Held
      <4>2. FrameAddrs \subseteq FrameAddrs' \union {a} BY <1>5, <3>1, <3>2, Zenon DEF FrameAddrs
      <4>3. FrameAddrs' \subseteq FrameAddrs BY <3>1, <3>2 DEF FrameAddrs
      <4> QED BY <4>1, <4>2, <4>3
    <3>5. a \notin FrameAddrs' BY <3>2, <3>3 DEF FrameAddrs
    <3> QED BY <1>5, <3>4, <3>5 DEF Held
  <2>4. TypeOK' BY <1>0, <1>1, <1>5, <2>2, PoolReleaseFacts DEF TypeOK
  <2>5. length' >= length /\ length \in Nat BY <1>0, <1>1, PoolReleaseFacts DEF TypeOK
  <2>6. FrameInv'
    <3>1. \A k \in DOMAIN frame' : frame[k].addr <= length'
      <4>1. \A k \in DOMAIN frame' : k \in DOMAIN frame BY <1>2, <2>2
      <4>2. length' \in Int BY <2>5, <2>4 DEF TypeOK
      <4> QED BY <1>1, <1>2, <1>t, <2>5, <4>1, <4>2 DEF FrameInv
    <3> QED BY <1>1, <1>2, <1>5, <2>1, <2>2, <3>1, PoolAssumption DEF FrameInv
  <2>7. ASSUME NEW i \in Slots
        PROVE  IF Occupied(i)' THEN i \notin empty' /\ addrs'[i] = frame'[i + 1].addr
               ELSE i \in empty' /\ addrs'[i] = NoAddr /\ ref'[i] = 0
    <3>0. i \in Nat BY DEF Slots
    <3>1. Occupied(i) <=> i < Len(frame) BY <1>2, <1>5, <3>0 DEF Occupied
    <3>2. Occupied(i)' <=> i < Len(frame) - 1 BY <1>2, <1>5, <2>1, <2>2, <3>0 DEF Occupied
    <3>3. CASE i < Len(frame) - 1
      <4>1. /\ frame'[i + 1] = frame[i + 1] /\ i + 1 \in DOMAIN frame
            /\ Len(frame) \in DOMAIN frame /\ i + 1 # Len(frame) /\ i < Len(frame)
        <5>1. i + 1 \in 1 .. Len(frame) - 1 /\ Len(frame) \in 1 .. Len(frame) /\ i < Len(frame)
          BY <1>2, <2>1, <3>0, <3>3
        <5>2. i + 1 \in DOMAIN frame /\ Len(frame) \in DOMAIN frame BY <1>2, <3>0, <5>1
        <5>3. frame'[i + 1] = frame[i + 1] BY <2>2, <5>1
        <5>4. i + 1 # Len(frame) BY <1>2, <3>0, <3>3, Boundary, Zenon
        <5> QED BY <5>1, <5>2, <5>3, <5>4
      <4>2. frame[i + 1].addr # a BY <1>1, <1>5, <4>1 DEF FrameInv
      <4>3. Occupied(i) /\ Occupied(i)' BY <3>1, <3>2, <3>3, <4>1, Zenon
      <4>4. addrs[i] = frame[i + 1].addr /\ i \notin empty BY <1>1, <4>3 DEF MirrorInv
      <4> QED BY <1>0, <4>1, <4>2, <4>3, <4>4, PoolReleaseFacts
    <3>4. CASE i = Len(frame) - 1
      <4>1. i < Len(frame) /\ ~(i < Len(frame) - 1) /\ i + 1 = Len(frame)
        BY <1>2, <3>0, <3>4
      <4>2. Occupied(i) /\ ~Occupied(i)' BY <3>1, <3>2, <4>1, Zenon
      <4>3. addrs[i] = a BY <1>1, <1>5, <4>1, <4>2 DEF MirrorInv
      <4> QED BY <1>0, <4>2, <4>3, PoolReleaseFacts
    <3>5. CASE ~(i < Len(frame) - 1) /\ i # Len(frame) - 1
      <4>1. ~(i < Len(frame)) BY <1>2, <3>0, <3>5, Boundary, Zenon
      <4>2. ~Occupied(i) /\ ~Occupied(i)' BY <3>1, <3>2, <3>5, <4>1, Zenon
      <4>3. addrs[i] = NoAddr /\ i \in empty /\ ref[i] = 0 BY <1>1, <4>2 DEF MirrorInv
      <4> QED BY <1>0, <4>2, <4>3, PoolReleaseFacts
    <3> QED BY <3>3, <3>4, <3>5
  <2>8. FileInv'
    BY <1>0, <1>1, <1>5, <2>3, <2>5, PoolReleaseFacts DEF FileInv, PageNo
  <2> QED BY <1>0, <2>4, <2>6, <2>7, <2>8 DEF IInv, MirrorInv
<1>6. CASE /\ a \in Held
           /\ IF Held = {a} THEN frame' = <<>> /\ released' = {}
                            ELSE released' = released \union {a} /\ UNCHANGED frame
  <2>1. TypeOK'
    <3>1. frame' \in Seq([addr : Addr, slot : Slots]) /\ released' \in SUBSET Addr
      <4>1. <<>> \in Seq([addr : Addr, slot : Slots]) OBVIOUS
      <4> QED BY <1>1, <1>t, <1>6, <4>1 DEF TypeOK
    <3> QED BY <1>0, <1>1, <1>6, <3>1, PoolReleaseFacts DEF TypeOK
  <2>2. Held' = Held \ {a} BY <1>6 DEF Held, FrameAddrs
  <2>3. length' >= length /\ length \in Nat BY <1>0, <1>1, PoolReleaseFacts DEF TypeOK
  <2>4. FrameInv'
    <3>1. \A k \in DOMAIN frame : frame[k].addr <= length'
      <4>1. length' \in Int BY <2>1 DEF TypeOK
      <4> QED BY <1>1, <1>t, <2>3, <4>1 DEF FrameInv
    <3>2. CASE Held = {a} BY <3>2, <1>6, PoolAssumption DEF FrameInv, FrameAddrs
    <3>3. CASE Held # {a}
      <4>1. released' \subseteq FrameAddrs' BY <1>1, <1>6, <3>3 DEF FrameInv, FrameAddrs, Held
      <4>2. Held' # {} BY <1>6, <2>2, <3>3
      <4> QED BY <1>1, <1>6, <3>1, <3>3, <4>1, <4>2 DEF FrameInv
    <3> QED BY <3>2, <3>3
  <2>5. ASSUME NEW i \in Slots
        PROVE  IF Occupied(i)' THEN i \notin empty' /\ addrs'[i] = frame'[i + 1].addr
               ELSE i \in empty' /\ addrs'[i] = NoAddr /\ ref'[i] = 0
    <3>1. Occupied(i)' <=> Occupied(i) /\ frame[i + 1].addr # a
      BY <1>6 DEF Occupied, Held, FrameAddrs
    <3>2. Occupied(i)' => frame' = frame
      BY <1>6 DEF Occupied
    <3> QED BY <1>0, <1>1, <1>3, <3>1, <3>2, PoolReleaseFacts DEF MirrorInv
  <2>6. FileInv'
    BY <1>0, <1>1, <1>6, <2>2, <2>3, PoolReleaseFacts DEF FileInv, PageNo
  <2> QED BY <1>0, <2>1, <2>4, <2>5, <2>6 DEF IInv, MirrorInv
<1> QED BY <1>4, <1>5, <1>6 DEF Release

(* A store through a held pointer changes one slot and nothing else.        *)
LEMMA ModifyPreserves ==
  ASSUME IInv, NEW k \in DOMAIN frame, NEW v \in Val, Modify(k, v)
  PROVE  IInv'
<1>1. TypeOK /\ FrameInv /\ MirrorInv /\ FileInv /\ open BY DEF IInv, Modify
<1>2. UNCHANGED <<addrs, ref, empty, disk, length, open, frame, released>>
  BY DEF Modify, fileVars, callerVars
<1>3. pages' \in [Slots -> Val] BY <1>1 DEF Modify, TypeOK
<1> QED
  BY <1>1, <1>2, <1>3 DEF IInv, TypeOK, FrameInv, MirrorInv, FileInv, Occupied, Held, FrameAddrs

(* The page added to the file is one its caller holds.                      *)
LEMMA ExtendFilePreserves ==
  ASSUME IInv, ExtendFile
  PROVE  IInv'
<1>1. TypeOK /\ FrameInv /\ MirrorInv /\ FileInv /\ open BY DEF IInv, ExtendFile
<1>2. UNCHANGED <<pages, addrs, ref, empty, disk, open, frame, released>>
  BY DEF ExtendFile, poolVars, callerVars
<1>3. \A k \in DOMAIN frame : frame[k].addr \in Addr /\ frame[k].addr \in Int
  BY <1>1, FrameTypes
<1>4. length \in PageNo /\ length \in Held /\ length' = length + 1
  <2>1. length \in Addr BY <1>3 DEF ExtendFile, Held, FrameAddrs
  <2> QED BY <1>1, <2>1 DEF ExtendFile, TypeOK, Addr, NoAddr
<1>5. TypeOK' BY <1>1, <1>2, <1>4, PoolAssumption DEF TypeOK, PageNo
<1>6. FrameInv'
  <2>1. \A k \in DOMAIN frame : frame[k].addr <= length'
    BY <1>1, <1>3, <1>4 DEF FrameInv, PageNo
  <2> QED BY <1>1, <1>2, <2>1 DEF FrameInv, Held, FrameAddrs
<1>7. MirrorInv' BY <1>1, <1>2 DEF MirrorInv, Occupied
<1>8. FileInv'
  BY <1>1, <1>2, <1>4 DEF FileInv, Held, FrameAddrs, PageNo
<1> QED BY <1>1, <1>2, <1>5, <1>6, <1>7, <1>8 DEF IInv

(* Closing writes every held page, so that the file has no gap: each page   *)
(* of the file is on disk already or in a slot.                             *)
LEMMA ClosePreserves ==
  ASSUME IInv, Close
  PROVE  IInv'
<1>1. TypeOK /\ FrameInv /\ MirrorInv /\ FileInv /\ open BY DEF IInv, Close
<1>2. UNCHANGED <<pages, addrs, ref, empty>> BY DEF Close, poolVars
<1>3. \A a \in PageNo : a \in Held <=> \E i \in Slots : addrs[i] = a
  <2> SUFFICES ASSUME NEW a \in PageNo PROVE a \in Held <=> \E i \in Slots : addrs[i] = a
    OBVIOUS
  <2>1. ASSUME a \in Held PROVE \E i \in Slots : addrs[i] = a
    <3>1. PICK k \in DOMAIN frame : frame[k].addr = a /\ a \notin released
      BY <2>1 DEF Held, FrameAddrs
    <3>2. k - 1 \in Slots /\ k - 1 + 1 = k
      BY <1>1, <3>1, FrameTypes, PoolAssumption DEF FrameInv, Slots
    <3> QED BY <1>1, <3>1, <3>2 DEF MirrorInv, Occupied
  <2>2. ASSUME NEW i \in Slots, addrs[i] = a PROVE a \in Held
    BY <1>1, <2>2 DEF MirrorInv, Occupied, Held, FrameAddrs, PageNo, NoAddr
  <2> QED BY <2>1, <2>2
<1>4. \A a \in PageNo : Mapped(a) # {} => LastOf(Mapped(a)) \in Slots
  <2> SUFFICES ASSUME NEW a \in PageNo, NEW i \in Slots, addrs[i] = a
               PROVE  LastOf(Mapped(a)) \in Slots
    BY DEF Mapped
  <2>1. ASSUME NEW j \in Slots, addrs[j] = a PROVE j = i
    <3>1. /\ Occupied(i) /\ frame[i + 1].addr = a
          /\ Occupied(j) /\ frame[j + 1].addr = a
      BY <1>1, <2>1 DEF MirrorInv, PageNo, NoAddr
    <3>2. i + 1 = j + 1 BY <1>1, <3>1 DEF FrameInv, Occupied
    <3> QED BY <3>2 DEF Slots
  <2>2. Mapped(a) = {i} BY <2>1 DEF Mapped
  <2> QED BY <2>2 DEF LastOf, Slots
<1>5. disk' \in [PageNo -> Val \union {NoData}]
  BY <1>1, <1>4 DEF Close, TypeOK, Writable
<1>6. length' = 0 /\ open' = FALSE /\ frame' = <<>> /\ released' = {}
  BY DEF Close
<1>7. TypeOK'
  <2>1. frame' \in Seq([addr : Addr, slot : Slots]) BY <1>6
  <2>2. length' \in 0 .. MaxPages /\ released' \in SUBSET Addr
    BY <1>6, PoolAssumption
  <2>3. open' \in BOOLEAN BY <1>6
  <2> QED BY <1>1, <1>2, <1>5, <2>1, <2>2, <2>3 DEF TypeOK
<1>8. \A a, b \in PageNo : disk'[a] # NoData /\ b <= a => disk'[b] # NoData
  <2> SUFFICES ASSUME NEW a \in PageNo, NEW b \in PageNo, disk'[a] # NoData, b <= a, b # a
               PROVE  disk'[b] # NoData
    OBVIOUS
  <2>1. length \in Nat BY <1>1 DEF TypeOK
  <2>2. a <= length BY <1>1, <2>1 DEF Close, Writable, FileInv, PageNo
  <2>3. b < length BY <2>1, <2>2 DEF PageNo
  <2>4. CASE b \in Held
    <3>1. Writable(b) BY <1>3, <2>1, <2>3, <2>4 DEF Writable, Mapped, PageNo
    <3>2. pages[LastOf(Mapped(b))] \in Val BY <1>1, <1>4, <3>1 DEF Writable, TypeOK
    <3> QED BY <3>1, <3>2, PoolAssumption DEF Close
  <2>5. CASE b \notin Held
    <3>1. ~Writable(b) BY <1>3, <2>5 DEF Writable, Mapped
    <3> QED BY <1>1, <2>3, <2>5, <3>1 DEF Close, FileInv
  <2> QED BY <2>4, <2>5
<1> QED BY <1>6, <1>7, <1>8 DEF IInv, ClosedInv

(* Every set of numbers has a smallest one.                                 *)
LEMMA Smallest ==
  ASSUME NEW T, T \subseteq Nat, T # {}
  PROVE  \E n \in T : \A m \in T : n <= m
<1>1. PICK n \in T : \A m \in T : <<m, n>> \notin OpToRel(<, Nat)
  BY NatLessThanWellFounded, WFMin
<1>2. \A m \in T : ~(m < n) BY <1>1 DEF OpToRel
<1> QED BY <1>2

(* Whatever the file holds, init_buffer_pool finds its end.                  *)
LEMMA FileHasEnd ==
  /\ FileEnd \in 0 .. MaxPages
  /\ \A a \in PageNo : disk[a] # NoData => a < FileEnd
  /\ FileEnd = 0 \/ disk[FileEnd - 1] # NoData
<1> DEFINE T == {n \in 0 .. MaxPages : \A a \in PageNo : disk[a] # NoData => a < n}
           IsEnd(n) == /\ \A a \in PageNo : disk[a] # NoData => a < n
                       /\ n = 0 \/ disk[n - 1] # NoData
<1>1. MaxPages \in T BY PoolAssumption DEF PageNo
<1>2. PICK n \in T : \A m \in T : n <= m
  <2>1. T \subseteq Nat /\ T # {} BY <1>1
  <2> HIDE DEF T
  <2> QED BY <2>1, Smallest
<1>3. n = 0 \/ disk[n - 1] # NoData
  <2> SUFFICES ASSUME n # 0, disk[n - 1] = NoData PROVE FALSE
    OBVIOUS
  <2>1. n - 1 \in 0 .. MaxPages BY <1>2, PoolAssumption
  <2>2. \A a \in PageNo : disk[a] # NoData => a < n - 1 BY <1>2 DEF PageNo
  <2> QED BY <1>2, <2>1, <2>2
<1>4. \E m \in 0 .. MaxPages : IsEnd(m) BY <1>2, <1>3
<1> QED BY <1>4 DEF FileEnd

(* The length init_buffer_pool reads from a file without gaps is the number *)
(* of its pages.                                                            *)
LEMMA FileEndFacts ==
  ASSUME TypeOK, ClosedInv
  PROVE  FileEnd \in 0 .. MaxPages /\ \A a \in PageNo : disk[a] # NoData <=> a < FileEnd
<1>1. /\ FileEnd \in 0 .. MaxPages
      /\ \A a \in PageNo : disk[a] # NoData => a < FileEnd
      /\ FileEnd = 0 \/ disk[FileEnd - 1] # NoData
  BY FileHasEnd
<1>2. \A a \in PageNo : a < FileEnd => disk[a] # NoData
  <2> SUFFICES ASSUME NEW a \in PageNo, a < FileEnd PROVE disk[a] # NoData
    OBVIOUS
  <2>1. FileEnd - 1 \in PageNo /\ a <= FileEnd - 1 /\ FileEnd # 0
    BY <1>1, PoolAssumption DEF PageNo
  <2> QED BY <1>1, <2>1 DEF ClosedInv
<1> QED BY <1>1, <1>2

(* Opening an existing file starts with empty slots.                        *)
LEMMA OpenPreserves ==
  ASSUME IInv, Open
  PROVE  IInv'
<1>1. TypeOK /\ ClosedInv BY DEF IInv, Open
<1>2. UNCHANGED <<disk, frame, released>> BY DEF Open, callerVars
<1>3. length' \in 0 .. MaxPages /\ \A a \in PageNo : disk[a] # NoData <=> a < length'
  BY <1>1, FileEndFacts DEF Open
<1>4. pages' \in [Slots -> Val]
  <2>1. \A i \in Slots : i < FileEnd => i \in PageNo
    BY <1>1, FileEndFacts, PoolAssumption DEF Slots, PageNo
  <2> QED BY <1>1, <2>1 DEF Open, TypeOK
<1>5. TypeOK' BY <1>1, <1>2, <1>3, <1>4 DEF Open, TypeOK, Addr
<1>6. FrameInv' BY <1>1, <1>2, PoolAssumption DEF FrameInv, FrameAddrs, ClosedInv
<1>7. MirrorInv' BY <1>1, <1>2 DEF MirrorInv, Occupied, ClosedInv, Open
<1>8. FileInv' BY <1>1, <1>2, <1>3 DEF FileInv
<1> QED BY <1>5, <1>6, <1>7, <1>8 DEF IInv, Open

-----------------------------------------------------------------------------
(* The theorems.                                                           *)

(* Every step preserves the invariant.                                      *)
LEMMA NextPreserves == IInv /\ [Next]_vars => IInv'
<1> SUFFICES ASSUME IInv, [Next]_vars PROVE IInv'
  OBVIOUS
<1>1. ASSUME NEW a \in Addr, Get(a) PROVE IInv' BY <1>1, GetPreserves
<1>2. ASSUME NEW a \in Addr, Release(a) PROVE IInv' BY <1>2, ReleasePreserves
<1>3. ASSUME NEW k \in DOMAIN frame, NEW v \in Val, Modify(k, v) PROVE IInv'
  BY <1>3, ModifyPreserves
<1>4. CASE ExtendFile BY <1>4, ExtendFilePreserves
<1>5. CASE Close BY <1>5, ClosePreserves
<1>6. CASE Open BY <1>6, OpenPreserves
<1>7. CASE UNCHANGED vars
  BY <1>7 DEF vars, poolVars, fileVars, callerVars, IInv, TypeOK, FrameInv, MirrorInv,
              FileInv, ClosedInv, Occupied, Held, FrameAddrs
<1> QED BY <1>1, <1>2, <1>3, <1>4, <1>5, <1>6, <1>7 DEF Next

(* The slots mirror the caller's frame in every reachable state, however    *)
(* many slots, pages and contents there are (get_page, release).            *)
THEOREM SlotsMirrorFrame == Spec => []IInv
  BY InitIInv, NextPreserves, PTL DEF Spec

(* The pool's arrays keep their types.                                      *)
THEOREM TypeCorrect == Spec => []TypeOK
<1>1. IInv => TypeOK BY DEF IInv
<1> QED BY <1>1, SlotsMirrorFrame, PTL

(* A page stays in the slot get_page returned until it is released: the     *)
(* frame's k-th page is in slot k - 1, and only MaxPins slots are in use.   *)
THEOREM PagesStayPinned == Spec => []PinnedPages
<1>1. IInv => PinnedPages
  <2> SUFFICES ASSUME IInv, NEW k \in DOMAIN frame, frame[k].addr \notin released
               PROVE  frame[k].slot \in Slots \ empty /\ addrs[frame[k].slot] = frame[k].addr
    BY DEF PinnedPages
  <2>1. open BY DEF IInv, ClosedInv
  <2>2. TypeOK /\ FrameInv /\ MirrorInv BY <2>1 DEF IInv
  <2>3. k - 1 \in Slots /\ k - 1 + 1 = k /\ frame[k].slot = k - 1
    BY <2>2, FrameTypes, PoolAssumption DEF FrameInv, Slots
  <2> QED BY <2>2, <2>3 DEF MirrorInv, Occupied
<1> QED BY <1>1, SlotsMirrorFrame, PTL

(* No page is cached in two slots: slots in use hold distinct pages of the  *)
(* frame.                                                                   *)
THEOREM NoSecondCopy == Spec => []OneSlotPerPage
<1>1. IInv => OneSlotPerPage
  <2> SUFFICES ASSUME IInv, open, NEW i \in Slots \ empty, NEW j \in Slots \ empty,
                      addrs[i] = addrs[j]
               PROVE  i = j
    BY DEF OneSlotPerPage
  <2>1. FrameInv /\ MirrorInv BY DEF IInv
  <2>2. Occupied(i) /\ Occupied(j) BY <2>1 DEF MirrorInv
  <2>3. frame[i + 1].addr = frame[j + 1].addr BY <2>1, <2>2 DEF MirrorInv
  <2>4. i + 1 = j + 1 BY <2>1, <2>2, <2>3 DEF FrameInv, Occupied
  <2> QED BY <2>4 DEF Slots
<1> QED BY <1>1, SlotsMirrorFrame, PTL

(* The pool is never full, so get_page takes none of the paths that treat   *)
(* the last slot apart: the eviction, the exchange and &pages[-1].          *)
THEOREM LastSlotStaysFree == Spec => []LastSlotUnused
<1>1. IInv => LastSlotUnused
  BY LastSlotFree DEF LastSlotUnused
<1> QED BY <1>1, SlotsMirrorFrame, PTL

-----------------------------------------------------------------------------
(* The refinement of PageStore: what the callers see of the pool.           *)

(* A page that is held is in one slot, the one its pointer leads to.        *)
HeldFacts ==
    \A a \in Held :
        /\ a \in Addr /\ a <= length
        /\ PtrTo(a) \in Slots
        /\ PtrTo(a) + 1 \in DOMAIN frame
        /\ frame[PtrTo(a) + 1].addr = a
        /\ frame[PtrTo(a) + 1].slot = PtrTo(a)
        /\ a \in PageNo => Mapped(a) = {PtrTo(a)} /\ LastOf(Mapped(a)) = PtrTo(a)

LEMMA HeldInv ==
  ASSUME IInv, open
  PROVE  HeldFacts
<1> SUFFICES ASSUME NEW a \in Held
             PROVE  /\ a \in Addr /\ a <= length
                    /\ PtrTo(a) \in Slots
                    /\ PtrTo(a) + 1 \in DOMAIN frame
                    /\ frame[PtrTo(a) + 1].addr = a
                    /\ frame[PtrTo(a) + 1].slot = PtrTo(a)
                    /\ a \in PageNo => Mapped(a) = {PtrTo(a)} /\ LastOf(Mapped(a)) = PtrTo(a)
  BY DEF HeldFacts
<1>0. TypeOK /\ FrameInv /\ MirrorInv BY DEF IInv
<1>1. PICK k \in DOMAIN frame : frame[k].addr = a /\ a \notin released
  BY DEF Held, FrameAddrs
<1>2. (CHOOSE j \in DOMAIN frame : frame[j].addr = a) = k
  BY <1>0, <1>1 DEF FrameInv
<1>3. PtrTo(a) = k - 1 /\ k - 1 \in Slots /\ k - 1 + 1 = k /\ a \in Addr /\ a <= length
  <2>1. frame[k].slot = k - 1 /\ frame[k].addr <= length /\ Len(frame) <= MaxPins
    BY <1>0 DEF FrameInv
  <2>2. PtrTo(a) = frame[k].slot BY <1>2 DEF PtrTo
  <2>3. /\ k \in Nat /\ 1 <= k /\ k <= Len(frame) /\ Len(frame) \in Nat
        /\ frame[k].addr \in Addr
    BY <1>0, FrameTypes
  <2>4. k - 1 \in Slots BY <2>1, <2>3, PoolAssumption DEF Slots
  <2> QED BY <1>1, <2>1, <2>2, <2>3, <2>4
<1>4. ASSUME a \in PageNo PROVE Mapped(a) = {k - 1} /\ LastOf(Mapped(a)) = k - 1
  <2>1. addrs[k - 1] = a BY <1>0, <1>1, <1>3 DEF MirrorInv, Occupied
  <2>2. ASSUME NEW i \in Slots, addrs[i] = a PROVE i = k - 1
    <3>1. Occupied(i) /\ frame[i + 1].addr = a
      BY <1>0, <1>4, <2>2 DEF MirrorInv, PageNo, NoAddr
    <3>2. i + 1 = k BY <1>0, <1>1, <3>1 DEF FrameInv, Occupied
    <3> QED BY <3>2 DEF Slots
  <2>3. Mapped(a) = {k - 1} BY <1>3, <2>1, <2>2 DEF Mapped
  <2> QED BY <1>3, <2>3 DEF LastOf, Slots
<1> QED BY <1>0, <1>1, <1>3, <1>4 DEF FrameInv

(* No slot of an open pool has the address of a page that is not held.      *)
LEMMA UnheldUnmapped ==
  ASSUME IInv, open, NEW a \in PageNo, a \notin Held
  PROVE  Mapped(a) = {}
  BY DEF IInv, MirrorInv, Mapped, Occupied, Held, FrameAddrs, PageNo, NoAddr

(* A pointer is found in any frame with the page in just one place.         *)
LEMMA PtrPrime ==
  ASSUME NEW k \in DOMAIN frame', NEW a, frame'[k].addr = a,
         \A j \in DOMAIN frame' : frame'[j].addr = a => j = k
  PROVE  PtrTo(a)' = frame'[k].slot
<1>1. (CHOOSE j \in DOMAIN frame' : frame'[j].addr = a) = k OBVIOUS
<1> QED BY <1>1 DEF PtrTo

(* A pointer stays what it is while its page keeps its place in the frame.  *)
LEMMA PtrKept ==
  ASSUME IInv, IInv', open, open', NEW a \in Held, PtrTo(a) + 1 \in DOMAIN frame',
         frame'[PtrTo(a) + 1] = frame[PtrTo(a) + 1]
  PROVE  PtrTo(a)' = PtrTo(a)
<1> DEFINE k == PtrTo(a) + 1
<1>1. frame[k].addr = a /\ frame[k].slot = PtrTo(a)
  BY HeldInv DEF HeldFacts
<1>2. FrameInv' BY DEF IInv
<1>3. \A j \in DOMAIN frame' : frame'[j].addr = a => j = k
  BY <1>1, <1>2 DEF FrameInv
<1> HIDE DEF k
<1>4. frame'[k].addr = a /\ k \in DOMAIN frame' /\ frame'[k].slot = PtrTo(a)
  BY <1>1 DEF k
<1> QED BY <1>3, <1>4, PtrPrime

(* View at a page.                                                          *)
LEMMA ViewAt ==
  \A a \in PageNo : View[a] = IF a \in Held THEN pages[PtrTo(a)] ELSE disk[a]
  BY DEF View

LEMMA ViewAtPrime ==
  /\ \A a \in PageNo : View'[a] = IF a \in Held' THEN pages'[PtrTo(a)'] ELSE disk'[a]
  /\ View' = [a \in PageNo |-> View'[a]]
  BY DEF View

(* Two views that agree on every page are the same.                         *)
LEMMA ViewSame ==
  ASSUME \A a \in PageNo : View'[a] = View[a]
  PROVE  View' = View
  BY DEF View

(* A page is seen if the file has it or somebody holds it, and all pages    *)
(* before a held one are.                                                   *)
LEMMA ViewFacts ==
  ASSUME IInv, open
  PROVE  /\ \A a \in PageNo : a < length \/ a \in Held => View[a] # NoData /\ View[a] \in Val
         /\ \A a \in PageNo : a >= length /\ a \notin Held => View[a] = NoData
<1>0. TypeOK /\ FileInv /\ HeldFacts BY HeldInv DEF IInv
<1>1. ASSUME NEW a \in PageNo, a < length \/ a \in Held PROVE View[a] # NoData /\ View[a] \in Val
  <2>1. CASE a \in Held
    BY <1>0, <1>1, <2>1, ViewAt, PoolAssumption DEF TypeOK, HeldFacts
  <2>2. CASE a \notin Held
    BY <1>0, <1>1, <2>2, ViewAt DEF TypeOK, FileInv
  <2> QED BY <2>1, <2>2
<1>2. ASSUME NEW a \in PageNo, a >= length, a \notin Held PROVE View[a] = NoData
  <2>1. ~(a < length) BY <1>0, <1>2 DEF TypeOK, PageNo
  <2> QED BY <1>0, <1>2, <2>1, ViewAt DEF FileInv
<1> QED BY <1>1, <1>2

(* The store's pages are the file's.                                        *)
LEMMA SamePages == Promise!PageNo = PageNo /\ NoAddr \notin PageNo
  BY DEF Promise!PageNo, PageNo, NoAddr

-----------------------------------------------------------------------------
(* One lemma per action: what the callers see of it.                        *)

(* get_page changes the contents of no page of the file: the slot it fills  *)
(* shows what the file has.  The page behind the end appears with what the  *)
(* slot had.                                                                *)
LEMMA GetSeen ==
  ASSUME IInv, IInv', NEW a \in Addr, Get(a)
  PROVE  [Promise!Next]_(Promise!vars)
<1>0. /\ open /\ open' /\ released = {} /\ released' = {} /\ a <= length
      /\ TypeOK /\ FrameInv /\ FileInv
  BY DEF Get, GetPage, IInv
<1>1. ASSUME NEW i \in Slots, Load(i, a), frame' = Append(frame, [addr |-> a, slot |-> Handed(i)])
      PROVE  [Promise!Next]_(Promise!vars)
  <2>1. i = Len(frame) /\ a \notin Held BY <1>0, <1>1, FirstUsableSlot DEF Load
  <2>h. Handed(i) = i
    <3>1. a \in Held \/ Len(frame) < MaxPins BY DEF Get
    <3> QED BY <1>0, <1>1, <3>1, HandedSlot
  <2>2. /\ Len(frame) \in Nat /\ DOMAIN frame = 1 .. Len(frame)
        /\ DOMAIN frame' = 1 .. Len(frame) + 1
        /\ \A k \in DOMAIN frame : frame'[k] = frame[k]
        /\ frame'[Len(frame) + 1] = [addr |-> a, slot |-> i]
    BY <1>0, <1>1, <2>h, FrameTypes
  <2>3. Held' = Held \union {a} BY <1>0, <2>2 DEF Held, FrameAddrs
  <2>4. disk' = disk /\ length' = length BY <1>1 DEF Load
  <2>5. \A j \in Slots : j # i => pages'[j] = pages[j] BY <1>0, <1>1 DEF Load, TypeOK
  <2>6. PtrTo(a)' = i
    <3> DEFINE k == Len(frame) + 1
    <3>1. k \in DOMAIN frame' /\ frame'[k].addr = a /\ frame'[k].slot = i BY <2>2
    <3>2. \A j \in DOMAIN frame' : frame'[j].addr = a => j = k
      <4> HIDE DEF k
      <4>1. FrameInv' BY <1>0 DEF IInv
      <4> QED BY <3>1, <4>1 DEF FrameInv
    <3> HIDE DEF k
    <3> QED BY <3>1, <3>2, PtrPrime
  <2>7. ASSUME NEW b \in PageNo \ {a} PROVE View'[b] = View[b]
    <3>2. CASE b \in Held
      <4>1. /\ PtrTo(b) \in Slots /\ PtrTo(b) + 1 \in DOMAIN frame
        BY <1>0, <3>2, HeldInv DEF HeldFacts
      <4>2. PtrTo(b)' = PtrTo(b) BY <1>0, <2>2, <3>2, <4>1, PtrKept
      <4>3. PtrTo(b) # i BY <2>1, <2>2, <4>1 DEF Slots
      <4> QED BY <2>3, <2>5, <3>2, <4>1, <4>2, <4>3, ViewAt, ViewAtPrime
    <3>3. CASE b \notin Held BY <2>3, <2>4, <3>3, ViewAt, ViewAtPrime
    <3> QED BY <3>2, <3>3
  <2>8. CASE a \notin PageNo
    <3>1. View' = View BY <2>7, <2>8, ViewSame
    <3>2. a = NoAddr BY <2>8 DEF Addr
    <3> QED BY <2>3, <3>1, <3>2 DEF Promise!vars
  <2>9. CASE a \in PageNo
    <3> DEFINE v == pages'[i]
    <3>1. View'[a] = v BY <2>3, <2>6, <2>9, ViewAtPrime
    <3>2. v \in Val BY DEF IInv, TypeOK
    <3>3. View' = [View EXCEPT ![a] = v] BY <2>7, <2>9, <3>1 DEF View
    <3>4. (Held \ {NoAddr})' = (Held \ {NoAddr}) \union {a} BY <2>3, <2>9, SamePages
    <3>5. CASE a < length
      <4>1. disk[a] # NoData BY <1>0, <2>1, <2>9, <3>5 DEF FileInv
      <4>2. a \in 0 .. length - 1 BY <1>0, <2>9, <3>5 DEF PageNo, TypeOK
      <4>3. v = disk[a] BY <1>0, <1>1, <4>1, <4>2 DEF Load, ReadInto, TypeOK
      <4>4. View[a] = disk[a] BY <2>1, <2>9, ViewAt
      <4>5. View' = View BY <2>7, <3>1, <4>3, <4>4, ViewSame
      <4>6. Promise!Acquire(a) BY <3>4, <4>1, <4>4, <4>5 DEF Promise!Acquire
      <4> QED BY <2>9, <4>6, SamePages DEF Promise!Next
    <3>6. CASE ~(a < length)
      <4>1. a = length BY <1>0, <2>9, <3>6 DEF PageNo, TypeOK
      <4>2. View[a] = NoData BY <1>0, <2>1, <2>9, <4>1, ViewFacts DEF TypeOK
      <4>3. \A b \in Promise!PageNo : b < a => View[b] # NoData
        BY <1>0, <4>1, ViewFacts, SamePages
      <4> HIDE DEF v
      <4>4. Promise!Extend(a, v) BY <3>3, <3>4, <4>2, <4>3 DEF Promise!Extend
      <4> QED BY <2>9, <3>2, <4>4, SamePages DEF Promise!Next
    <3> QED BY <3>5, <3>6
  <2> QED BY <2>8, <2>9
<1>2. ASSUME NEW i \in Slots, Hit(i, a), UNCHANGED frame
      PROVE  [Promise!Next]_(Promise!vars)
  <2>1. UNCHANGED <<pages, disk, length, frame, released>> BY <1>0, <1>2 DEF Hit
  <2>2. Held' = Held /\ View' = View BY <2>1 DEF Held, FrameAddrs, View, PtrTo
  <2> QED BY <2>2 DEF Promise!vars
<1>3. ~Steal(a) BY <1>0, LastSlotFree DEF Steal
<1> QED BY <1>1, <1>2, <1>3 DEF Get, GetPage

(* release gives a page back as its holder left it, the page behind the end *)
(* of the file included.                                                    *)
LEMMA ReleaseSeen ==
  ASSUME IInv, IInv', NEW a \in Addr, Release(a)
  PROVE  [Promise!Next]_(Promise!vars)
<1>0. open /\ open' /\ TypeOK /\ FrameInv /\ FileInv /\ PoolRelease(a) /\ pages' = pages
  BY DEF Release, IInv, PoolRelease
<1>1. CASE a \notin Held /\ UNCHANGED <<frame, released>>
  <2>1. disk' = disk /\ length' = length BY <1>0, <1>1, PoolReleaseFacts
  <2>2. Held' = Held /\ View' = View BY <1>0, <1>1, <2>1 DEF Held, FrameAddrs, View, PtrTo
  <2> QED BY <2>2 DEF Promise!vars
<1>2. CASE a \in Held
  <2>1. /\ Held' = Held \ {a}
        /\ \A b \in Held \ {a} : PtrTo(b) + 1 \in DOMAIN frame'
                                 /\ frame'[PtrTo(b) + 1] = frame[PtrTo(b) + 1]
    <3>1. CASE /\ released = {} /\ a = frame[Len(frame)].addr
               /\ frame' = SubSeq(frame, 1, Len(frame) - 1) /\ UNCHANGED released
      <4>1. /\ Len(frame) \in Nat \ {0} /\ DOMAIN frame = 1 .. Len(frame)
            /\ DOMAIN frame' = 1 .. Len(frame) - 1
            /\ \A k \in 1 .. Len(frame) - 1 : frame'[k] = frame[k]
        <5>1. frame # <<>> BY <1>2 DEF Held, FrameAddrs
        <5>2. frame \in Seq([addr : Addr, slot : Slots]) BY <1>0 DEF TypeOK
        <5> QED BY <3>1, <5>1, <5>2, PopFacts
      <4>2. ASSUME NEW b \in Held \ {a}
            PROVE  PtrTo(b) + 1 \in 1 .. Len(frame) - 1
        <5>1. PtrTo(b) + 1 \in DOMAIN frame /\ frame[PtrTo(b) + 1].addr = b
          BY <1>0, HeldInv DEF HeldFacts
        <5>2. PtrTo(b) + 1 # Len(frame) BY <3>1, <5>1
        <5> QED BY <4>1, <5>1, <5>2
      <4>3. Held' = Held \ {a}
        <5>1. ASSUME NEW k \in 1 .. Len(frame) - 1 PROVE frame[k].addr # a
          <6>0. Len(frame) \in Nat \ {0} BY <4>1
          <6>1. k \in 1 .. Len(frame) /\ Len(frame) \in 1 .. Len(frame) /\ k # Len(frame)
            BY <6>0
          <6> QED BY <1>0, <3>1, <4>1, <6>1 DEF FrameInv
        <5>2. FrameAddrs' = {frame[k].addr : k \in 1 .. Len(frame) - 1}
          BY <4>1 DEF FrameAddrs
        <5>3. FrameAddrs = {frame[k].addr : k \in 1 .. Len(frame) - 1} \union {a}
          <6>1. 1 .. Len(frame) = (1 .. Len(frame) - 1) \union {Len(frame)} BY <4>1
          <6> QED BY <3>1, <4>1, <6>1 DEF FrameAddrs
        <5> QED BY <3>1, <5>1, <5>2, <5>3, Zenon DEF Held
      <4> QED BY <4>1, <4>2, <4>3
    <3>2. CASE IF Held = {a} THEN frame' = <<>> /\ released' = {}
                             ELSE released' = released \union {a} /\ UNCHANGED frame
      <4>1. CASE Held = {a} BY <3>2, <4>1 DEF Held, FrameAddrs
      <4>2. CASE Held # {a}
        <5>1. Held' = Held \ {a} BY <3>2, <4>2 DEF Held, FrameAddrs
        <5> QED BY <1>0, <3>2, <4>2, <5>1, HeldInv DEF HeldFacts
      <4> QED BY <4>1, <4>2
    <3> QED BY <1>2, <3>1, <3>2 DEF Release
  <2>2. /\ \A b \in PageNo \ {a} : disk'[b] = disk[b]
        /\ a \in PageNo => disk'[a] = pages[PtrTo(a)]
    <3>1. CASE a \in PageNo
      <4>1. Writable(a) /\ LastOf(Mapped(a)) = PtrTo(a)
        <5>1. a <= length /\ Mapped(a) = {PtrTo(a)} /\ LastOf(Mapped(a)) = PtrTo(a)
          BY <1>0, <1>2, <3>1, HeldInv DEF HeldFacts
        <5> QED BY <1>0, <3>1, <5>1 DEF Writable, PageNo, TypeOK
      <4>2. disk' = [disk EXCEPT ![a] = pages[PtrTo(a)]] BY <1>0, <4>1 DEF PoolRelease, Flushed
      <4> QED BY <1>0, <3>1, <4>2 DEF TypeOK
    <3>2. CASE a \notin PageNo
      <4>1. ~Writable(a) BY <1>0, <3>2 DEF Writable, TypeOK, Addr, NoAddr
      <4>2. disk' = disk BY <1>0, <4>1 DEF PoolRelease, Flushed
      <4> QED BY <3>2, <4>2
    <3> QED BY <3>1, <3>2
  <2>3. ASSUME NEW b \in PageNo \ {a} PROVE View'[b] = View[b]
    <3>1. CASE b \in Held
      <4>1. PtrTo(b)' = PtrTo(b) BY <1>0, <2>1, <3>1, PtrKept
      <4> QED BY <1>0, <2>1, <2>2, <3>1, <4>1, ViewAt, ViewAtPrime
    <3>2. CASE b \notin Held BY <2>1, <2>2, <3>2, ViewAt, ViewAtPrime
    <3> QED BY <3>1, <3>2
  <2>4. CASE a \notin PageNo
    <3>1. View' = View BY <2>3, <2>4, ViewSame
    <3>2. a = NoAddr BY <2>4 DEF Addr
    <3> QED BY <2>1, <3>1, <3>2 DEF Promise!vars
  <2>5. CASE a \in PageNo
    <3>1. View'[a] = disk'[a] BY <2>1, <2>5, ViewAtPrime
    <3>2. View[a] = pages[PtrTo(a)] BY <1>2, <2>5, ViewAt
    <3>3. View' = View BY <2>2, <2>3, <2>5, <3>1, <3>2, ViewSame
    <3>4. (Held \ {NoAddr})' = (Held \ {NoAddr}) \ {a} BY <2>1
    <3>5. Promise!GiveBack(a) BY <3>3, <3>4 DEF Promise!GiveBack
    <3> QED BY <2>5, <3>5, SamePages DEF Promise!Next
  <2> QED BY <2>4, <2>5
<1> QED BY <1>1, <1>2 DEF Release

(* A store through a pointer changes the page it was got for and no other.  *)
LEMMA ModifySeen ==
  ASSUME IInv, IInv', NEW k \in DOMAIN frame, NEW v \in Val, Modify(k, v)
  PROVE  [Promise!Next]_(Promise!vars)
<1> DEFINE a == frame[k].addr
<1>0. /\ open /\ open' /\ TypeOK /\ FrameInv /\ a \in Held
      /\ UNCHANGED <<disk, length, frame, released>>
      /\ pages' = [pages EXCEPT ![frame[k].slot] = v]
  BY DEF Modify, fileVars, callerVars, IInv, Held, FrameAddrs
<1>1. Held' = Held /\ \A b : PtrTo(b)' = PtrTo(b)
  BY <1>0 DEF Held, FrameAddrs, PtrTo
<1>2. /\ a \in Addr /\ a <= length /\ PtrTo(a) \in Slots /\ PtrTo(a) = frame[k].slot
  <2>1. /\ a \in Addr /\ a <= length /\ PtrTo(a) \in Slots /\ PtrTo(a) + 1 \in DOMAIN frame
        /\ frame[PtrTo(a) + 1].addr = a /\ frame[PtrTo(a) + 1].slot = PtrTo(a)
    BY <1>0, HeldInv DEF HeldFacts
  <2>2. PtrTo(a) + 1 = k BY <1>0, <2>1 DEF FrameInv
  <2> QED BY <2>1, <2>2
<1> HIDE DEF a
<1>3. ASSUME NEW b \in PageNo \ {a} PROVE View'[b] = View[b]
  <2>1. CASE b \in Held
    <3>1. /\ PtrTo(b) \in Slots /\ PtrTo(b) + 1 \in DOMAIN frame
          /\ frame[PtrTo(b) + 1].addr = b /\ frame[PtrTo(b) + 1].slot = PtrTo(b)
      BY <1>0, <2>1, HeldInv DEF HeldFacts
    <3>2. PtrTo(b) # PtrTo(a)
      <4>1. PtrTo(a) + 1 \in DOMAIN frame /\ frame[PtrTo(a) + 1].addr = a
        BY <1>0, HeldInv DEF HeldFacts
      <4> QED BY <3>1, <4>1
    <3>3. pages'[PtrTo(b)] = pages[PtrTo(b)] BY <1>0, <1>2, <3>1, <3>2 DEF TypeOK
    <3> QED BY <1>0, <1>1, <3>3, ViewAt, ViewAtPrime
  <2>2. CASE b \notin Held BY <1>0, <1>1, <2>2, ViewAt, ViewAtPrime
  <2> QED BY <2>1, <2>2
<1>4. CASE a \in PageNo
  <2>1. View'[a] = v BY <1>0, <1>1, <1>2, <1>4, ViewAtPrime DEF TypeOK
  <2>2. View' = [View EXCEPT ![a] = v] BY <1>3, <1>4, <2>1 DEF View
  <2>3. a \in Held \ {NoAddr} BY <1>0, <1>4, SamePages
  <2>4. Promise!Put(a, v) BY <1>1, <2>2, <2>3 DEF Promise!Put
  <2> QED BY <1>4, <2>4, SamePages DEF Promise!Next
<1>5. CASE a \notin PageNo
  <2>1. View' = View BY <1>3, <1>5, ViewSame
  <2> QED BY <1>1, <2>1 DEF Promise!vars
<1> QED BY <1>4, <1>5

(* That a page is counted as part of the file is not seen: it was there.    *)
LEMMA ExtendFileSeen ==
  ASSUME ExtendFile
  PROVE  UNCHANGED Promise!vars
<1>1. UNCHANGED <<pages, disk, frame, released>> BY DEF ExtendFile, poolVars, callerVars
<1>2. Held' = Held /\ View' = View BY <1>1 DEF Held, FrameAddrs, View, PtrTo
<1> QED BY <1>2 DEF Promise!vars

(* Closing leaves every page as its holder left it, in the file.            *)
LEMMA CloseSeen ==
  ASSUME IInv, IInv', Close
  PROVE  [Promise!Next]_(Promise!vars)
<1>0. /\ open /\ TypeOK /\ FileInv /\ length' = 0 /\ frame' = <<>>
      /\ disk' = [a \in PageNo |-> IF Writable(a) THEN pages[LastOf(Mapped(a))] ELSE disk[a]]
  BY DEF Close, IInv
<1>1. Held' = {} BY <1>0 DEF Held, FrameAddrs
<1>2. ASSUME NEW a \in PageNo
      PROVE  View'[a] = IF a \in Held THEN pages[PtrTo(a)] ELSE disk[a]
  <2>1. View'[a] = disk'[a] BY <1>1, ViewAtPrime
  <2>2. CASE a \in Held
    <3>1. a <= length /\ Mapped(a) = {PtrTo(a)} /\ LastOf(Mapped(a)) = PtrTo(a)
      BY <1>0, <2>2, HeldInv DEF HeldFacts
    <3>2. Writable(a) BY <1>0, <3>1 DEF Writable, TypeOK, PageNo
    <3> QED BY <1>0, <2>1, <2>2, <3>1, <3>2
  <2>3. CASE a \notin Held
    BY <1>0, <2>1, <2>3, UnheldUnmapped DEF Writable
  <2> QED BY <2>2, <2>3
<1>3. View' = View BY <1>2, ViewAt, ViewSame
<1>4. Promise!Shut BY <1>1, <1>3 DEF Promise!Shut
<1> QED BY <1>4 DEF Promise!Next

(* A reopened file is seen as it was.                                       *)
LEMMA OpenSeen ==
  ASSUME IInv, Open
  PROVE  UNCHANGED Promise!vars
<1>1. frame = <<>> /\ UNCHANGED <<disk, frame, released>>
  BY DEF Open, callerVars, IInv, ClosedInv
<1>2. Held = {} /\ Held' = {} BY <1>1 DEF Held, FrameAddrs
<1>3. View' = View BY <1>1, <1>2 DEF View
<1> QED BY <1>2, <1>3 DEF Promise!vars

(* Every step is one of the promise, or is not seen.                        *)
LEMMA StepSeen == IInv /\ IInv' /\ [Next]_vars => [Promise!Next]_(Promise!vars)
<1> SUFFICES ASSUME IInv, IInv', [Next]_vars PROVE [Promise!Next]_(Promise!vars)
  OBVIOUS
<1>1. ASSUME NEW a \in Addr, Get(a) PROVE [Promise!Next]_(Promise!vars)
  BY <1>1, GetSeen
<1>2. ASSUME NEW a \in Addr, Release(a) PROVE [Promise!Next]_(Promise!vars)
  BY <1>2, ReleaseSeen
<1>3. ASSUME NEW k \in DOMAIN frame, NEW v \in Val, Modify(k, v)
      PROVE  [Promise!Next]_(Promise!vars)
  BY <1>3, ModifySeen
<1>4. CASE ExtendFile BY <1>4, ExtendFileSeen
<1>5. CASE Close BY <1>5, CloseSeen
<1>6. CASE Open BY <1>6, OpenSeen
<1>7. CASE UNCHANGED vars
  <2>1. Held' = Held /\ View' = View
    BY <1>7 DEF vars, poolVars, fileVars, callerVars, Held, FrameAddrs, View, PtrTo
  <2> QED BY <2>1 DEF Promise!vars
<1> QED BY <1>1, <1>2, <1>3, <1>4, <1>5, <1>6, <1>7 DEF Next

(* An empty file shows no page.                                             *)
LEMMA InitSeen == Init => Promise!Init
  BY DEF Init, Promise!Init, View, Held, FrameAddrs, Promise!PageNo, PageNo

(* The pool implements the array of pages its callers take it for: whatever *)
(* is cached, written back, closed and reopened in between, a page read     *)
(* through get_page has the contents last stored through a pointer to it,   *)
(* and a new page is in the file with them once it is released (get_page,   *)
(* release, close_buffer_pool, init_buffer_pool, write_page).               *)
THEOREM PoolIsTransparent == Spec => Transparent
<1>1. IInv /\ IInv' /\ [Next]_vars => [Promise!Next]_(Promise!vars) BY StepSeen
<1> QED BY <1>1, InitSeen, SlotsMirrorFrame, PTL DEF Spec, Transparent, Promise!Spec

-----------------------------------------------------------------------------
(* The pool under any caller.                                               *)

(* An empty slot has no address, and a page in a slot is one of the file's   *)
(* or the one behind its end.                                               *)
AnyInv ==
    /\ addrs \in [Slots -> Addr] /\ DOMAIN disk = PageNo
    /\ empty \subseteq Slots /\ length \in Nat
    /\ \A i \in empty : addrs[i] = NoAddr
    /\ open => \A i \in Slots : addrs[i] <= length

(* Addresses of pages are numbers other than -1.                             *)
LEMMA Addresses == Addr \subseteq Int /\ \A a \in PageNo : a \in Nat /\ a # NoAddr /\ a \in Addr
  BY PoolAssumption DEF PageNo, NoAddr, Addr

(* A release lengthens the file or leaves it.                               *)
LEMMA Lengthens ==
  ASSUME AnyInv, NEW a
  PROVE  Grown(a) \in Nat /\ Grown(a) >= length /\ DOMAIN Flushed(a) = PageNo
BY DEF AnyInv, Grown, Flushed

(* It holds at first, and every step keeps it.                              *)
LEMMA InitAny == Init => AnyInv
  BY PoolAssumption DEF Init, AnyInv, Addr, NoAddr, PageNo, Slots

LEMMA GetAny ==
  ASSUME AnyInv, NEW a \in PageNo, GetPage(a)
  PROVE  AnyInv'
<1>1. a \in Nat /\ a \in Addr /\ open /\ open' /\ a <= length BY Addresses DEF GetPage
<1>2. ASSUME NEW i \in Slots, Load(i, a) PROVE AnyInv'
  <2>1. i \in empty /\ addrs' = [addrs EXCEPT ![i] = a] /\ empty' = empty \ {i} /\ disk' = disk /\ length' = length
    BY <1>2 DEF Load
  <2>2. addrs' \in [Slots -> Addr] BY <1>1, <2>1 DEF AnyInv
  <2>3. \A k \in Slots : addrs'[k] = IF k = i THEN a ELSE addrs[k] BY <2>1 DEF AnyInv
  <2>4. \A k \in empty' : addrs'[k] = NoAddr BY <2>1, <2>3 DEF AnyInv
  <2>5. \A k \in Slots : addrs'[k] <= length' BY <1>1, <2>1, <2>3 DEF AnyInv
  <2> QED BY <2>1, <2>2, <2>4, <2>5 DEF AnyInv
<1>3. ASSUME NEW i \in Slots, Hit(i, a) PROVE AnyInv'
  <2>1. UNCHANGED <<addrs, empty, disk, length>> BY <1>3 DEF Hit
  <2> QED BY <1>1, <2>1 DEF AnyInv
<1>4. CASE Steal(a)
  <2> DEFINE b == addrs[Last]
  <2>1. /\ disk' = Flushed(b) /\ length' = Grown(b)
        /\ addrs' = [i \in Slots |-> IF i = Last THEN a ELSE IF addrs[i] = b THEN NoAddr ELSE addrs[i]]
        /\ empty' = Mapped(b) \ {Last}
    BY <1>4 DEF Steal
  <2> HIDE DEF b
  <2>2. length' \in Nat /\ length' >= length /\ DOMAIN disk' = PageNo /\ length \in Nat
    BY <2>1, Lengthens DEF AnyInv
  <2>3. addrs' \in [Slots -> Addr] BY <1>1, <2>1 DEF AnyInv, Addr
  <2>4. empty' \subseteq Slots /\ \A k \in empty' : addrs'[k] = NoAddr BY <2>1 DEF Mapped
  <2>5. ASSUME NEW k \in Slots PROVE addrs'[k] <= length'
    <3>1. addrs'[k] = a \/ addrs'[k] = NoAddr \/ addrs'[k] = addrs[k] BY <2>1
    <3>2. addrs[k] <= length /\ addrs[k] \in Int BY <1>1, Addresses DEF AnyInv
    <3>3. NoAddr <= length BY <2>2 DEF NoAddr
    <3>4. addrs'[k] <= length /\ addrs'[k] \in Int BY <1>1, <3>1, <3>2, <3>3 DEF NoAddr
    <3> QED BY <2>2, <3>4
  <2> QED BY <2>2, <2>3, <2>4, <2>5 DEF AnyInv
<1> QED BY <1>2, <1>3, <1>4 DEF GetPage

LEMMA ReleaseAny ==
  ASSUME AnyInv, NEW a \in PageNo, AnyRelease(a)
  PROVE  AnyInv'
<1>1. /\ disk' = Flushed(a) /\ length' = Grown(a) /\ open /\ open'
      /\ addrs' = [i \in Slots |-> IF addrs[i] = a THEN NoAddr ELSE addrs[i]]
      /\ empty' = empty \union Mapped(a)
  BY DEF AnyRelease, PoolRelease
<1>2. length' \in Nat /\ length' >= length /\ DOMAIN disk' = PageNo /\ length \in Nat
  BY <1>1, Lengthens DEF AnyInv
<1>3. addrs' \in [Slots -> Addr] BY <1>1 DEF AnyInv, Addr
<1>4. empty' \subseteq Slots /\ \A k \in empty' : addrs'[k] = NoAddr BY <1>1 DEF AnyInv, Mapped
<1>5. ASSUME NEW k \in Slots PROVE addrs'[k] <= length'
  <2>1. addrs'[k] = NoAddr \/ addrs'[k] = addrs[k] BY <1>1
  <2>2. addrs[k] <= length /\ addrs[k] \in Int BY <1>1, Addresses DEF AnyInv
  <2>3. NoAddr <= length BY <1>2 DEF NoAddr
  <2>4. addrs'[k] <= length /\ addrs'[k] \in Int BY <2>1, <2>2, <2>3 DEF NoAddr
  <2> QED BY <1>2, <2>4
<1> QED BY <1>2, <1>3, <1>4, <1>5 DEF AnyInv

LEMMA NextAny == AnyInv /\ [AnyNext]_vars => AnyInv'
<1> SUFFICES ASSUME AnyInv, [AnyNext]_vars PROVE AnyInv' OBVIOUS
<1>1. ASSUME NEW a \in PageNo, AnyGet(a) PROVE AnyInv' BY <1>1, GetAny DEF AnyGet
<1>2. ASSUME NEW a \in PageNo, AnyRelease(a) PROVE AnyInv' BY <1>2, ReleaseAny
<1>3. ASSUME NEW k \in DOMAIN frame, NEW v \in Val, AnyModify(k, v) PROVE AnyInv'
  BY <1>3 DEF AnyModify, Modify, fileVars, AnyInv
<1>4. CASE Close
  <2>1. /\ UNCHANGED <<addrs, empty>> /\ length' = 0 /\ open' = FALSE
        /\ disk' = [a \in PageNo |-> IF Writable(a) THEN pages[LastOf(Mapped(a))] ELSE disk[a]]
    BY <1>4 DEF Close, poolVars
  <2> QED BY <2>1 DEF AnyInv
<1>5. CASE Open
  <2>1. /\ addrs' = [i \in Slots |-> NoAddr] /\ empty' = Slots /\ disk' = disk /\ length' = FileEnd
    BY <1>5 DEF Open
  <2>2. length' \in Nat BY <2>1, FileHasEnd, PoolAssumption
  <2>3. NoAddr \in Addr /\ NoAddr <= length' BY <2>2 DEF NoAddr, Addr
  <2> QED BY <2>1, <2>2, <2>3 DEF AnyInv
<1>6. CASE UNCHANGED vars BY <1>6 DEF vars, poolVars, fileVars, AnyInv
<1> QED BY <1>1, <1>2, <1>3, <1>4, <1>5, <1>6 DEF AnyNext

(* What release writes of a page that is in a slot.                          *)
LEMMA FlushedIs ==
  ASSUME AnyInv, open, NEW a \in PageNo, Mapped(a) # {}
  PROVE  Writable(a) /\ Flushed(a)[a] = pages[LastOf(Mapped(a))]
<1>1. PICK i \in Slots : addrs[i] = a BY DEF Mapped
<1>2. a \in Nat /\ length \in Nat /\ a <= length BY <1>1, Addresses DEF AnyInv
<1>3. Writable(a) BY <1>2 DEF Writable
<1> QED BY <1>3 DEF Flushed, AnyInv

(* A page leaves the pool only by its slot being written, whatever a caller *)
(* does short of a store outside the pool: get_page that finds the pool      *)
(* full, release and close_buffer_pool write back what they take out.       *)
THEOREM NothingUnwritten == AnySpec => EvictionWritesBack
<1> DEFINE Written == \A a \in PageNo : open /\ Mapped(a) # {} /\ (open' => Mapped(a)' = {})
                                           => disk'[a] = pages[LastOf(Mapped(a))]
<1>1. AnyInv /\ [AnyNext]_vars => Written
  <2> SUFFICES ASSUME AnyInv, [AnyNext]_vars, NEW a \in PageNo,
                      open, Mapped(a) # {}, open' => Mapped(a)' = {}
               PROVE  disk'[a] = pages[LastOf(Mapped(a))]
    OBVIOUS
  <2>1. a # NoAddr /\ Writable(a) /\ Flushed(a)[a] = pages[LastOf(Mapped(a))]
    BY FlushedIs, Addresses
  <2>2. PICK i \in Slots : addrs[i] = a BY DEF Mapped
  <2>3. i \notin empty BY <2>1, <2>2 DEF AnyInv
  <2>4. open' => \A k \in Slots : addrs'[k] # a BY DEF Mapped
  <2>5. ASSUME NEW b \in PageNo, AnyGet(b) PROVE disk'[a] = pages[LastOf(Mapped(a))]
    <3>1. open' BY <2>5 DEF AnyGet, GetPage
    <3>2. addrs'[i] # a BY <2>4, <3>1
    <3>3. ~(\E k \in Slots : Load(k, b))
      <4> SUFFICES ASSUME NEW k \in Slots, Load(k, b) PROVE FALSE OBVIOUS
      <4>1. k # i /\ addrs' = [addrs EXCEPT ![k] = b] BY <2>3 DEF Load
      <4>2. addrs'[i] = a BY <4>1, <2>2 DEF AnyInv
      <4> QED BY <4>2, <3>2
    <3>4. ~(\E k \in Slots : Hit(k, b))
      <4> SUFFICES ASSUME NEW k \in Slots, Hit(k, b) PROVE FALSE OBVIOUS
      <4>1. addrs' = addrs BY DEF Hit
      <4> QED BY <4>1, <2>2, <3>2
    <3>5. Steal(b) BY <2>5, <3>3, <3>4 DEF AnyGet, GetPage
    <3>6. addrs'[i] = IF i = Last THEN b ELSE IF addrs[i] = addrs[Last] THEN NoAddr ELSE addrs[i]
      BY <3>5 DEF Steal
    <3>7. addrs[Last] = a BY <2>2, <3>2, <3>6
    <3>8. disk' = Flushed(a) BY <3>5, <3>7 DEF Steal
    <3> QED BY <3>8, <2>1
  <2>6. ASSUME NEW b \in PageNo, AnyRelease(b) PROVE disk'[a] = pages[LastOf(Mapped(a))]
    <3>1. /\ open' /\ disk' = Flushed(b)
          /\ addrs' = [k \in Slots |-> IF addrs[k] = b THEN NoAddr ELSE addrs[k]]
      BY <2>6 DEF AnyRelease, PoolRelease
    <3>2. b = a BY <3>1, <2>2, <2>4
    <3> QED BY <3>1, <3>2, <2>1
  <2>7. ASSUME NEW k \in DOMAIN frame, NEW v \in Val, AnyModify(k, v) PROVE FALSE
    <3>1. open' /\ addrs' = addrs BY <2>7 DEF AnyModify, Modify, fileVars
    <3> QED BY <3>1, <2>2, <2>4
  <2>8. CASE Close
    <3>1. disk' = [b \in PageNo |-> IF Writable(b) THEN pages[LastOf(Mapped(b))] ELSE disk[b]]
      BY <2>8 DEF Close
    <3> QED BY <3>1, <2>1
  <2>9. ~Open BY DEF Open
  <2>10. CASE UNCHANGED vars
    <3>1. open' /\ addrs' = addrs BY <2>10 DEF vars, poolVars, fileVars
    <3> QED BY <3>1, <2>2, <2>4
  <2> QED BY <2>5, <2>6, <2>7, <2>8, <2>9, <2>10 DEF AnyNext
<1> QED BY <1>1, InitAny, NextAny, PTL DEF AnySpec, EvictionWritesBack
=============================================================================
