----------------------------- MODULE BufferPool -----------------------------
(***************************************************************************)
(* buffer_pool.c on top of file_io.c: a fixed array of page slots in front  *)
(* of one file.  Addresses are page numbers (the code's addr / PAGE_SIZE);  *)
(* NoAddr is the -1 that b_tree.c passes as "no father".  A slot's cnt (the *)
(* age counter) is left out: it only feeds `change', and only where a full   *)
(* pool hands out the last slot and does not use it.                        *)
(*                                                                          *)
(* frame and released are the caller's side: the pages it has got and not   *)
(* released, in the order it got them, with the slot get_page returned.     *)
(***************************************************************************)
EXTENDS Integers, Sequences, FiniteSets

CONSTANTS CACHE_PAGE,  \* slots of a pool (8 in buffer_pool.h)
          MaxPins,     \* most pages one caller holds at once (4 in this code)
          MaxPages,    \* bound: pages a file may grow to
          MaxRef,      \* bound: nested gets of one page
          Val,         \* contents of a page
          NoData       \* the contents of a page the file does not have

ASSUME PoolAssumption ==
    /\ CACHE_PAGE \in Nat \ {0}
    /\ MaxPins \in Nat
    /\ MaxPins < CACHE_PAGE   \* no caller in the repository fills a pool
    /\ MaxPages \in Nat
    /\ NoData \notin Val

NoAddr == -1
Slots  == 0 .. CACHE_PAGE - 1
Last   == CACHE_PAGE - 1        \* the slot the code names by the literal 7
Change == -1                    \* get_page's `change' wherever it is an index
PageNo == 0 .. MaxPages - 1
Addr   == {NoAddr} \union PageNo

VARIABLES pages,     \* pool->pages[i]: contents of slot i
          addrs,     \* pool->addrs[i]
          ref,       \* pool->ref[i]
          empty,     \* the slots with pool->empty[i] set
          disk,      \* the pages of the file
          length,    \* pool->file.length, in pages
          open,      \* between init_buffer_pool and close_buffer_pool
          frame,     \* caller: sequence of [addr, slot] in the order got
          released   \* caller: addresses of frame it has released out of order

poolVars   == <<pages, addrs, ref, empty>>
fileVars   == <<disk, length, open>>
callerVars == <<frame, released>>
vars       == <<poolVars, fileVars, callerVars>>

-----------------------------------------------------------------------------
(* File layer.                                                             *)

\* The pages of the file, as ftell sees its end.
FileEnd == CHOOSE n \in 0 .. MaxPages :
              /\ \A a \in PageNo : disk[a] # NoData => a < n
              /\ n = 0 \/ disk[n - 1] # NoData

\* read_page into slot i: a rejected or short read leaves the slot as it was.
ReadInto(i, a) ==
    IF a \in 0 .. length - 1 /\ disk[a] # NoData THEN disk[a] ELSE pages[i]

\* The slot whose write comes last when every slot of S is written in order.
LastOf(S) == CHOOSE i \in S : \A j \in S : j <= i

Mapped(a) == {i \in Slots : addrs[i] = a}

\* write_page accepts an address inside the file or just behind its end.
Writable(a) == a \in 0 .. length /\ Mapped(a) # {}

-----------------------------------------------------------------------------
(* The pool.                                                               *)

\* Mutant of FirstUsable: a cached page is not looked for.
FirstEmpty(i, a) ==
    /\ i \in empty
    /\ \A j \in 0 .. i - 1 : j \notin empty

\* get_page stops at the first slot that is empty or already holds a.
FirstUsable(i, a) ==
    /\ i \in empty \/ addrs[i] = a
    /\ \A j \in 0 .. i - 1 : j \notin empty /\ addrs[j] # a

\* Mutant of Load: the slot taken stays empty.
LoadStaysEmpty(i, a) ==
    /\ FirstUsable(i, a)
    /\ i \in empty
    /\ pages' = [pages EXCEPT ![i] = ReadInto(i, a)]
    /\ addrs' = [addrs EXCEPT ![i] = a]
    /\ ref'   = [ref EXCEPT ![i] = @ + 1]
    /\ UNCHANGED <<empty, disk, length>>

Load(i, a) ==
    /\ FirstUsable(i, a)
    /\ i \in empty
    /\ pages' = [pages EXCEPT ![i] = ReadInto(i, a)]
    /\ addrs' = [addrs EXCEPT ![i] = a]
    /\ ref'   = [ref EXCEPT ![i] = @ + 1]
    /\ empty' = empty \ {i}
    /\ UNCHANGED <<disk, length>>

Hit(i, a) ==
    /\ FirstUsable(i, a)
    /\ i \notin empty
    /\ ref[i] < MaxRef
    /\ ref' = [ref EXCEPT ![i] = @ + 1]
    /\ UNCHANGED <<pages, addrs, empty, disk, length>>

\* Mutants of Flushed and Grown: a new page is not written; any write
\* lengthens the file.
FlushedIfOld(a) == IF Writable(a) /\ a < length THEN [disk EXCEPT ![a] = pages[LastOf(Mapped(a))]] ELSE disk
GrownAlways(a)  == IF Writable(a) THEN length + 1 ELSE length

\* What releasing a leaves in the file, and the file's new length.
Flushed(a) == IF Writable(a) THEN [disk EXCEPT ![a] = pages[LastOf(Mapped(a))]] ELSE disk
Grown(a)   == IF Writable(a) /\ a = length THEN length + 1 ELSE length

\* Mutants of PoolRelease: a slot is renamed but not emptied; its references
\* are not forgotten.
ReleaseKeepsSlot(a) ==
    /\ disk'   = Flushed(a)
    /\ length' = Grown(a)
    /\ addrs'  = [i \in Slots |-> IF addrs[i] = a THEN NoAddr ELSE addrs[i]]
    /\ ref'    = [i \in Slots |-> IF addrs[i] = a THEN 0 ELSE ref[i]]
    /\ UNCHANGED <<pages, empty>>

ReleaseKeepsRef(a) ==
    /\ disk'   = Flushed(a)
    /\ length' = Grown(a)
    /\ addrs'  = [i \in Slots |-> IF addrs[i] = a THEN NoAddr ELSE addrs[i]]
    /\ empty'  = empty \union Mapped(a)
    /\ UNCHANGED <<pages, ref>>

\* release: every slot that holds a is written back and emptied.
PoolRelease(a) ==
    /\ disk'   = Flushed(a)
    /\ length' = Grown(a)
    /\ addrs'  = [i \in Slots |-> IF addrs[i] = a THEN NoAddr ELSE addrs[i]]
    /\ ref'    = [i \in Slots |-> IF addrs[i] = a THEN 0 ELSE ref[i]]
    /\ empty'  = empty \union Mapped(a)
    /\ UNCHANGED pages

\* Mutant of Steal: the last slot is renamed without being released.
StealUnwritten(a) ==
    /\ empty = {} /\ Mapped(a) = {}
    /\ addrs' = [addrs EXCEPT ![Last] = a]
    /\ ref'   = [ref EXCEPT ![Last] = 1]
    /\ UNCHANGED <<pages, empty, disk, length>>

\* A full pool: the last slot is released, renamed to a, and never read.
Steal(a) ==
    /\ empty = {} /\ Mapped(a) = {}
    /\ disk'   = Flushed(addrs[Last])
    /\ length' = Grown(addrs[Last])
    /\ addrs'  = [i \in Slots |-> IF i = Last THEN a
                                  ELSE IF addrs[i] = addrs[Last] THEN NoAddr ELSE addrs[i]]
    /\ ref'    = [i \in Slots |-> IF i = Last THEN 1
                                  ELSE IF addrs[i] = addrs[Last] THEN 0 ELSE ref[i]]
    /\ empty'  = Mapped(addrs[Last]) \ {Last}
    /\ UNCHANGED pages

\* The index of the page get_page returns when it has found slot i.  For the
\* last one it returns &pages[change], which lies in front of the array.
Handed(i) == IF i = Last THEN Change ELSE i

\* get_page as its caller sees it: the slot it returns joins the frame, unless
\* the caller holds the page already and is given the same slot again.  (The
\* last slot found a second time is exchanged with slot -1: see AnyCaller.)
GetPage(a) ==
    /\ open
    /\ a <= length
    /\ \/ \E i \in Slots : /\ Load(i, a)
                           /\ frame' = Append(frame, [addr |-> a, slot |-> Handed(i)])
       \/ \E i \in Slots : Hit(i, a) /\ UNCHANGED frame
       \/ Steal(a) /\ frame' = Append(frame, [addr |-> a, slot |-> Last])
    /\ UNCHANGED <<open, released>>

-----------------------------------------------------------------------------
(* The callers.  b_tree.c, hash_map.c and table.c use a pool in one way:    *)
(* a function takes at most MaxPins pages, gives them back last-got-first,  *)
(* and once it gives one back out of that order (removeitem, the do-loop of *)
(* hash_table_pop) it gets nothing more until it has given back the rest.   *)
(* hash_table_pop gets pages its caller already holds, and releases them.   *)

FrameAddrs == {frame[k].addr : k \in DOMAIN frame}
Held       == FrameAddrs \ released

Get(a) ==
    /\ released = {}
    /\ a \in Held \/ Len(frame) < MaxPins
    /\ GetPage(a)

Release(a) ==
    /\ open
    /\ PoolRelease(a)
    /\ \/ a \notin Held /\ UNCHANGED <<frame, released>>
       \/ /\ a \in Held
          /\ released = {}
          /\ a = frame[Len(frame)].addr
          /\ frame' = SubSeq(frame, 1, Len(frame) - 1)
          /\ UNCHANGED released
       \/ /\ a \in Held
          /\ released # {} \/ a # frame[Len(frame)].addr
          /\ IF Held = {a} THEN frame' = <<>> /\ released' = {}
                           ELSE released' = released \union {a} /\ UNCHANGED frame
    /\ UNCHANGED open

\* The caller stores through the pointer get_page returned.
Modify(k, v) ==
    /\ open
    /\ frame[k].addr \notin released
    /\ pages' = [pages EXCEPT ![frame[k].slot] = v]
    /\ UNCHANGED <<addrs, ref, empty, fileVars, callerVars>>

\* table_insert counts the page behind the end of the file as part of the
\* file while it still holds it.
ExtendFile ==
    /\ open
    /\ length \in Held
    /\ length' = length + 1
    /\ UNCHANGED <<poolVars, disk, open, callerVars>>

\* close_buffer_pool writes every slot to the address it has, in slot order.
Close ==
    /\ open
    /\ disk' = [a \in PageNo |-> IF Writable(a) THEN pages[LastOf(Mapped(a))] ELSE disk[a]]
    /\ length' = 0
    /\ open' = FALSE
    /\ frame' = <<>>
    /\ released' = {}
    /\ UNCHANGED poolVars

\* init_buffer_pool on an existing file: page i is read ahead into slot i,
\* which is nevertheless empty.
Open ==
    /\ ~open
    /\ open' = TRUE
    /\ length' = FileEnd
    /\ pages' = [i \in Slots |-> IF i < FileEnd /\ disk[i] # NoData THEN disk[i] ELSE pages[i]]
    /\ addrs' = [i \in Slots |-> NoAddr]
    /\ ref'   = [i \in Slots |-> 0]
    /\ empty' = Slots
    /\ UNCHANGED <<disk, callerVars>>

\* init_buffer_pool on a file that does not exist.
Init ==
    /\ pages \in {[i \in Slots |-> v] : v \in Val}
    /\ addrs = [i \in Slots |-> NoAddr]
    /\ ref   = [i \in Slots |-> 0]
    /\ empty = Slots
    /\ disk  = [a \in PageNo |-> NoData]
    /\ length = 0
    /\ open = TRUE
    /\ frame = <<>>
    /\ released = {}

Next ==
    \/ \E a \in Addr : Get(a) \/ Release(a)
    \/ \E k \in DOMAIN frame, v \in Val : Modify(k, v)
    \/ ExtendFile
    \/ Close
    \/ Open

Spec == Init /\ [][Next]_vars

-----------------------------------------------------------------------------
(* Properties.                                                             *)

\* Types; the pool's arrays keep one entry per slot.
TypeOK ==
    /\ pages \in [Slots -> Val]
    /\ addrs \in [Slots -> Addr]
    /\ ref   \in [Slots -> Nat]
    /\ empty \in SUBSET Slots
    /\ disk  \in [PageNo -> Val \union {NoData}]
    /\ length \in 0 .. MaxPages
    /\ open  \in BOOLEAN
    /\ frame \in Seq([addr : Addr, slot : Slots])
    /\ released \in SUBSET Addr

\* A page is where get_page said it is until its caller releases it: the pointer
\* leads into the pool, and never comes to mean another page, however gets and
\* releases of other pages rearrange the slots.
PinnedPages ==
    \A k \in DOMAIN frame :
        LET p == frame[k]
        IN  p.addr \notin released => p.slot \in Slots \ empty /\ addrs[p.slot] = p.addr

\* No page is cached twice, so there is no second copy for a write to miss.
\* get_page takes the first empty slot before it looks further for a copy.
OneSlotPerPage ==
    open => \A i, j \in Slots \ empty : addrs[i] = addrs[j] => i = j

\* Nested gets, however released, never come to the last slot, where get_page
\* evicts, exchanges slots by an index of -1, or returns &pages[-1].
LastSlotUnused == open => Last \in empty /\ ref[Last] = 0

\* The caller's view of the file: through its pointer where it holds a page, the
\* one behind the end of the file included, and in the file otherwise.
PtrTo(a) == frame[CHOOSE k \in DOMAIN frame : frame[k].addr = a].slot
View == [a \in PageNo |-> IF a \in Held THEN pages[PtrTo(a)] ELSE disk[a]]

Promise == INSTANCE PageStore WITH store <- View, owned <- Held \ {NoAddr}

\* The pool is transparent: what a caller reads through get_page is what was
\* last stored through any pointer to that page, across write-back, close and
\* reopen, and only the holder of a page changes it.  What is stored in a new
\* page is in the file once the page is released, which grows by it.
Transparent == Promise!Spec

-----------------------------------------------------------------------------
(* The inductive invariant: slot i always mirrors the i-th page of the      *)
(* caller's frame.                                                          *)

\* The frame is a stack of distinct pages in consecutive slots.
FrameInv ==
    /\ Len(frame) <= MaxPins
    /\ \A k \in DOMAIN frame : frame[k].slot = k - 1 /\ frame[k].addr <= length
    /\ \A j, k \in DOMAIN frame : frame[j].addr = frame[k].addr => j = k
    /\ released \subseteq FrameAddrs
    /\ released # {} => Held # {}

Occupied(i) == i + 1 \in DOMAIN frame /\ frame[i + 1].addr \notin released

\* A slot is in use exactly while the caller holds its page.
MirrorInv ==
    \A i \in Slots :
        IF Occupied(i) THEN i \notin empty /\ addrs[i] = frame[i + 1].addr
                       ELSE i \in empty /\ addrs[i] = NoAddr /\ ref[i] = 0

\* What no caller holds is on disk, and nothing is beyond the file's length.
FileInv ==
    \A a \in PageNo : /\ disk[a] # NoData => a < length
                      /\ a < length /\ a \notin Held => disk[a] # NoData

\* A closed file has no gaps and no holders.
ClosedInv ==
    /\ frame = <<>> /\ released = {} /\ length = 0
    /\ \A a, b \in PageNo : disk[a] # NoData /\ b <= a => disk[b] # NoData

\* The slots mirror the caller's frame, and every page of the file is either
\* held or on disk, at every point of any sequence of calls.
IInv ==
    /\ TypeOK
    /\ IF open THEN FrameInv /\ MirrorInv /\ FileInv ELSE ClosedInv
=============================================================================
