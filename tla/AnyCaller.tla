------------------------------ MODULE AnyCaller ------------------------------
(***************************************************************************)
(* The pool under a caller that follows no discipline: it gets any page of  *)
(* the file at any time, holds as many as it likes and releases them in any *)
(* order.  buffer_pool.h asks nothing more of a caller; the callers in this *)
(* repository are those of BufferPool.                                      *)
(*                                                                          *)
(* Two things such a caller can bring about have no meaning to model, since *)
(* the code then writes outside its arrays, and a step stops short of them: *)
(* the exchange with slot -1, which puts bytes of a page into addrs, and a  *)
(* store through &pages[-1], where the struct has the file's handle and     *)
(* length.                                                                  *)
(***************************************************************************)
EXTENDS BufferPool

CONSTANT MaxFrame    \* bound: pages the caller believes it holds

ASSUME FrameAssumption == MaxFrame \in Nat

\* get_page found the last slot a second time.
Exchange == ref[Last] > 1

AnyGet(a) ==
    /\ Len(frame) < MaxFrame
    /\ GetPage(a)
    /\ ~Exchange'

AnyModify(k, v) ==
    /\ frame[k].slot \in Slots
    /\ Modify(k, v)

AnyRelease(a) ==
    /\ open
    /\ PoolRelease(a)
    /\ frame' = SelectSeq(frame, LAMBDA p : p.addr # a)
    /\ UNCHANGED <<open, released>>

AnyNext ==
    \/ \E a \in PageNo : AnyGet(a) \/ AnyRelease(a)
    \/ \E k \in DOMAIN frame, v \in Val : AnyModify(k, v)
    \/ Close
    \/ Open

AnySpec == Init /\ [][AnyNext]_vars

\* Whatever a caller does, short of a store outside the pool, no slot loses a
\* page it was not written for: when a page leaves the pool, because a full pool
\* takes the last slot, at a release or a close, what its slot had is in the file
\* then.  (Where one page sits in two slots, the higher one is what is written.)
EvictionWritesBack ==
    [][\A a \in PageNo :
         open /\ Mapped(a) # {} /\ (open' => Mapped(a)' = {})
             => disk'[a] = pages[LastOf(Mapped(a))]]_vars
=============================================================================
