------------------------------ MODULE PageStore ------------------------------
(***************************************************************************)
(* What a buffer pool promises its callers: one file seen as an array of    *)
(* pages.  A page has the contents its holder last put into it, whatever is *)
(* cached, written back, closed or reopened in between.  The file only      *)
(* grows, by the page behind its end, which somebody got: from then on that *)
(* page is there, with what its holder puts into it.                        *)
(***************************************************************************)
EXTENDS Integers

CONSTANTS MaxPages,  \* bound: pages a file may grow to
          Val,       \* contents of a page
          NoData     \* the "contents" of a page the file does not have

VARIABLES store,     \* store[a]: contents of page a
          owned      \* pages some caller holds

vars == <<store, owned>>

PageNo == 0 .. MaxPages - 1

Init == /\ store = [a \in PageNo |-> NoData]
        /\ owned = {}

\* A caller gets a page of the file: nothing in it changes.
Acquire(a) ==
    /\ store[a] # NoData
    /\ owned' = owned \union {a}
    /\ UNCHANGED store

\* A caller gets the page behind the end, which may have anything in it.
Extend(a, v) ==
    /\ store[a] = NoData
    /\ \A b \in PageNo : b < a => store[b] # NoData
    /\ store' = [store EXCEPT ![a] = v]
    /\ owned' = owned \union {a}

\* The holder of a page changes it.
Put(a, v) ==
    /\ a \in owned
    /\ store' = [store EXCEPT ![a] = v]
    /\ UNCHANGED owned

\* A page is given back as it is.
GiveBack(a) ==
    /\ owned' = owned \ {a}
    /\ UNCHANGED store

\* The file is closed under its holders, and keeps what they put into it.
Shut ==
    /\ owned' = {}
    /\ UNCHANGED store

Next ==
    \/ \E a \in PageNo : Acquire(a) \/ GiveBack(a)
    \/ \E a \in PageNo, v \in Val : Extend(a, v) \/ Put(a, v)
    \/ Shut

Spec == Init /\ [][Next]_vars
=============================================================================
