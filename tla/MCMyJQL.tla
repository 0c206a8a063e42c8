------------------------------- MODULE MCMyJQL -------------------------------
(* MyJQL on keys over three characters. *)
EXTENDS MyJQL

\* No key is another one and one character more.
MCKey == {<<1>>, <<1, 2, 1>>, <<2, 2>>, <<3>>, <<3, 1, 2>>}

\* Some are.
MCKeyClose == {<<1>>, <<1, 2>>, <<2, 1>>, <<2, 1, 3>>}

\* The first are keys the theorems are about; the others are not.
ASSUME MCKeys == KeysApart(MCKey) /\ ~KeysApart(MCKeyClose)

RidSymmetry == Permutations(RecordRID)
=============================================================================
