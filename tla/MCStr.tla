-------------------------------- MODULE MCStr --------------------------------
(* Str on strings over two characters. *)
EXTENDS Str, TLC

CONSTANT MaxLength   \* bound: length of a string

MCString == UNION {[1 .. n -> {1, 2}] : n \in 1 .. MaxLength}
RidSymmetry == Permutations(RID)
=============================================================================
