--------------------------------- MODULE Lex ---------------------------------
(***************************************************************************)
(* The order of keys: what compare_string_record promises (Str!             *)
(* CompareIsOrder) and comparerow relies on.                                *)
(***************************************************************************)
EXTENDS Integers, Sequences

\* Lexicographic: 1, -1 or 0; a proper prefix is smaller.
Order(s, t) ==
    LET differ == {i \in DOMAIN s \intersect DOMAIN t : s[i] # t[i]}
        i      == CHOOSE i \in differ : \A j \in differ : i <= j
        sign(x, y) == IF x > y THEN 1 ELSE IF x < y THEN -1 ELSE 0
    IN  IF differ = {} THEN sign(Len(s), Len(t)) ELSE sign(s[i], t[i])
=============================================================================
