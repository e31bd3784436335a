-------------------------------- MODULE Pick --------------------------------
(***************************************************************************)
(* The elements of a sequence at chosen places: what a loop with a         *)
(* condition keeps of what it goes through.                                *)
(***************************************************************************)
EXTENDS Naturals, FiniteSets, Sequences

\* The elements of s whose place is in I, in their order.
Picked(s, I) ==
    LET P == I \cap DOMAIN s
        Nth(k) == CHOOSE i \in P : Cardinality(P \cap 1..i) = k
    IN [k \in 1..Cardinality(P) |-> s[Nth(k)]]

=============================================================================
