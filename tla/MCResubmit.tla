----------------------------- MODULE MCResubmit -----------------------------
(***************************************************************************)
(* Small instances of Resubmit for TLC.                                    *)
(***************************************************************************)
EXTENDS Resubmit, TLC

CONSTANTS a, b

Symmetry == Permutations(Values)

=============================================================================
