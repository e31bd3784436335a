----------------------------- MODULE MCWorkfile -----------------------------
(***************************************************************************)
(* Small instances of Workfile for TLC.                                    *)
(***************************************************************************)
EXTENDS Workfile

MCHeaders == {<<"x">>, <<"x", "y">>}

=============================================================================
