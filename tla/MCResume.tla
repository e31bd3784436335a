------------------------------ MODULE MCResume ------------------------------
(***************************************************************************)
(* Small instances of Resume for TLC.                                      *)
(***************************************************************************)
EXTENDS Resume

=============================================================================
