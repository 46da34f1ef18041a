----------------------------- MODULE MCDesktop -----------------------------
(***************************************************************************)
(* Desktop for TLC.                                                        *)
(***************************************************************************)
EXTENDS Desktop, TLC

=============================================================================
