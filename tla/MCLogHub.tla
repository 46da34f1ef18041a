------------------------------ MODULE MCLogHub ------------------------------
(***************************************************************************)
(* LogHub for TLC: the configurations give the small instances.            *)
(***************************************************************************)
EXTENDS LogHub, TLC

=============================================================================
