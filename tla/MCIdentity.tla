----------------------------- MODULE MCIdentity -----------------------------
(***************************************************************************)
(* Identity for TLC: the configurations give the small instances.          *)
(***************************************************************************)
EXTENDS Identity, TLC

=============================================================================
