----------------------------- MODULE MCServices -----------------------------
(***************************************************************************)
(* Names of the model values that the configurations of Services use.      *)
(***************************************************************************)
EXTENDS Services

CONSTANTS h1, k1, v1, old
=============================================================================
