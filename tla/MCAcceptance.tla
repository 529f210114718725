---------------------------- MODULE MCAcceptance ----------------------------
(* Small instances of Acceptance for TLC: the model values of the cfgs.      *)
EXTENDS Acceptance

CONSTANTS k1, v1, v2
=============================================================================
