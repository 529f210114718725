------------------------------ MODULE MCHealth ------------------------------
(* Small instances of Health for TLC: the model values of the cfgs.          *)
EXTENDS Health

CONSTANTS h1, h2, q1, q2
=============================================================================
