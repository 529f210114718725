-------------------------- MODULE MCSnapshotSystem --------------------------
(* Small instances of SnapshotSystem for TLC: the model values of the cfgs. *)
EXTENDS SnapshotSystem

CONSTANTS k1, v1, v2, q1, acl1, d1, d2, c1, r1, old
=============================================================================
