--------------------------- MODULE MCBackupRunner ---------------------------
(* Small instances of BackupRunner for TLC: the model values of the cfgs.   *)
EXTENDS BackupRunner

CONSTANTS k1, v1, q1, q2, acl1, acl2, d1, d2, c1
=============================================================================
