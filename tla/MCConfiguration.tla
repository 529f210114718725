-------------------------- MODULE MCConfiguration --------------------------
(* Small instances of Configuration for TLC.                                 *)
EXTENDS Configuration

\* Negative, zero, in range, and beyond the range: 4 wraps to a negative interval and 9 to
\* a positive one.
TestSeconds == {-1, 0, 3, 4, 9}
=============================================================================
