------------------------------ MODULE BackupLog ------------------------------
(***************************************************************************)
(* What backups and restores promise together, without processes, rounds   *)
(* or faults: a growing set of backups, and a mark that always names one   *)
(* of them.  A backup appears in the set at once, in every bucket or not   *)
(* at all; the mark may go back, when a restore or a slower host sets it.  *)
(***************************************************************************)
CONSTANTS
  Hosts,   \* the hosts that back up
  Times,   \* the times a backup can start at
  NoMark   \* nothing has been marked yet

VARIABLES
  stored,  \* the backups there are: host and start time
  mark     \* the start time in the key LastBackup

TimesStored == {n[2] : n \in stored}

Init == stored = {} /\ mark = NoMark

\* A backup gets its last copy.
Store(n) == stored' = stored \cup {n} /\ UNCHANGED mark

\* Someone sets the mark to the time of a stored backup.
Mark(t) == t \in TimesStored /\ mark' = t /\ UNCHANGED stored

Next == \/ \E n \in Hosts \X Times : Store(n)
        \/ \E t \in Times : Mark(t)

Spec == Init /\ [][Next]_<<stored, mark>>
=============================================================================
