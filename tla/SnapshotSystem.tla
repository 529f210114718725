--------------------------- MODULE SnapshotSystem ---------------------------
(***************************************************************************)
(* Backups and restores of one cluster: the processes of BackupRunner and  *)
(* of RestoreRunner meet in the key-value table and in the buckets.  The   *)
(* key LastBackup is one of the keys that a backup copies and a restore    *)
(* puts back.                                                              *)
(***************************************************************************)
EXTENDS BackupRunner, RestoreRunner

CONSTANT UsersPause   \* users write nothing while a restore runs

ASSUME SystemAssumption == UsersPause \in BOOLEAN

system_vars == <<vars, restore_vars>>

SystemInit == BackupInit /\ RestoreInit

Users ==
  /\ Environment
  /\ UsersPause /\ (\E r \in Restorers : Restoring(r)) => UNCHANGED kv
  /\ UNCHANGED <<proc_vars, restore_vars>>

SystemNext ==
  \/ Users
  \/ BackupNext /\ UNCHANGED restore_vars
  \/ RestoreNext /\ UNCHANGED proc_vars

SystemSpec == SystemInit /\ [][SystemNext]_system_vars

SystemTypeOK == TypeOK /\ RestoreTypeOK

-----------------------------------------------------------------------------
(* What the system owes its operator.                                      *)

\* The key-value tables whose LastBackup names no backup, or a stored one.
GoodTables == {f \in KVTables : f[LastBackup] # None => StoredAt(f[LastBackup])}

\* A restore puts back the LastBackup of its archive, an older time or that of another
\* host; still the key names a stored backup, for so did every table that was copied.
CapturedStored ==
  /\ \A p \in Procs : client[p]["kv"] # None => client[p]["kv"].val \in GoodTables
  /\ \A b \in Buckets, n \in Names \cup Legacy :
       bucket[b][n] # None => KVOf(bucket[b][n]) \in GoodTables
  /\ \A r \in Restorers : file[r] # None => KVOf(file[r].archive) \in GoodTables

\* A restore has its file to its end, has unpacked it before it loads, and puts keys that
\* are in it.
RestoreInv ==
  \A r \in Restorers :
    /\ Restoring(r) => file[r] # None
    /\ rstep[r] \in {"load", "put"} => Unpacks(file[r])
    /\ todo[r] # {} => rstep[r] = "put" /\ todo[r] \subseteq KeysOf(file[r].archive)

\* The inductive invariant.
SystemInv == SystemTypeOK /\ StoredInv /\ CapturedStored /\ RestoreInv

\* The abstract log: a backup is stored when it is in every configured bucket.
StoredNames == {n \in Names : Stored(n)}

Log == INSTANCE BackupLog
         WITH Hosts <- Procs, Times <- Time, NoMark <- None,
              stored <- StoredNames, mark <- kv[LastBackup]

\* Backups and restores together implement the log: whatever fails, no stored backup is
\* lost, and the key is only ever set to the time of a stored one.
ImplementsLog == Log!Spec

\* A restore during which nobody writes ends in a table that holds every pair of the
\* archive, except the keys whose error it counted.
RestoreExact ==
  [][\A r \in Restorers : rstep[r] = "put" /\ rstep'[r] = "done" =>
       \A k \in Keys \ missed[r] :
         KVOf(file[r].archive)[k] # None => kv[k] = KVOf(file[r].archive)[k]]_system_vars

\* No key is put from a file that is torn or still encrypted: the errors that Download and
\* DecryptFile drop come out in Extract, before the first put.
OnlyWholeFilesRestored ==
  \A r \in Restorers : todo[r] # {} => ~file[r].torn /\ ~file[r].archive.sealed

\* A restore always ends.
RestoreEnds == \A r \in Restorers : Restoring(r) ~> ~Restoring(r)

\* inspectBackup: "if we find its a v1 backup, just process it".  A whole 0.1.x file is
\* not refused.
V1Processed ==
  [][\A r \in Restorers :
       rstep[r] = "extract" /\ file[r].archive.v1 /\ Unpacks([file[r] EXCEPT !.archive.v1 = FALSE])
         => rstep'[r] # "dead" \/ faults' # faults]_system_vars

FairSystemSpec ==
  /\ SystemSpec
  /\ \A p \in Procs : WF_system_vars(Work(p) /\ UNCHANGED restore_vars)
  /\ \A p \in Procs : WF_system_vars(Fire(p) /\ UNCHANGED restore_vars)
  /\ \A r \in Restorers : WF_system_vars(RestoreWork(r) /\ UNCHANGED proc_vars)
=============================================================================
