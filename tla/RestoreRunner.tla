--------------------------- MODULE RestoreRunner ---------------------------
(***************************************************************************)
(* restore.Runner: fetch one object of a bucket, decrypt it if it is       *)
(* encrypted, unpack it, and put its keys back into consul one by one.     *)
(* Prepared queries and ACLs are loaded but not restored.                  *)
(*                                                                         *)
(* Most errors end the process.  Three do not: a GCS transfer that breaks  *)
(* off, a failed decryption, and a key that cannot be put.  The first two  *)
(* leave a file that must not get past the unpacking; the third is counted *)
(* and the restore goes on to the next key, and ends with exit status 0.   *)
(***************************************************************************)
EXTENDS Cluster

CONSTANT Restorers   \* hosts on which an operator restores

VARIABLES
  rstep,    \* rstep[r] is the next step of the restore on host r
  file,     \* file[r] is the local copy of the object: the archive, and whether it is torn,
            \* that is, lacks a part of its contents
  todo,     \* todo[r] is the set of keys of Restore.JSONData still to put
  missed    \* missed[r] is the set of keys whose put returned an error

restore_vars == <<rstep, file, todo, missed>>

RestoreSteps == {"ready", "check", "extract", "load", "put", "done", "dead"}
Files        == [archive : Archives, torn : BOOLEAN]

ASSUME FileAssumption == None \notin Files

RestoreTypeOK ==
  /\ rstep  \in [Restorers -> RestoreSteps]
  /\ file   \in [Restorers -> Files \cup {None}]
  /\ todo   \in [Restorers -> SUBSET AllKeys]
  /\ missed \in [Restorers -> SUBSET AllKeys]

RestoreInit ==
  /\ rstep  = [r \in Restorers |-> "ready"]
  /\ file   = [r \in Restorers |-> None]
  /\ todo   = [r \in Restorers |-> {}]
  /\ missed = [r \in Restorers |-> {}]

Restoring(r) == rstep[r] \in {"check", "extract", "load", "put"}

-----------------------------------------------------------------------------
\* The key-value pairs of an archive: none if the table was never listed.
KVOf(archive)   == IF archive.data["kv"] = None THEN EmptyKV ELSE archive.data["kv"].val
KeysOf(archive) == {k \in AllKeys : KVOf(archive)[k] # None}

StepTo(r, step) == rstep' = [rstep EXCEPT ![r] = step]

\* The process ends with status 0 ("done") or 1 ("dead"); nothing of the run is used again.
EndRestore(r, status) ==
  /\ StepTo(r, status)
  /\ file'   = [file   EXCEPT ![r] = None]
  /\ todo'   = [todo   EXCEPT ![r] = {}]
  /\ missed' = [missed EXCEPT ![r] = {}]

\* GCS is read if there is a GCS bucket, otherwise S3.
RestoreBucket == IF "gcs" \in Buckets THEN "gcs" ELSE "s3"

\* The operator restores the object named n.
Download(r, n) ==
  /\ ~Restoring(r)
  /\ bucket[RestoreBucket][n] # None
  /\ \E torn \in BOOLEAN :
       /\ IF torn THEN RestoreBucket = "gcs" /\ Fault ELSE NoFault
       /\ file' = [file EXCEPT ![r] = [archive |-> bucket[RestoreBucket][n], torn |-> torn]]
  /\ StepTo(r, "check")
  /\ UNCHANGED <<now, kv, pq, acl, bucket, todo, missed>>

\* crypt.DecryptFile rewrites the file, or leaves it as it is: part of the file is missing,
\* or the password is another one.
DecryptFile(r) ==
  \/ ~file[r].torn /\ file' = [file EXCEPT ![r].archive.sealed = FALSE] /\ NoFault
  \/ file[r].torn /\ UNCHANGED file /\ NoFault
  \/ ~file[r].torn /\ UNCHANGED file /\ Fault

\* An encrypted backup needs the password.  doWork drops the error of DecryptFile.
CheckEncryption(r) ==
  /\ rstep[r] = "check"
  /\ \/ ~file[r].archive.sealed /\ StepTo(r, "extract") /\ UNCHANGED <<file, todo, missed, faults>>
     \/ /\ file[r].archive.sealed /\ Password
        /\ DecryptFile(r) /\ StepTo(r, "extract") /\ UNCHANGED <<todo, missed>>
     \/ file[r].archive.sealed /\ ~Password /\ EndRestore(r, "dead") /\ NoFault
  /\ UNCHANGED <<now, kv, pq, acl, bucket>>

\* Mutant: the error of io.Copy is not returned.
UnpacksTorn(f) == ~f.archive.sealed /\ ~f.archive.v1

\* What gunzip and tar unpack without an error: they stop at the header of an encrypted
\* file, at the end of a torn one, and a 0.1.x file is no tar.
Unpacks(f) == ~f.torn /\ ~f.archive.sealed /\ ~f.archive.v1

Extract(r) ==
  /\ rstep[r] = "extract"
  /\ IF Unpacks(file[r])
       THEN StepTo(r, "load") /\ UNCHANGED <<file, todo, missed>>
       ELSE EndRestore(r, "dead")
  /\ UNCHANGED cluster_vars

\* inspectBackup and the three loads.  A backup with no meta file is read as a 0.1.x one,
\* whose pairs are loaded just the same.
Load(r) ==
  /\ rstep[r] = "load"
  /\ StepTo(r, "put")
  /\ todo' = [todo EXCEPT ![r] = KeysOf(file[r].archive)]
  /\ UNCHANGED <<cluster_vars, file, missed>>

\* Mutant: the first error ends the loop, as in consul.RestoreKeys.
PutKeyStop(r, k) ==
  /\ rstep[r] = "put" /\ k \in todo[r]
  /\ \/ /\ kv' = [kv EXCEPT ![k] = KVOf(file[r].archive)[k]] /\ NoFault
        /\ todo' = [todo EXCEPT ![r] = @ \ {k}] /\ UNCHANGED missed
     \/ /\ UNCHANGED kv /\ Fault
        /\ todo' = [todo EXCEPT ![r] = {}] /\ missed' = [missed EXCEPT ![r] = @ \cup {k}]
  /\ UNCHANGED <<now, pq, acl, bucket, rstep, file>>

\* restoreKV puts one key.  The pairs are in the order of their names, which the model
\* leaves open.  An error is counted, and the put may have reached consul.
PutKey(r, k) ==
  /\ rstep[r] = "put" /\ k \in todo[r]
  /\ todo' = [todo EXCEPT ![r] = @ \ {k}]
  /\ LET put == kv' = [kv EXCEPT ![k] = KVOf(file[r].archive)[k]]
     IN  \/ put /\ NoFault /\ UNCHANGED missed
         \/ (put \/ UNCHANGED kv) /\ Fault /\ missed' = [missed EXCEPT ![r] = @ \cup {k}]
  /\ UNCHANGED <<now, pq, acl, bucket, rstep, file>>

\* Mutant: a restore that missed a key waits for it.
FinishClean(r) ==
  /\ rstep[r] = "put" /\ todo[r] = {} /\ missed[r] = {}
  /\ EndRestore(r, "done")
  /\ UNCHANGED cluster_vars

\* restorePQs and restoreACLs do nothing; the exit status is 0, whatever was missed.
Finish(r) ==
  /\ rstep[r] = "put" /\ todo[r] = {}
  /\ EndRestore(r, "done")
  /\ UNCHANGED cluster_vars

\* The process is killed, or an error of a local file or of the transfer ends it.
KillRestore(r) ==
  /\ Restoring(r)
  /\ Fault /\ EndRestore(r, "dead")
  /\ UNCHANGED <<now, kv, pq, acl, bucket>>

-----------------------------------------------------------------------------
RestoreWork(r) ==
  \/ CheckEncryption(r)
  \/ Extract(r)
  \/ Load(r)
  \/ \E k \in AllKeys : PutKey(r, k)
  \/ Finish(r)

RestoreNext ==
  \E r \in Restorers :
    \/ \E n \in Names \cup Legacy : Download(r, n)
    \/ RestoreWork(r)
    \/ KillRestore(r)
=============================================================================
