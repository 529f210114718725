------------------------- MODULE SnapshotSystemProofs -------------------------
(***************************************************************************)
(* Proofs about SnapshotSystem: any hosts backing up and restoring.        *)
(***************************************************************************)
EXTENDS SnapshotSystem, BackupRunnerProofs

-----------------------------------------------------------------------------
(* Steps of the system and steps of its parts.                             *)

\* A step of the system is a step of a restore, or one of BackupRunner.
LEMMA SystemStep ==
  ASSUME [SystemNext]_system_vars
  PROVE  \/ [Next]_vars /\ UNCHANGED restore_vars
         \/ RestoreNext /\ UNCHANGED proc_vars
  BY DEF SystemNext, system_vars, vars, Users, Next

-----------------------------------------------------------------------------
(* Type correctness.                                                       *)

\* The pairs of an archive of the right kind are a key-value table.
LEMMA KVOfType ==
  ASSUME NEW a \in Archives, a.data["kv"] # None => a.data["kv"].val \in KVTables
  PROVE  KVOf(a) \in KVTables
  BY DEF KVOf, EmptyKV, KVTables, AllKeys

\* A restore reads a configured bucket.
LEMMA RestoreBucketConfigured == RestoreBucket \in Buckets
  BY ClusterAssumption DEF RestoreBucket

\* The end of a restore leaves its variables well typed.
LEMMA EndRestoreType ==
  ASSUME RestoreTypeOK, NEW r \in Restorers, NEW status \in {"done", "dead"},
         EndRestore(r, status)
  PROVE  RestoreTypeOK'
  BY DEF RestoreTypeOK, EndRestore, StepTo, RestoreSteps

\* A decrypted file is a file.
LEMMA DecryptType ==
  ASSUME RestoreTypeOK, NEW r \in Restorers, file[r] # None, DecryptFile(r)
  PROVE  file' \in [Restorers -> Files \cup {None}]
<1>1. file[r] \in Files
  BY DEF RestoreTypeOK
<1>2. [file[r] EXCEPT !.archive.sealed = FALSE] \in Files
  BY <1>1 DEF Files, Archives
<1> QED
  BY <1>2 DEF DecryptFile, RestoreTypeOK

\* A step of a restore keeps the types of its variables.
LEMMA RestoreKeepsRestoreTypes ==
  ASSUME SystemInv, RestoreNext
  PROVE  RestoreTypeOK'
<1>1. RestoreTypeOK /\ RestoreInv /\ ClusterTypeOK
  BY DEF SystemInv, SystemTypeOK, TypeOK
<1>2. PICK r \in Restorers : \/ \E n \in Names \cup Legacy : Download(r, n)
                             \/ RestoreWork(r) \/ KillRestore(r)
  BY DEF RestoreNext
<1>3. ASSUME NEW n \in Names \cup Legacy, Download(r, n)
      PROVE  RestoreTypeOK'
  <2>1. bucket[RestoreBucket][n] \in Archives
    BY <1>1, <1>3, RestoreBucketConfigured DEF Download, ClusterTypeOK
  <2>2. \A torn \in BOOLEAN :
          [archive |-> bucket[RestoreBucket][n], torn |-> torn] \in Files
    BY <2>1 DEF Files
  <2>3. file' \in [Restorers -> Files \cup {None}]
    BY <1>1, <1>3, <2>2 DEF Download, RestoreTypeOK
  <2> QED
    BY <1>1, <1>3, <2>3 DEF Download, StepTo, RestoreTypeOK, RestoreSteps
<1>4. CASE CheckEncryption(r)
  <2>1. CASE EndRestore(r, "dead")
    BY <1>1, <2>1, EndRestoreType
  <2>2. CASE StepTo(r, "extract") /\ UNCHANGED <<todo, missed>>
    <3>1. file[r] # None
      BY <1>1, <1>4 DEF CheckEncryption, RestoreInv, Restoring
    <3>2. file' \in [Restorers -> Files \cup {None}]
      BY <1>1, <1>4, <2>2, <3>1, DecryptType DEF CheckEncryption, RestoreTypeOK, EndRestore, StepTo
    <3> QED
      BY <1>1, <2>2, <3>2 DEF StepTo, RestoreTypeOK, RestoreSteps
  <2> QED
    BY <1>4, <2>1, <2>2 DEF CheckEncryption
<1>5. CASE Extract(r)
  <2>1. CASE EndRestore(r, "dead")
    BY <1>1, <2>1, EndRestoreType
  <2> QED
    BY <1>1, <1>5, <2>1 DEF Extract, StepTo, RestoreTypeOK, RestoreSteps
<1>6. CASE Load(r)
  BY <1>1, <1>6 DEF Load, StepTo, RestoreTypeOK, RestoreSteps, KeysOf
<1>7. ASSUME NEW k \in AllKeys, PutKey(r, k)
      PROVE  RestoreTypeOK'
  <2>1. missed' \in [Restorers -> SUBSET AllKeys]
    BY <1>1, <1>7 DEF PutKey, RestoreTypeOK
  <2> QED
    BY <1>1, <1>7, <2>1 DEF PutKey, RestoreTypeOK
<1>8. CASE Finish(r)
  BY <1>1, <1>8, EndRestoreType DEF Finish
<1>9. CASE KillRestore(r)
  BY <1>1, <1>9, EndRestoreType DEF KillRestore
<1> QED
  BY <1>2, <1>3, <1>4, <1>5, <1>6, <1>7, <1>8, <1>9 DEF RestoreWork

\* A step of a restore fails once at most.
LEMMA RestoreFaults ==
  ASSUME RestoreNext
  PROVE  Fault \/ NoFault
<1>1. PICK r \in Restorers : \/ \E n \in Names \cup Legacy : Download(r, n)
                             \/ RestoreWork(r) \/ KillRestore(r)
  BY DEF RestoreNext
<1>2. CASE \E n \in Names \cup Legacy : Download(r, n)
  BY <1>2 DEF Download
<1>3. CASE CheckEncryption(r)
  BY <1>3 DEF CheckEncryption, DecryptFile, NoFault
<1>4. CASE \E k \in AllKeys : PutKey(r, k)
  BY <1>4 DEF PutKey
<1>5. CASE Extract(r) \/ Load(r) \/ Finish(r) \/ KillRestore(r)
  BY <1>5 DEF Extract, Load, Finish, KillRestore, NoFault, cluster_vars
<1> QED
  BY <1>1, <1>2, <1>3, <1>4, <1>5 DEF RestoreWork

\* A restore touches neither the clock nor the buckets.
LEMMA RestoreKeepsBuckets ==
  ASSUME RestoreNext
  PROVE  UNCHANGED <<now, bucket>>
  BY DEF RestoreNext, RestoreWork, Download, CheckEncryption, Extract, Load, PutKey, Finish,
         KillRestore, cluster_vars

\* A step of a restore keeps the other types: it puts values of a key-value table.
LEMMA RestoreKeepsTypes ==
  ASSUME SystemInv, RestoreNext, UNCHANGED proc_vars
  PROVE  TypeOK'
<1>1. TypeOK /\ RestoreTypeOK /\ RestoreInv /\ CapturedStored
  BY DEF SystemInv, SystemTypeOK
<1>2. PICK r \in Restorers : \/ \E n \in Names \cup Legacy : Download(r, n)
                             \/ RestoreWork(r) \/ KillRestore(r)
  BY DEF RestoreNext
<1>3. ClusterTypeOK'
  <2>1. faults' \in 0..MaxFaults
    BY <1>1, RestoreFaults, FaultType
  <2>2. kv' \in KVTables
    <3>1. ASSUME NEW k \in AllKeys, PutKey(r, k)
          PROVE  kv' \in KVTables
      <4>1. KVOf(file[r].archive) \in KVTables
        BY <1>1, <3>1 DEF PutKey, RestoreInv, Restoring, CapturedStored, GoodTables
      <4>2. CASE kv' = [kv EXCEPT ![k] = KVOf(file[r].archive)[k]]
        <5>1. DOMAIN kv = AllKeys /\ KVOf(file[r].archive)[k] \in Vals \cup Time \cup {None}
          BY <1>1, <4>1 DEF TypeOK, ClusterTypeOK, KVTables
        <5>2. kv' \in [AllKeys -> Vals \cup Time \cup {None}]
          BY <1>1, <4>2, <5>1 DEF TypeOK, ClusterTypeOK, KVTables
        <5>3. kv'[LastBackup] \in Time \cup {None}
          BY <1>1, <4>1, <4>2 DEF TypeOK, ClusterTypeOK, KVTables, AllKeys
        <5> QED
          BY <5>2, <5>3 DEF KVTables
      <4> QED
        BY <1>1, <3>1, <4>2 DEF PutKey, TypeOK, ClusterTypeOK
    <3> QED
      BY <1>1, <1>2, <3>1
         DEF Download, RestoreWork, CheckEncryption, Extract, Load, Finish, KillRestore,
             cluster_vars, TypeOK, ClusterTypeOK
  <2>3. UNCHANGED <<now, pq, acl, bucket>>
    BY <1>2 DEF Download, RestoreWork, CheckEncryption, Extract, Load, PutKey, Finish,
                KillRestore, cluster_vars
  <2> QED
    BY <1>1, <2>1, <2>2, <2>3 DEF TypeOK, ClusterTypeOK
<1> QED
  BY <1>1, <1>3 DEF TypeOK, proc_vars, memory

-----------------------------------------------------------------------------
(* What a restore knows of its file.                                       *)

\* A step of a restore keeps what is known of it.
LEMMA RestoreKeepsRestoreInv ==
  ASSUME SystemInv, RestoreNext
  PROVE  RestoreInv'
<1>1. RestoreTypeOK /\ RestoreInv /\ ClusterTypeOK
  BY DEF SystemInv, SystemTypeOK, TypeOK
<1>2. PICK r \in Restorers : \/ \E n \in Names \cup Legacy : Download(r, n)
                             \/ RestoreWork(r) \/ KillRestore(r)
  BY DEF RestoreNext
<1>3. ASSUME NEW q \in Restorers \ {r}
      PROVE  rstep'[q] = rstep[q] /\ file'[q] = file[q] /\ todo'[q] = todo[q]
  <2>1. CASE \E n \in Names \cup Legacy : Download(r, n)
    BY <1>1, <2>1 DEF RestoreTypeOK, Download, StepTo
  <2>2. CASE CheckEncryption(r)
    BY <1>1, <2>2 DEF RestoreTypeOK, CheckEncryption, DecryptFile, EndRestore, StepTo
  <2>3. CASE Extract(r) \/ Load(r)
    BY <1>1, <2>3 DEF RestoreTypeOK, Extract, Load, EndRestore, StepTo
  <2>4. CASE \E k \in AllKeys : PutKey(r, k)
    BY <1>1, <2>4 DEF RestoreTypeOK, PutKey
  <2>5. CASE Finish(r) \/ KillRestore(r)
    BY <1>1, <2>5 DEF RestoreTypeOK, Finish, KillRestore, EndRestore, StepTo
  <2> QED
    BY <1>2, <2>1, <2>2, <2>3, <2>4, <2>5 DEF RestoreWork
<1> DEFINE Known == /\ Restoring(r)' => file'[r] # None
                    /\ rstep'[r] \in {"load", "put"} => Unpacks(file'[r])
                    /\ todo'[r] # {} => /\ rstep'[r] = "put"
                                        /\ todo'[r] \subseteq KeysOf(file'[r].archive)
<1>4. todo[r] # {} => rstep[r] = "put"
  BY <1>1 DEF RestoreInv
<1>5. ASSUME NEW status \in {"done", "dead"}, EndRestore(r, status)
      PROVE  Known
  BY <1>1, <1>5 DEF RestoreTypeOK, EndRestore, StepTo, Restoring
<1>6. ASSUME NEW n \in Names \cup Legacy, Download(r, n)
      PROVE  Known
  <2>1. bucket[RestoreBucket][n] \in Archives
    BY <1>1, <1>6, RestoreBucketConfigured DEF Download, ClusterTypeOK
  <2>2. file'[r] # None
    BY <1>1, <1>6, <2>1, FileAssumption DEF Download, Files, RestoreTypeOK
  <2> QED
    BY <1>1, <1>4, <1>6, <2>2 DEF Download, StepTo, RestoreTypeOK, Restoring
<1>7. ASSUME CheckEncryption(r)
      PROVE  Known
  <2>1. CASE StepTo(r, "extract") /\ UNCHANGED todo
    <3>1. file[r] # None
      BY <1>1, <1>7 DEF CheckEncryption, RestoreInv, Restoring
    <3>2. file'[r] # None
      <4>1. CASE DecryptFile(r)
        <5>1. file[r] \in Files
          BY <1>1, <3>1 DEF RestoreTypeOK
        <5>2. [file[r] EXCEPT !.archive.sealed = FALSE] \in Files
          BY <5>1 DEF Files, Archives
        <5>3. file'[r] = file[r] \/ file'[r] = [file[r] EXCEPT !.archive.sealed = FALSE]
          BY <1>1, <4>1 DEF DecryptFile, RestoreTypeOK
        <5> QED
          BY <3>1, <5>2, <5>3, FileAssumption
      <4> QED
        BY <1>1, <1>7, <2>1, <3>1, <4>1 DEF CheckEncryption, EndRestore, StepTo, RestoreTypeOK
    <3> QED
      BY <1>1, <1>4, <1>7, <2>1, <3>2 DEF CheckEncryption, StepTo, RestoreTypeOK
  <2> QED
    BY <1>5, <1>7, <2>1 DEF CheckEncryption
<1>8. ASSUME Extract(r)
      PROVE  Known
  BY <1>1, <1>4, <1>5, <1>8 DEF Extract, StepTo, RestoreTypeOK, RestoreInv, Restoring
<1>9. ASSUME Load(r)
      PROVE  Known
  BY <1>1, <1>9 DEF Load, StepTo, RestoreTypeOK, RestoreInv, Restoring
<1>10. ASSUME NEW k \in AllKeys, PutKey(r, k)
       PROVE  Known
  BY <1>1, <1>10 DEF PutKey, RestoreTypeOK, RestoreInv, Restoring
<1>11. ASSUME Finish(r) \/ KillRestore(r)
       PROVE  Known
  BY <1>5, <1>11 DEF Finish, KillRestore
<1>12. Known
  BY <1>2, <1>6, <1>7, <1>8, <1>9, <1>10, <1>11 DEF RestoreWork
<1> QED
  BY <1>1, <1>3, <1>12 DEF RestoreInv, Restoring

-----------------------------------------------------------------------------
(* The key names a stored backup.                                          *)

\* A stored backup stays stored.
LEMMA StoredStays ==
  ASSUME TypeOK, [Next]_vars \/ RestoreNext, NEW t \in Time, StoredAt(t)
  PROVE  StoredAt(t)'
<1>1. \A b \in Buckets, n \in Names : bucket[b][n] # None => bucket'[b][n] # None
  <2>1. ASSUME NEW p \in Procs, NEW b \in {"s3", "gcs"}, Upload(p, b)
        PROVE  \A c \in Buckets, n \in Names : bucket[c][n] # None => bucket'[c][n] # None
    <3>1. Archive(p) # None
      BY ArchiveType, NoneAssumption
    <3> QED
      BY <2>1, <3>1, UploadAdds
  <2>2. \/ UNCHANGED bucket
        \/ \E p \in Procs, b \in {"s3", "gcs"} : Upload(p, b)
    <3>1. CASE [Next]_vars
      BY <3>1 DEF Next, vars, cluster_vars, Environment, UserPut, EditPQ, EditACL, Tick,
                  BackupNext, Work, StartRound, List, Prepare, Compress, Encrypt, Ack, Cleanup,
                  Fire, Crash, Restart
    <3>2. CASE RestoreNext
      BY <3>2, RestoreKeepsBuckets
    <3> QED
      BY <3>1, <3>2
  <2> QED
    BY <2>1, <2>2
<1> QED
  BY <1>1 DEF StoredAt, Stored, Names

\* So does a good table stay good.
LEMMA GoodStays ==
  ASSUME TypeOK, [Next]_vars \/ RestoreNext
  PROVE  GoodTables \subseteq GoodTables'
<1> SUFFICES ASSUME NEW f \in KVTables, f[LastBackup] # None => StoredAt(f[LastBackup])
             PROVE  f[LastBackup] # None => StoredAt(f[LastBackup])'
  BY DEF GoodTables
<1>1. f[LastBackup] # None => f[LastBackup] \in Time
  BY DEF KVTables
<1> QED
  BY <1>1, StoredStays

\* The table as it is is good.
LEMMA GoodNow ==
  ASSUME StoredInv
  PROVE  kv \in GoodTables
  BY DEF StoredInv, TypeOK, ClusterTypeOK, LastBackupStored, GoodTables

\* A table without the key is good.
LEMMA GoodEmpty == EmptyKV \in GoodTables
  BY DEF GoodTables, EmptyKV, KVTables, AllKeys

\* What a process has listed stays good, and a list call adds the table as it is.
LEMMA NextCapturedClient ==
  ASSUME SystemInv, [Next]_vars, NEW p \in Procs, client'[p]["kv"] # None
  PROVE  client'[p]["kv"].val \in GoodTables
<1>1. /\ StoredInv /\ CapturedStored
      /\ client \in [Procs -> [Tables -> Listing \cup {None}]]
  BY DEF SystemInv, SystemTypeOK, TypeOK
<1>2. CASE client'[p]["kv"] = client[p]["kv"]
  BY <1>1, <1>2 DEF CapturedStored
<1>3. CASE client'[p]["kv"].val = kv
  BY <1>1, <1>3, GoodNow
<1>4. CASE client' = client
  BY <1>2, <1>4
<1>5. ASSUME NEW q \in Procs, NEW status, End(q, status)
      PROVE  client'[p]["kv"] = client[p]["kv"]
  BY <1>1, <1>5 DEF End, NoData, Tables
<1>6. ASSUME NEW q \in Procs, NEW t \in Tables, List(q, t)
      PROVE  client'[p]["kv"] = client[p]["kv"] \/ client'[p]["kv"].val = kv
  <2> DEFINE answer == [val |-> Content(t), at |-> now]
  <2>1. t = "kv" => answer.val = kv
    BY DEF Content
  <2> HIDE DEF answer
  <2>2. client' = [client EXCEPT ![q][t] = answer] \/ client' = client
    BY <1>6 DEF List, answer
  <2> QED
    BY <1>1, <2>1, <2>2 DEF Tables
<1>7. \/ client' = client
      \/ \E q \in Procs, status \in Resting : End(q, status)
      \/ \E q \in Procs, t \in Tables : List(q, t)
  <2>1. CASE UNCHANGED vars \/ (Environment /\ UNCHANGED proc_vars)
    BY <2>1 DEF vars, proc_vars, memory
  <2>2. ASSUME NEW q \in Procs, Work(q) \/ Fire(q) \/ Crash(q) \/ Restart(q)
        PROVE  <1>7
    <3>1. CASE StartRound(q) \/ Encrypt(q) \/ Fire(q) \/ Restart(q)
      BY <3>1 DEF StartRound, Encrypt, Fire, Restart, Proceed, memory
    <3>2. CASE Prepare(q) \/ Compress(q)
      BY <3>2 DEF Prepare, Compress, Proceed, memory, Die, Resting
    <3>3. CASE (\E b \in {"s3", "gcs"} : Upload(q, b)) \/ Ack(q)
      BY <3>3 DEF Upload, Ack, Proceed, memory, Die, Resting
    <3>4. CASE Cleanup(q) \/ Crash(q)
      BY <3>4 DEF Cleanup, Crash, Proceed, memory, Die, Resting
    <3> QED
      BY <2>2, <3>1, <3>2, <3>3, <3>4 DEF Work
  <2> QED
    BY <2>1, <2>2 DEF Next, BackupNext
<1> QED
  BY <1>2, <1>3, <1>4, <1>5, <1>6, <1>7

\* What a bucket holds stays good, and an upload adds what the process had listed.
LEMMA NextCapturedObject ==
  ASSUME SystemInv, [Next]_vars, NEW b \in Buckets, NEW n \in Names \cup Legacy,
         bucket'[b][n] # None
  PROVE  KVOf(bucket'[b][n]) \in GoodTables
<1>1. TypeOK /\ CapturedStored
  BY DEF SystemInv, SystemTypeOK
<1>2. ASSUME NEW p \in Procs
      PROVE  KVOf(Archive(p)) \in GoodTables
  BY <1>1, GoodEmpty DEF KVOf, Archive, CapturedStored
<1>3. CASE bucket'[b][n] = bucket[b][n]
  BY <1>1, <1>3 DEF CapturedStored
<1>4. ASSUME NEW p \in Procs, NEW c \in {"s3", "gcs"}, Upload(p, c)
      PROVE  bucket'[b][n] = bucket[b][n] \/ bucket'[b][n] = Archive(p)
  BY <1>1, <1>4, UploadAdds
<1>5. \/ UNCHANGED bucket
      \/ \E p \in Procs, c \in {"s3", "gcs"} : Upload(p, c)
  BY DEF Next, vars, cluster_vars, Environment, UserPut, EditPQ, EditACL, Tick,
         BackupNext, Work, StartRound, List, Prepare, Compress, Encrypt, Ack, Cleanup,
         Fire, Crash, Restart
<1> QED
  BY <1>2, <1>3, <1>4, <1>5

\* What a restore has fetched stays good: a download copies an object, and decryption does
\* not touch the pairs.
LEMMA RestoreCapturedFile ==
  ASSUME SystemInv, RestoreNext, NEW q \in Restorers, file'[q] # None
  PROVE  KVOf(file'[q].archive) \in GoodTables
<1>1. CapturedStored /\ RestoreTypeOK
  BY DEF SystemInv, SystemTypeOK
<1>2. PICK r \in Restorers : \/ \E n \in Names \cup Legacy : Download(r, n)
                             \/ RestoreWork(r) \/ KillRestore(r)
  BY DEF RestoreNext
<1>3. CASE file'[q] = file[q]
  BY <1>1, <1>3 DEF CapturedStored
<1>4. ASSUME NEW n \in Names \cup Legacy, Download(r, n)
      PROVE  KVOf(file'[q].archive) \in GoodTables
  <2>1. CASE q # r
    BY <1>1, <1>3, <1>4, <2>1 DEF Download, RestoreTypeOK
  <2>2. CASE q = r
    <3>1. file'[q].archive = bucket[RestoreBucket][n]
      BY <1>1, <1>4, <2>2 DEF Download, RestoreTypeOK
    <3> QED
      BY <1>1, <1>4, <3>1, RestoreBucketConfigured DEF Download, CapturedStored
  <2> QED
    BY <2>1, <2>2
<1>5. CASE DecryptFile(r) /\ rstep[r] = "check"
  <2>1. file[r] # None /\ file[r] \in Files
    BY <1>1, <1>5 DEF SystemInv, RestoreInv, Restoring, RestoreTypeOK
  <2>2. \/ file'[q] = file[q]
        \/ q = r /\ file'[q] = [file[r] EXCEPT !.archive.sealed = FALSE]
    BY <1>1, <1>5 DEF DecryptFile, RestoreTypeOK
  <2>3. KVOf([file[r] EXCEPT !.archive.sealed = FALSE].archive) = KVOf(file[r].archive)
    BY <2>1 DEF KVOf, Files, Archives
  <2> QED
    BY <1>1, <1>3, <2>1, <2>2, <2>3 DEF CapturedStored
<1>6. ASSUME NEW status, EndRestore(r, status)
      PROVE  file'[q] = file[q]
  BY <1>1, <1>6 DEF EndRestore, RestoreTypeOK
<1>7. ASSUME RestoreWork(r) \/ KillRestore(r)
      PROVE  \/ file' = file
             \/ DecryptFile(r) /\ rstep[r] = "check"
             \/ \E status \in {"done", "dead"} : EndRestore(r, status)
  BY <1>7 DEF RestoreWork, CheckEncryption, Extract, Load, PutKey, Finish, KillRestore
<1> QED
  BY <1>2, <1>3, <1>4, <1>5, <1>6, <1>7

\* Every captured table stays good.
LEMMA NextCaptured ==
  ASSUME SystemInv, [SystemNext]_system_vars
  PROVE  CapturedStored'
<1>1. TypeOK /\ CapturedStored
  BY DEF SystemInv, SystemTypeOK
<1>2. CASE [Next]_vars /\ UNCHANGED restore_vars
  <2>1. GoodTables \subseteq GoodTables'
    BY <1>1, <1>2, GoodStays
  <2>2. \A r \in Restorers : file'[r] # None => KVOf(file'[r].archive) \in GoodTables
    BY <1>1, <1>2 DEF CapturedStored, restore_vars
  <2> QED
    BY <1>2, <2>1, <2>2, NextCapturedClient, NextCapturedObject DEF CapturedStored
<1>3. CASE RestoreNext /\ UNCHANGED proc_vars
  <2>1. GoodTables \subseteq GoodTables'
    BY <1>1, <1>3, GoodStays
  <2>2. UNCHANGED <<client, bucket>>
    BY <1>3 DEF proc_vars, memory, RestoreNext, RestoreWork, Download, CheckEncryption, Extract,
                Load, PutKey, Finish, KillRestore, cluster_vars
  <2> QED
    BY <1>1, <1>3, <2>1, <2>2, RestoreCapturedFile DEF CapturedStored
<1> QED
  BY <1>2, <1>3, SystemStep

\* A restore puts back a LastBackup that names a stored backup.
LEMMA RestoreKeepsStored ==
  ASSUME SystemInv, RestoreNext, UNCHANGED proc_vars, TypeOK'
  PROVE  StoredInv'
<1>1. TypeOK /\ StoredInv /\ CapturedStored /\ RestoreInv
  BY DEF SystemInv, SystemTypeOK
<1>2. UNCHANGED bucket
  BY RestoreKeepsBuckets
<1>3. UploadsBehind'
  <2>1. \A p \in Procs : Behind(p)' = Behind(p)
    BY DEF Behind, proc_vars
  <2> QED
    BY <1>1, <1>2, <2>1 DEF StoredInv, UploadsBehind, proc_vars, memory
<1>4. ASSUME NEW r \in Restorers, NEW k \in AllKeys, PutKey(r, k)
      PROVE  LastBackupStored'
  <2>1. KVOf(file[r].archive) \in GoodTables
    BY <1>1, <1>4 DEF PutKey, RestoreInv, Restoring, CapturedStored
  <2>2. \/ kv'[LastBackup] = kv[LastBackup]
        \/ kv'[LastBackup] = KVOf(file[r].archive)[LastBackup]
    BY <1>1, <1>4 DEF PutKey, TypeOK, ClusterTypeOK, KVTables, AllKeys
  <2> QED
    BY <1>1, <1>2, <2>1, <2>2
       DEF GoodTables, StoredInv, LastBackupStored, StoredAt, Stored
<1>5. UNCHANGED kv \/ \E r \in Restorers, k \in AllKeys : PutKey(r, k)
  BY DEF RestoreNext, RestoreWork, Download, CheckEncryption, Extract, Load, Finish,
         KillRestore, cluster_vars
<1>6. LastBackupStored'
  BY <1>1, <1>2, <1>4, <1>5 DEF StoredInv, LastBackupStored, StoredAt, Stored
<1> QED
  BY <1>3, <1>6 DEF StoredInv

\* The initial states satisfy the invariant of the system.
LEMMA InitSystem == SystemInit => SystemInv
<1> SUFFICES ASSUME SystemInit PROVE SystemInv
  OBVIOUS
<1>1. StoredInv
  BY InitStored DEF SystemInit
<1>2. RestoreTypeOK
  BY DEF SystemInit, RestoreInit, RestoreTypeOK, RestoreSteps
<1>3. RestoreInv
  BY DEF SystemInit, RestoreInit, RestoreInv, Restoring
<1>4. CapturedStored
  <2>1. \A p \in Procs : client[p]["kv"] = None
    BY DEF SystemInit, BackupInit, NoData, Tables
  <2>2. \A r \in Restorers : file[r] = None
    BY DEF SystemInit, RestoreInit
  <2>3. ASSUME NEW is_v1 \in BOOLEAN
        PROVE  KVOf(LegacyArchive(is_v1)) \in GoodTables
    <3>1. LegacyKV \in GoodTables
      BY ClusterAssumption DEF LegacyKV, GoodTables, KVTables, AllKeys
    <3> QED
      BY <3>1, GoodEmpty DEF KVOf, LegacyArchive, Tables
  <2>4. \A b \in Buckets, n \in Names \cup Legacy :
          bucket[b][n] # None => \E is_v1 \in BOOLEAN : bucket[b][n] = LegacyArchive(is_v1)
    BY DEF SystemInit, BackupInit, ClusterInit
  <2> QED
    BY <2>1, <2>2, <2>3, <2>4 DEF CapturedStored
<1> QED
  BY <1>1, <1>2, <1>3, <1>4 DEF SystemInv, SystemTypeOK, StoredInv

\* Every step of the system keeps its invariant.
LEMMA NextSystem ==
  ASSUME SystemInv, [SystemNext]_system_vars
  PROVE  SystemInv'
<1>1. CapturedStored'
  BY NextCaptured
<1>2. CASE [Next]_vars /\ UNCHANGED restore_vars
  <2>1. TypeOK /\ StoredInv /\ RestoreTypeOK /\ RestoreInv
    BY DEF SystemInv, SystemTypeOK
  <2>2. TypeOK'
    BY <1>2, <2>1, NextTypeOK
  <2>3. StoredInv'
    BY <1>2, <2>1, <2>2, NextStored
  <2>4. RestoreTypeOK' /\ RestoreInv'
    BY <1>2, <2>1 DEF restore_vars, RestoreTypeOK, RestoreInv, Restoring
  <2> QED
    BY <1>1, <2>2, <2>3, <2>4 DEF SystemInv, SystemTypeOK
<1>3. CASE RestoreNext /\ UNCHANGED proc_vars
  BY <1>1, <1>3, RestoreKeepsRestoreTypes, RestoreKeepsTypes, RestoreKeepsRestoreInv,
     RestoreKeepsStored DEF SystemInv, SystemTypeOK
<1> QED
  BY <1>2, <1>3, SystemStep

\* The inductive invariant, for any hosts, keys and faults.
LEMMA SystemInvariant == SystemSpec => []SystemInv
<1>1. SystemInv /\ [SystemNext]_system_vars => SystemInv'
  BY NextSystem
<1> QED
  BY InitSystem, <1>1, PTL DEF SystemSpec

\* Every variable of the backups, of the restores and of the cluster keeps its type.
THEOREM SystemTypeCorrect == SystemSpec => []SystemTypeOK
<1>1. SystemInv => SystemTypeOK
  BY DEF SystemInv
<1> QED
  BY SystemInvariant, <1>1, PTL

\* Every copy of the key-value table, in a process, an archive or a restore, has a
\* LastBackup that names a stored backup.
THEOREM CapturesAreStored == SystemSpec => []CapturedStored
<1>1. SystemInv => CapturedStored
  BY DEF SystemInv
<1> QED
  BY SystemInvariant, <1>1, PTL

\* No key is put from a torn or encrypted file.
THEOREM OnlyWholeFiles == SystemSpec => []OnlyWholeFilesRestored
<1>1. SystemInv => OnlyWholeFilesRestored
  BY DEF SystemInv, RestoreInv, OnlyWholeFilesRestored, Unpacks
<1> QED
  BY SystemInvariant, <1>1, PTL

\* With restores too, LastBackup never names a start time whose archive is missing.
THEOREM SystemLastBackupStored == SystemSpec => []LastBackupStored
<1>1. SystemInv => LastBackupStored
  BY DEF SystemInv, StoredInv
<1> QED
  BY SystemInvariant, <1>1, PTL

-----------------------------------------------------------------------------
(* The answer of /health, with restores.                                   *)

\* A restore touches neither the archives nor the processes that back up.
LEMMA RestoreKeepsFresh ==
  ASSUME FreshInv, RestoreNext, UNCHANGED proc_vars, StoredInv'
  PROVE  FreshInv'
<1>1. UNCHANGED <<bucket, now>>
  BY RestoreKeepsBuckets
<1>2. \A p \in Procs : Listed(p)' = Listed(p)
  BY DEF Listed, proc_vars
<1> QED
  BY <1>1, <1>2 DEF FreshInv, FreshClients, FreshObjects, proc_vars, memory

\* Where list calls succeed, an answer 200 of /health is true even after a restore has set
\* the key back to the time of an older backup, or of another host's.
THEOREM SystemHealthIsSound ==
  ASSUME ~ListMayFail
  PROVE  SystemSpec => []HealthSound
<1>1. FreshInv /\ StoredInv' /\ [SystemNext]_system_vars => FreshInv'
  BY SystemStep, NextFresh, RestoreKeepsFresh
<1>2. SystemInit => FreshInv
  BY InitFresh DEF SystemInit
<1>3. SystemInv => StoredInv
  BY DEF SystemInv
<1> QED
  BY SystemInvariant, FreshHealth, <1>1, <1>2, <1>3, PTL DEF SystemSpec

-----------------------------------------------------------------------------
(* The temporary files and the archives of one name, with restores.        *)

\* A restore leaves the files of the backups alone.
LEMMA RestoreKeepsLeftover ==
  ASSUME LeftoverInv, RestoreNext, UNCHANGED proc_vars, TypeOK'
  PROVE  LeftoverInv'
<1>1. AtMost(Leftover, 2 * faults) /\ faults \in Nat
  <2>1. faults \in 0..MaxFaults
    BY DEF LeftoverInv, TypeOK, ClusterTypeOK
  <2> QED
    BY <2>1, ClusterAssumption DEF LeftoverInv
<1>2. Leftover' = Leftover
  BY DEF Leftover, Current, InRound, Dir, Tar, proc_vars, memory
<1>3. faults' \in {faults, faults + 1}
  BY RestoreFaults DEF Fault, NoFault
<1>4. 2 * faults \in Nat /\ 2 * faults' \in Nat /\ 2 * faults <= 2 * faults'
  BY <1>1, <1>3, TwoEach
<1> QED
  BY <1>1, <1>2, <1>4, FilesKept DEF LeftoverInv

\* The faults of the restores only add to what the bound allows.
THEOREM SystemTempFilesBounded == SystemSpec => []TempFilesBounded
<1>1. LeftoverInv /\ TypeOK' /\ [SystemNext]_system_vars => LeftoverInv'
  BY SystemStep, NextLeftover, RestoreKeepsLeftover
<1>2. SystemInit => LeftoverInv
  BY InitLeftover DEF SystemInit
<1>3. SystemInv => TypeOK
  BY DEF SystemInv, SystemTypeOK
<1> QED
  BY SystemInvariant, LeftoverBounds, <1>1, <1>2, <1>3, PTL DEF SystemSpec

\* A restore leaves the memory of the backups and the archives alone.
LEMMA RestoreKeepsNewer ==
  ASSUME NewerInv, RestoreNext, UNCHANGED proc_vars, TypeOK'
  PROVE  NewerInv'
<1>1. UNCHANGED <<now, bucket, pc, start, client, due, pending, sealed>>
  BY RestoreKeepsBuckets DEF proc_vars, memory
<1> QED
  BY <1>1 DEF NewerInv, Clocked, Dominated, Running, Past, InRound, Archive, Tar

\* A daemon never stores older data over newer, with restores too.
THEOREM SystemOverwritesKeepNewer == SystemSpec => OverwriteKeepsNewer
<1>1. NewerInv /\ TypeOK' /\ [SystemNext]_system_vars => NewerInv'
  BY SystemStep, NextNewer, RestoreKeepsNewer
<1>2. NewerInv /\ [SystemNext]_system_vars =>
        [\A b \in Buckets, n \in Names :
           Daemon(n[1]) /\ bucket[b][n] # None /\ bucket'[b][n] # bucket[b][n]
             => bucket'[b][n] # None /\ NoOlderData(bucket'[b][n], bucket[b][n])]_vars
  BY SystemStep, UploadKeepsNewer, RestoreKeepsBuckets
<1>3. SystemInit => NewerInv
  BY InitNewer DEF SystemInit
<1>4. SystemInv => TypeOK
  BY DEF SystemInv, SystemTypeOK
<1> QED
  BY SystemInvariant, <1>1, <1>2, <1>3, <1>4, PTL DEF SystemSpec, OverwriteKeepsNewer

-----------------------------------------------------------------------------
(* What a restore puts back, when nobody else writes.                      *)

\* What makes RestoreExact inductive: a pair of the archive is to do, or missed, or put.
ExactInv ==
  \A r \in Restorers : rstep[r] = "put" =>
    \A k \in Keys \ missed[r] :
      KVOf(file[r].archive)[k] # None
        => k \in todo[r] \/ kv[k] = KVOf(file[r].archive)[k]

\* Users that pause and backups leave the keys of a restore as they are.
LEMMA OthersKeepExact ==
  ASSUME UsersPause, SystemInv, ExactInv, Users \/ BackupNext, UNCHANGED restore_vars
  PROVE  ExactInv'
<1> SUFFICES ASSUME NEW r \in Restorers, rstep[r] = "put", NEW k \in Keys
             PROVE  kv'[k] = kv[k]
  BY DEF ExactInv, restore_vars
<1>1. CASE Users
  BY <1>1 DEF Users, Restoring
<1>2. CASE BackupNext
  <2>1. kv \in [AllKeys -> Vals \cup Time \cup {None}]
    BY DEF SystemInv, SystemTypeOK, TypeOK, ClusterTypeOK, KVTables
  <2>2. ASSUME NEW p \in Procs, Ack(p)
        PROVE  kv'[k] = kv[k]
    BY <2>1, <2>2, ClusterAssumption DEF Ack, AllKeys
  <2>3. UNCHANGED kv \/ \E p \in Procs : Ack(p)
    BY <1>2 DEF BackupNext, Work, StartRound, List, Prepare, Compress, Encrypt, Upload, Cleanup,
                Fire, Crash, Restart, cluster_vars
  <2> QED
    BY <2>2, <2>3
<1> QED
  BY <1>1, <1>2

\* The one restore puts its pairs one by one.
LEMMA RestoreKeepsExact ==
  ASSUME \A r, q \in Restorers : r = q, SystemInv, ExactInv, RestoreNext
  PROVE  ExactInv'
<1>1. /\ rstep \in [Restorers -> RestoreSteps]
      /\ todo \in [Restorers -> SUBSET AllKeys] /\ missed \in [Restorers -> SUBSET AllKeys]
      /\ kv \in [AllKeys -> Vals \cup Time \cup {None}]
  BY DEF SystemInv, SystemTypeOK, RestoreTypeOK, TypeOK, ClusterTypeOK, KVTables
<1>2. PICK r \in Restorers : \/ \E n \in Names \cup Legacy : Download(r, n)
                             \/ RestoreWork(r) \/ KillRestore(r)
  BY DEF RestoreNext
<1> SUFFICES ASSUME rstep'[r] = "put", NEW k \in Keys, k \notin missed'[r],
                    KVOf(file'[r].archive)[k] # None
             PROVE  k \in todo'[r] \/ kv'[k] = KVOf(file'[r].archive)[k]
  BY DEF ExactInv
<1>3. CASE Load(r)
  BY <1>1, <1>3 DEF Load, KeysOf, AllKeys
<1>4. ASSUME NEW j \in AllKeys, PutKey(r, j)
      PROVE  k \in todo'[r] \/ kv'[k] = KVOf(file'[r].archive)[k]
  <2>1. /\ rstep[r] = "put" /\ UNCHANGED file
        /\ todo'[r] = todo[r] \ {j}
    BY <1>1, <1>4 DEF PutKey
  <2>2. CASE k = j
    <3>1. kv' = [kv EXCEPT ![j] = KVOf(file[r].archive)[j]]
      BY <1>1, <1>4, <2>2 DEF PutKey
    <3> QED
      BY <1>1, <2>1, <2>2, <3>1
  <2>3. CASE k # j
    <3>1. k \in AllKeys
      BY DEF AllKeys
    <3>2. kv' = kv \/ kv' = [kv EXCEPT ![j] = KVOf(file[r].archive)[j]]
      BY <1>4 DEF PutKey
    <3>3. kv'[k] = kv[k]
      BY <1>1, <2>3, <3>1, <3>2
    <3>4. missed' = missed \/ missed' = [missed EXCEPT ![r] = @ \cup {j}]
      BY <1>4 DEF PutKey
    <3>5. k \notin missed[r]
      BY <1>1, <3>4
    <3> QED
      BY <2>1, <2>3, <3>3, <3>5 DEF ExactInv
  <2> QED
    BY <2>2, <2>3
<1>5. CASE (\E n \in Names \cup Legacy : Download(r, n)) \/ CheckEncryption(r) \/ Extract(r)
  BY <1>1, <1>5 DEF Download, CheckEncryption, Extract, EndRestore, StepTo
<1>6. CASE Finish(r) \/ KillRestore(r)
  BY <1>1, <1>6 DEF Finish, KillRestore, EndRestore, StepTo
<1> QED
  BY <1>2, <1>3, <1>4, <1>5, <1>6 DEF RestoreWork

\* A restore that ends well has nothing to do.
LEMMA DoneIsFinish ==
  ASSUME SystemInv, [SystemNext]_system_vars,
         NEW r \in Restorers, rstep[r] = "put", rstep'[r] = "done"
  PROVE  todo[r] = {}
<1>1. rstep \in [Restorers -> RestoreSteps]
  BY DEF SystemInv, SystemTypeOK, RestoreTypeOK
<1>2. RestoreNext
  BY SystemStep DEF restore_vars
<1>3. PICK q \in Restorers : \/ \E n \in Names \cup Legacy : Download(q, n)
                             \/ RestoreWork(q) \/ KillRestore(q)
  BY <1>2 DEF RestoreNext
<1>4. CASE Finish(q)
  BY <1>1, <1>4 DEF Finish, EndRestore, StepTo
<1>5. CASE (\E n \in Names \cup Legacy : Download(q, n)) \/ KillRestore(q)
  BY <1>1, <1>5 DEF Download, KillRestore, EndRestore, StepTo
<1>6. CASE CheckEncryption(q) \/ Extract(q) \/ Load(q) \/ \E k \in AllKeys : PutKey(q, k)
  BY <1>1, <1>6 DEF CheckEncryption, Extract, Load, PutKey, EndRestore, StepTo
<1> QED
  BY <1>3, <1>4, <1>5, <1>6 DEF RestoreWork

\* A restore during which nobody writes ends in a table that holds every pair of the
\* archive, except those whose error it counted.
THEOREM RestoreIsExact ==
  ASSUME UsersPause, \A r, q \in Restorers : r = q
  PROVE  SystemSpec => RestoreExact
<1>1. SystemInit => ExactInv
  BY DEF SystemInit, RestoreInit, ExactInv
<1>2. SystemInv /\ ExactInv /\ [SystemNext]_system_vars => ExactInv'
  <2> SUFFICES ASSUME SystemInv, ExactInv, [SystemNext]_system_vars PROVE ExactInv'
    OBVIOUS
  <2>1. CASE UNCHANGED system_vars
    BY <2>1 DEF system_vars, vars, cluster_vars, restore_vars, ExactInv
  <2> QED
    BY <2>1, OthersKeepExact, RestoreKeepsExact DEF SystemNext, Users
<1>3. SystemInv /\ ExactInv /\ [SystemNext]_system_vars =>
        [\A r \in Restorers : rstep[r] = "put" /\ rstep'[r] = "done" =>
           \A k \in Keys \ missed[r] :
             KVOf(file[r].archive)[k] # None => kv[k] = KVOf(file[r].archive)[k]]_system_vars
  BY DoneIsFinish DEF ExactInv
<1> QED
  BY SystemInvariant, <1>1, <1>2, <1>3, PTL DEF SystemSpec, RestoreExact

-----------------------------------------------------------------------------
(* The system implements the log.                                          *)

\* An upload stores one backup, or leaves the log as it is.
LEMMA UploadIsStore ==
  ASSUME SystemInv, NEW p \in Procs, NEW b \in {"s3", "gcs"}, Upload(p, b)
  PROVE  Log!Next \/ UNCHANGED <<StoredNames, kv[LastBackup]>>
<1>1. TypeOK
  BY DEF SystemInv, SystemTypeOK
<1>2. UNCHANGED kv
  BY DEF Upload
<1>3. PICK m \in Names : m = <<p, start[p]>>
  BY <1>1 DEF TypeOK, Names
<1>4. bucket' = [bucket EXCEPT ![b][m] = Archive(p)] \/ bucket' = bucket
  BY <1>3 DEF Upload
<1>5. \A c \in Buckets, n \in Names : n # m => bucket'[c][n] = bucket[c][n]
  BY <1>1, <1>4 DEF TypeOK, ClusterTypeOK
<1>6. \A n \in Names : n # m => (Stored(n)' <=> Stored(n))
  BY <1>5 DEF Stored
<1>7. Stored(m) => Stored(m)'
  <2>1. Archive(p) # None
    BY <1>1, ArchiveType, NoneAssumption
  <2>2. \A c \in Buckets : bucket'[c][m] = bucket[c][m] \/ bucket'[c][m] = Archive(p)
    BY <1>1, <1>3, <1>4 DEF TypeOK, ClusterTypeOK
  <2> QED
    BY <2>1, <2>2 DEF Stored
<1>8. StoredNames' = {n \in Names : Stored(n)'}
  BY DEF StoredNames, Names
<1>9. CASE Stored(m) \/ ~Stored(m)'
  <2>1. Stored(m)' <=> Stored(m)
    BY <1>7, <1>9
  <2>2. \A n \in Names : Stored(n)' <=> Stored(n)
    BY <1>6, <2>1
  <2>3. UNCHANGED StoredNames
    BY <1>8, <2>2 DEF StoredNames
  <2> QED
    BY <1>2, <2>3
<1>10. CASE ~Stored(m) /\ Stored(m)'
  <2>1. \A n \in Names : Stored(n)' <=> Stored(n) \/ n = m
    BY <1>6, <1>10
  <2>2. StoredNames' = StoredNames \cup {m}
    BY <1>3, <1>8, <2>1 DEF StoredNames
  <2> QED
    BY <1>2, <1>3, <2>2 DEF Log!Next, Log!Store, Names
<1> QED
  BY <1>9, <1>10

\* Setting the key to the time of a stored backup marks it.
LEMMA PutIsMark ==
  ASSUME UNCHANGED bucket,
         \/ UNCHANGED kv[LastBackup]
         \/ kv'[LastBackup] \in Time /\ StoredAt(kv'[LastBackup])
  PROVE  Log!Next \/ UNCHANGED <<StoredNames, kv[LastBackup]>>
<1>1. UNCHANGED StoredNames
  BY DEF StoredNames, Stored, Names
<1>2. CASE kv'[LastBackup] \in Time /\ StoredAt(kv'[LastBackup])
  <2>1. PICK p \in Procs : Stored(<<p, kv'[LastBackup]>>)
    BY <1>2 DEF StoredAt
  <2>2. <<p, kv'[LastBackup]>> \in StoredNames
    BY <1>2, <2>1 DEF StoredNames, Names
  <2>3. kv'[LastBackup] \in Log!TimesStored
    BY <2>2 DEF Log!TimesStored
  <2> QED
    BY <1>1, <1>2, <2>3 DEF Log!Next, Log!Mark
<1> QED
  BY <1>1, <1>2

\* A step of the system is a step of the log or leaves it as it is.
LEMMA StepIsLogStep ==
  ASSUME SystemInv, [SystemNext]_system_vars
  PROVE  Log!Next \/ UNCHANGED <<StoredNames, kv[LastBackup]>>
<1>1. TypeOK /\ StoredInv /\ CapturedStored /\ RestoreInv
  BY DEF SystemInv, SystemTypeOK
<1>2. kv \in [AllKeys -> Vals \cup Time \cup {None}]
  BY <1>1 DEF TypeOK, ClusterTypeOK, KVTables
<1>3. ASSUME NEW p \in Procs, NEW b \in {"s3", "gcs"}, Upload(p, b)
      PROVE  Log!Next \/ UNCHANGED <<StoredNames, kv[LastBackup]>>
  BY <1>3, UploadIsStore
<1>4. ASSUME NEW p \in Procs, Ack(p)
      PROVE  Log!Next \/ UNCHANGED <<StoredNames, kv[LastBackup]>>
  <2>1. StoredAt(start[p]) /\ start[p] \in Time
    BY <1>1, <1>4 DEF StoredInv, UploadsBehind, Behind, Ack, StoredAt, Stored, TypeOK
  <2>2. UNCHANGED kv[LastBackup] \/ kv'[LastBackup] = start[p]
    BY <1>2, <1>4 DEF Ack, AllKeys
  <2> QED
    BY <1>4, <2>1, <2>2, PutIsMark DEF Ack
<1>5. ASSUME NEW r \in Restorers, NEW k \in AllKeys, PutKey(r, k)
      PROVE  Log!Next \/ UNCHANGED <<StoredNames, kv[LastBackup]>>
  <2> DEFINE table == KVOf(file[r].archive)
  <2>1. table \in GoodTables /\ table[k] # None
    BY <1>1, <1>5 DEF PutKey, RestoreInv, Restoring, CapturedStored, KeysOf
  <2> HIDE DEF table
  <2>2. UNCHANGED kv[LastBackup] \/ (k = LastBackup /\ kv'[LastBackup] = table[LastBackup])
    BY <1>2, <1>5 DEF PutKey, AllKeys, table
  <2>3. k = LastBackup => table[LastBackup] \in Time /\ StoredAt(table[LastBackup])
    BY <2>1 DEF GoodTables, KVTables
  <2> QED
    BY <1>5, <2>2, <2>3, PutIsMark DEF PutKey
<1>6. CASE UNCHANGED <<bucket, kv>>
  BY <1>6 DEF StoredNames, Stored, Names
<1>7. CASE Environment
  <2>1. UNCHANGED bucket /\ kv'[LastBackup] = kv[LastBackup]
    BY <1>2, <1>7, ClusterAssumption
       DEF Environment, UserPut, EditPQ, EditACL, Tick, AllKeys
  <2> QED
    BY <2>1, PutIsMark
<1>8. \/ \E p \in Procs, b \in {"s3", "gcs"} : Upload(p, b)
      \/ \E p \in Procs : Ack(p)
      \/ \E r \in Restorers, k \in AllKeys : PutKey(r, k)
      \/ UNCHANGED <<bucket, kv>>
      \/ Environment
  <2>1. CASE [Next]_vars
    BY <2>1 DEF Next, vars, cluster_vars, BackupNext, Work, StartRound, List, Prepare,
                Compress, Encrypt, Cleanup, Fire, Crash, Restart
  <2>2. CASE RestoreNext
    BY <2>2 DEF RestoreNext, RestoreWork, Download, CheckEncryption, Extract, Load, Finish,
                KillRestore, cluster_vars
  <2> QED
    BY <2>1, <2>2, SystemStep
<1> QED
  BY <1>3, <1>4, <1>5, <1>6, <1>7, <1>8

\* Whatever fails, no stored backup is lost, and the key is only ever set to the time of a
\* stored one.
THEOREM SystemImplementsLog == SystemSpec => ImplementsLog
<1>1. SystemInit => Log!Init
  <2> SUFFICES ASSUME SystemInit PROVE Log!Init
    OBVIOUS
  <2>1. kv[LastBackup] = None
    BY DEF SystemInit, BackupInit, ClusterInit, EmptyKV, AllKeys
  <2>2. \A b \in Buckets, n \in Names : bucket[b][n] = None
    BY ClusterAssumption DEF SystemInit, BackupInit, ClusterInit
  <2>3. StoredNames = {}
    BY <2>2, ClusterAssumption DEF StoredNames, Stored
  <2> QED
    BY <2>1, <2>3 DEF Log!Init
<1>2. SystemInv /\ [SystemNext]_system_vars
        => [Log!Next]_<<StoredNames, kv[LastBackup]>>
  BY StepIsLogStep
<1> QED
  BY SystemInvariant, <1>1, <1>2, PTL DEF SystemSpec, ImplementsLog, Log!Spec
=============================================================================
