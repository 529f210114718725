-------------------------- MODULE BackupRunnerProofs --------------------------
(***************************************************************************)
(* Proofs about BackupRunner, for any processes, keys, buckets, interval   *)
(* and bounds.                                                             *)
(***************************************************************************)
EXTENDS BackupRunner, FileCounts, TLAPS

-----------------------------------------------------------------------------
(* Facts about numbers and about the definitions.                          *)

\* A natural number over a positive one, and a multiple, are natural.
LEMMA DivNat ==
  ASSUME NEW m \in Nat, NEW n \in Nat \ {0}
  PROVE  m \div n \in Nat
  BY SMT

\* A multiple of a natural number is natural.
LEMMA MultNat ==
  ASSUME NEW m \in Nat, NEW n \in Nat
  PROVE  m * n \in Nat
  BY SMT

\* The next second is a time while the bound is not reached.
LEMMA NextSecond ==
  ASSUME NEW m \in Time, m < MaxTime
  PROVE  m + 1 \in Time
  BY ClusterAssumption DEF Time

\* The archive of a process is an archive.
LEMMA ArchiveType ==
  ASSUME TypeOK, NEW p \in Procs
  PROVE  Archive(p) \in Archives
  BY DEF Archive, Archives, TypeOK

\* What a list call returns is a listing.
LEMMA ListingType ==
  ASSUME TypeOK, NEW t \in Tables
  PROVE  [val |-> Content(t), at |-> now] \in Listing
  BY DEF Content, Listing, Contents, TypeOK, ClusterTypeOK, Tables

\* The end of a process leaves its memory well typed.
LEMMA EndType ==
  ASSUME TypeOK, NEW p \in Procs, NEW status \in Resting, End(p, status)
  PROVE  /\ pc'      \in [Procs -> Steps]
         /\ start'   \in [Procs -> Time]
         /\ client'  \in [Procs -> [Tables -> Listing \cup {None}]]
         /\ due'     \in [Procs -> Nat]
         /\ pending' \in [Procs -> BOOLEAN]
<1>1. 0 \in Time
  BY ClusterAssumption DEF Time
<1>2. NoData \in [Tables -> Listing \cup {None}]
  BY DEF NoData
<1> QED
  BY <1>1, <1>2 DEF TypeOK, End, GoTo, Steps

\* The budget stays within its bound.
LEMMA FaultType ==
  ASSUME TypeOK, Fault \/ NoFault
  PROVE  faults' \in 0..MaxFaults
  BY ClusterAssumption DEF TypeOK, ClusterTypeOK, Fault, NoFault

\* An upload leaves an object as it was, or it is the archive of the process.
LEMMA UploadAdds ==
  ASSUME TypeOK, NEW p \in Procs, NEW c \in {"s3", "gcs"}, Upload(p, c),
         NEW b \in Buckets, NEW n \in Names \cup Legacy
  PROVE  bucket'[b][n] = bucket[b][n] \/ bucket'[b][n] = Archive(p)
<1> DEFINE m == <<p, start[p]>>
<1>1. bucket \in [Buckets -> [Names \cup Legacy -> Archives \cup {None}]]
  BY DEF TypeOK, ClusterTypeOK
<1>2. bucket' = [bucket EXCEPT ![c][m] = Archive(p)] \/ bucket' = bucket
  BY DEF Upload
<1> HIDE DEF m
<1> QED
  BY <1>1, <1>2

-----------------------------------------------------------------------------
(* Type correctness.                                                       *)

\* The initial states have their types.
LEMMA InitTypeOK == BackupInit => TypeOK
<1> SUFFICES ASSUME BackupInit PROVE TypeOK
  OBVIOUS
<1>1. 0 \in Time
  BY ClusterAssumption DEF Time
<1>2. EmptyKV \in KVTables
  BY DEF EmptyKV, KVTables, AllKeys
<1>3. LegacyKV \in KVTables
  BY ClusterAssumption DEF LegacyKV, KVTables, AllKeys
<1>4. \A is_v1 \in BOOLEAN : LegacyArchive(is_v1) \in Archives
  BY <1>1, <1>3 DEF LegacyArchive, Archives, Listing, Contents
<1>5. bucket \in [Buckets -> [Names \cup Legacy -> Archives \cup {None}]]
  BY <1>4 DEF BackupInit, ClusterInit
<1>6. ClusterTypeOK
  BY <1>1, <1>2, <1>5, ClusterAssumption DEF BackupInit, ClusterInit, ClusterTypeOK
<1>7. pc \in [Procs -> Steps]
  BY DEF BackupInit, Steps
<1>8. client \in [Procs -> [Tables -> Listing \cup {None}]]
  BY DEF BackupInit, NoData
<1> QED
  BY <1>1, <1>6, <1>7, <1>8, BackupAssumption DEF BackupInit, TypeOK

\* A step of the world outside keeps the types.
LEMMA EnvironmentTypeOK ==
  ASSUME TypeOK, Environment, UNCHANGED proc_vars
  PROVE  TypeOK'
<1>1. ClusterTypeOK'
  <2>1. ASSUME NEW k \in Keys, NEW v \in Vals \cup {None}, UserPut(k, v)
        PROVE  ClusterTypeOK'
    <3>1. kv' \in KVTables
      BY <2>1, ClusterAssumption DEF UserPut, ClusterTypeOK, TypeOK, KVTables, AllKeys
    <3> QED
      BY <2>1, <3>1 DEF UserPut, ClusterTypeOK, TypeOK
  <2>2. CASE EditPQ
    BY <2>2 DEF EditPQ, ClusterTypeOK, TypeOK
  <2>3. CASE EditACL
    BY <2>3 DEF EditACL, ClusterTypeOK, TypeOK
  <2>4. CASE Tick
    BY <2>4, NextSecond DEF Tick, ClusterTypeOK, TypeOK
  <2> QED
    BY <2>1, <2>2, <2>3, <2>4 DEF Environment
<1> QED
  BY <1>1 DEF TypeOK, proc_vars, memory

\* A step of a process keeps the types.
LEMMA BackupTypeOK ==
  ASSUME TypeOK, NEW p \in Procs, Work(p) \/ Fire(p) \/ Crash(p) \/ Restart(p)
  PROVE  TypeOK'
<1> USE DEF TypeOK
<1>1. CASE Fire(p)
  <2>1. Interval * (1 + ((now - due[p]) \div Interval)) \in Nat
    <3>1. now - due[p] \in Nat
      BY <1>1 DEF Fire, ClusterTypeOK, Time
    <3>2. (now - due[p]) \div Interval \in Nat
      BY <3>1, DivNat, BackupAssumption
    <3> QED
      BY <3>2, MultNat, BackupAssumption
  <2>2. due' \in [Procs -> Nat]
    BY <1>1, <2>1 DEF Fire
  <2> QED
    BY <1>1, <2>2 DEF Fire, cluster_vars, ClusterTypeOK
<1>2. CASE StartRound(p)
  BY <1>2 DEF StartRound, GoTo, cluster_vars, ClusterTypeOK, Steps, Tables
<1>3. ASSUME NEW t \in Tables, List(p, t)
      PROVE  TypeOK'
  <2>1. client' \in [Procs -> [Tables -> Listing \cup {None}]]
    <3> DEFINE answer == [val |-> Content(t), at |-> now]
    <3>1. answer \in Listing
      BY ListingType
    <3> HIDE DEF answer
    <3>2. CASE client' = [client EXCEPT ![p][t] = answer]
      BY <3>1, <3>2
    <3> QED
      BY <1>3, <3>2 DEF List, answer
  <2>2. pc' \in [Procs -> Steps]
    BY <1>3 DEF List, GoTo, AfterList, Steps, Tables
  <2> QED
    BY <1>3, <2>1, <2>2, FaultType DEF List, ClusterTypeOK
<1>4. CASE Prepare(p)
  <2>1. Dir(p) \in Paths
    BY DEF Dir, Paths
  <2>2. disk' \in [Procs -> SUBSET Paths]
    BY <1>4, <2>1 DEF Prepare
  <2>3. faults' \in 0..MaxFaults
    BY <1>4, FaultType DEF Prepare, Die
  <2>4. ClusterTypeOK'
    BY <1>4, <2>3 DEF Prepare, ClusterTypeOK
  <2>5. CASE NoFault /\ Proceed(p, "compress")
    BY <1>4, <2>2, <2>4, <2>5 DEF Prepare, Proceed, GoTo, memory, Steps
  <2>6. CASE Die(p)
    BY <1>4, <2>2, <2>4, <2>6, EndType DEF Prepare, Die, Resting
  <2> QED
    BY <1>4, <2>5, <2>6 DEF Prepare
<1>5. CASE Compress(p)
  <2>1. Tar(p) \in Paths
    BY DEF Tar, Paths
  <2>2. disk' \in [Procs -> SUBSET Paths]
    BY <1>5, <2>1 DEF Compress
  <2>3. faults' \in 0..MaxFaults
    BY <1>5, FaultType DEF Compress, Die
  <2>4. ClusterTypeOK'
    BY <1>5, <2>3 DEF Compress, ClusterTypeOK
  <2>5. sealed' \in [Procs -> SUBSET Paths]
    BY <1>5 DEF Compress
  <2>6. CASE NoFault /\ Proceed(p, "encrypt")
    BY <2>2, <2>4, <2>5, <2>6 DEF Proceed, GoTo, memory, Steps
  <2>7. CASE Die(p)
    BY <2>2, <2>4, <2>5, <2>7, EndType DEF Die, Resting
  <2> QED
    BY <1>5, <2>6, <2>7 DEF Compress
<1>6. CASE Encrypt(p)
  <2>1. Dir(p) \in Paths
    BY DEF Dir, Paths
  <2>2. sealed' \in [Procs -> SUBSET Paths]
    BY <1>6, <2>1 DEF Encrypt, EncryptFile
  <2> QED
    BY <1>6, <2>2 DEF Encrypt, Proceed, GoTo, memory, cluster_vars, ClusterTypeOK, Steps
<1>7. ASSUME NEW b \in {"s3", "gcs"}, Upload(p, b)
      PROVE  TypeOK'
  <2>1. bucket' \in [Buckets -> [Names \cup Legacy -> Archives \cup {None}]]
    <3>1. <<p, start[p]>> \in Names
      BY DEF Names
    <3>2. bucket \in [Buckets -> [Names \cup Legacy -> Archives \cup {None}]]
      BY DEF ClusterTypeOK
    <3>3. CASE bucket' = [bucket EXCEPT ![b][<<p, start[p]>>] = Archive(p)]
      BY <3>1, <3>2, <3>3, ArchiveType
    <3> QED
      BY <1>7, <3>2, <3>3 DEF Upload
  <2>2. faults' \in 0..MaxFaults
    BY <1>7, FaultType DEF Upload, Die
  <2>3. ClusterTypeOK'
    BY <1>7, <2>1, <2>2 DEF Upload, ClusterTypeOK
  <2>4. CASE NoFault /\ Proceed(p, AfterUpload[b])
    BY <1>7, <2>3, <2>4 DEF Upload, Proceed, GoTo, memory, AfterUpload, Steps
  <2>5. CASE Die(p)
    BY <1>7, <2>3, <2>5, EndType DEF Upload, Die, Resting
  <2> QED
    BY <1>7, <2>4, <2>5 DEF Upload
<1>8. CASE Ack(p)
  <2>1. kv' \in KVTables
    BY <1>8 DEF Ack, ClusterTypeOK, KVTables, AllKeys
  <2>2. faults' \in 0..MaxFaults
    BY <1>8, FaultType DEF Ack, Die
  <2>3. ClusterTypeOK'
    BY <1>8, <2>1, <2>2 DEF Ack, ClusterTypeOK
  <2>4. CASE NoFault /\ Proceed(p, "cleanup")
    BY <1>8, <2>3, <2>4 DEF Ack, Proceed, GoTo, memory, Steps
  <2>5. CASE Die(p)
    BY <1>8, <2>3, <2>5, EndType DEF Ack, Die, Resting
  <2> QED
    BY <1>8, <2>4, <2>5 DEF Ack
<1>9. CASE Cleanup(p)
  <2>1. disk' \in [Procs -> SUBSET Paths]
    BY <1>9 DEF Cleanup
  <2>2. faults' \in 0..MaxFaults
    BY <1>9, FaultType DEF Cleanup
  <2>3. ClusterTypeOK'
    BY <1>9, <2>2 DEF Cleanup, ClusterTypeOK
  <2>4. CASE Proceed(p, "idle")
    BY <1>9, <2>1, <2>3, <2>4 DEF Cleanup, Proceed, GoTo, memory, Steps
  <2>5. CASE End(p, "done")
    BY <1>9, <2>1, <2>3, <2>5, EndType DEF Cleanup, Resting
  <2> QED
    BY <1>9, <2>4, <2>5 DEF Cleanup
<1>10. CASE Crash(p)
  <2>1. ClusterTypeOK'
    BY <1>10, FaultType DEF Crash, Die, ClusterTypeOK
  <2> QED
    BY <1>10, <2>1, EndType DEF Crash, Die, Resting
<1>11. CASE Restart(p)
  <2>1. now + Interval \in Nat
    BY BackupAssumption DEF ClusterTypeOK, Time
  <2> QED
    BY <1>11, <2>1 DEF Restart, GoTo, cluster_vars, ClusterTypeOK, Steps
<1> QED
  BY <1>1, <1>2, <1>3, <1>4, <1>5, <1>6, <1>7, <1>8, <1>9, <1>10, <1>11 DEF Work

\* Every step keeps the types, an idle one too.
LEMMA NextTypeOK ==
  ASSUME TypeOK, [Next]_vars
  PROVE  TypeOK'
<1>1. CASE UNCHANGED vars
  BY <1>1 DEF vars, cluster_vars, proc_vars, memory, TypeOK, ClusterTypeOK
<1> QED
  BY <1>1, EnvironmentTypeOK, BackupTypeOK DEF Next, BackupNext

\* Every variable of the runner and of the cluster keeps its type, whatever fails.
THEOREM TypeCorrect == Spec => []TypeOK
<1>1. TypeOK /\ [Next]_vars => TypeOK'
  BY NextTypeOK
<1> QED
  BY InitTypeOK, <1>1, PTL DEF Spec

-----------------------------------------------------------------------------
(* The key LastBackup names a stored backup.                               *)

\* A step that stores no object, writes no LastBackup, and lets a process come to or stay
\* at an upload or the key only where it already was, keeps the invariant.
LEMMA StoredFrame ==
  ASSUME StoredInv, TypeOK',
         UNCHANGED bucket,
         kv'[LastBackup] = kv[LastBackup],
         \A q \in Procs : \/ pc'[q] \notin {"gcs", "ack"}
                          \/ pc'[q] = pc[q] /\ start'[q] = start[q]
  PROVE  StoredInv'
  BY DEF StoredInv, UploadsBehind, Behind, LastBackupStored, StoredAt, Stored

\* An upload keeps the invariant: it only adds objects, and the process goes on only
\* with the object stored.
LEMMA StoredUpload ==
  ASSUME StoredInv, TypeOK', NEW p \in Procs, NEW b \in {"s3", "gcs"}, Upload(p, b)
  PROVE  StoredInv'
<1> DEFINE n == <<p, start[p]>>
<1>1. /\ pc \in [Procs -> Steps] /\ start \in [Procs -> Time]
      /\ bucket \in [Buckets -> [Names \cup Legacy -> Archives \cup {None}]]
  BY DEF StoredInv, TypeOK, ClusterTypeOK
<1>2. n \in Names
  BY <1>1 DEF Names
<1>3. Archive(p) # None
  BY ArchiveType, NoneAssumption DEF StoredInv
<1>4. \A c \in Buckets, m \in Names : bucket[c][m] # None => bucket'[c][m] # None
  BY <1>1, <1>2, <1>3 DEF Upload
<1>5. \A q \in Procs \ {p} : pc'[q] = pc[q] /\ start'[q] = start[q]
  BY <1>1 DEF Upload, Proceed, GoTo, memory, Die, End
<1>6. LastBackupStored'
  <2>1. kv' = kv /\ LastBackupStored
    BY DEF Upload, StoredInv
  <2>2. kv[LastBackup] \in Time \cup {None}
    BY DEF StoredInv, TypeOK, ClusterTypeOK, KVTables
  <2>3. kv[LastBackup] # None /\ StoredAt(kv[LastBackup]) => StoredAt(kv[LastBackup])'
    BY <1>4, <2>1, <2>2 DEF StoredAt, Stored, Names
  <2> QED
    BY <2>1, <2>2, <2>3 DEF LastBackupStored
<1>7. ASSUME NEW q \in Procs, NEW c \in Behind(q)'
      PROVE  bucket'[c][<<q, start'[q]>>] # None
  <2>1. CASE q # p
    <3>1. c \in Behind(q) /\ c \in Buckets /\ <<q, start[q]>> \in Names
      BY <1>1, <1>5, <1>7, <2>1 DEF Behind, Names
    <3> QED
      BY <1>4, <1>5, <2>1, <3>1 DEF StoredInv, UploadsBehind
  <2>2. CASE q = p /\ Die(p)
    BY <1>1, <1>7, <2>2 DEF Die, End, GoTo, Behind
  <2>3. CASE q = p /\ Proceed(p, AfterUpload[b])
    <3>1. start' = start /\ pc[p] = b /\ pc'[p] = AfterUpload[b] /\ c \in Buckets
      BY <1>1, <1>7, <2>3 DEF Upload, Proceed, GoTo, memory, Behind
    <3>2. CASE c = b
      <4>1. b \in Buckets
        BY <3>1, <3>2
      <4>2. bucket' = [bucket EXCEPT ![b][n] = Archive(p)] \/ Die(p)
        BY <4>1 DEF Upload
      <4>3. ~Die(p)
        BY <1>1, <3>1 DEF Die, End, GoTo, AfterUpload
      <4> QED
        BY <1>1, <1>2, <1>3, <2>3, <3>1, <3>2, <4>2, <4>3
    <3>3. CASE c # b
      <4>1. c \in Behind(p)
        BY <1>7, <2>3, <3>1, <3>3, ClusterAssumption DEF AfterUpload, Behind
      <4> QED
        BY <1>2, <1>4, <2>3, <3>1, <4>1 DEF StoredInv, UploadsBehind
    <3> QED
      BY <3>2, <3>3
  <2> QED
    BY <2>1, <2>2, <2>3 DEF Upload
<1> QED
  BY <1>6, <1>7 DEF StoredInv, UploadsBehind

\* Writing the key keeps the invariant: it names the archive just stored.
LEMMA StoredAck ==
  ASSUME StoredInv, TypeOK', NEW p \in Procs, Ack(p)
  PROVE  StoredInv'
<1>1. pc \in [Procs -> Steps] /\ start \in [Procs -> Time]
  BY DEF StoredInv, TypeOK
<1>2. UploadsBehind'
  BY <1>1 DEF StoredInv, UploadsBehind, Behind, Ack, Proceed, GoTo, memory, Die, End
<1>3. StoredAt(start[p])
  BY DEF StoredInv, UploadsBehind, Behind, Ack, StoredAt, Stored
<1>4. LastBackupStored'
  <2>1. kv'[LastBackup] = start[p] \/ kv'[LastBackup] = kv[LastBackup]
    BY DEF Ack, StoredInv, TypeOK, ClusterTypeOK, KVTables, AllKeys
  <2> QED
    BY <1>3, <2>1 DEF Ack, StoredInv, LastBackupStored, StoredAt, Stored
<1> QED
  BY <1>2, <1>4 DEF StoredInv

\* At first the key names nothing and no round is under way.
LEMMA InitStored == BackupInit => StoredInv
<1> SUFFICES ASSUME BackupInit PROVE StoredInv
  OBVIOUS
<1>1. UploadsBehind
  BY DEF BackupInit, UploadsBehind, Behind
<1>2. LastBackupStored
  BY DEF BackupInit, ClusterInit, EmptyKV, AllKeys, LastBackupStored
<1> QED
  BY <1>1, <1>2, InitTypeOK DEF StoredInv

\* Every step keeps the invariant of the key.
LEMMA NextStored ==
  ASSUME StoredInv, TypeOK', [Next]_vars
  PROVE  StoredInv'
<1>1. /\ pc \in [Procs -> Steps] /\ start \in [Procs -> Time]
      /\ kv \in [AllKeys -> Vals \cup Time \cup {None}]
  BY DEF StoredInv, TypeOK, ClusterTypeOK, KVTables
<1>2. CASE UNCHANGED vars
  BY <1>2, StoredFrame DEF vars, cluster_vars, proc_vars, memory
<1>3. CASE Environment /\ UNCHANGED proc_vars
  <2>1. UNCHANGED bucket
    BY <1>3 DEF Environment, UserPut, EditPQ, EditACL, Tick
  <2>2. kv'[LastBackup] = kv[LastBackup]
    BY <1>1, <1>3, ClusterAssumption
       DEF Environment, UserPut, EditPQ, EditACL, Tick, AllKeys
  <2> QED
    BY <1>3, <2>1, <2>2, StoredFrame DEF proc_vars, memory
<1>4. ASSUME NEW p \in Procs, Work(p) \/ Fire(p) \/ Crash(p) \/ Restart(p)
      PROVE  StoredInv'
  <2>1. CASE Fire(p)
    BY <2>1, StoredFrame DEF Fire, cluster_vars
  <2>2. CASE StartRound(p)
    <3>1. \A q \in Procs : \/ pc'[q] \notin {"gcs", "ack"}
                           \/ pc'[q] = pc[q] /\ start'[q] = start[q]
      BY <1>1, <2>2 DEF StartRound, GoTo
    <3>2. UNCHANGED <<bucket, kv>>
      BY <2>2 DEF StartRound, cluster_vars
    <3> QED
      BY <3>1, <3>2, StoredFrame
  <2>3. ASSUME NEW t \in Tables, List(p, t)
        PROVE  StoredInv'
    BY <1>1, <2>3, StoredFrame DEF List, GoTo, AfterList, Tables
  <2>4. CASE Prepare(p)
    <3>1. \A q \in Procs : \/ pc'[q] \notin {"gcs", "ack"}
                           \/ pc'[q] = pc[q] /\ start'[q] = start[q]
      BY <1>1, <2>4 DEF Prepare, Proceed, GoTo, memory, Die, End
    <3>2. UNCHANGED <<bucket, kv>>
      BY <2>4 DEF Prepare
    <3> QED
      BY <3>1, <3>2, StoredFrame
  <2>5. CASE Compress(p)
    <3>1. \A q \in Procs : \/ pc'[q] \notin {"gcs", "ack"}
                           \/ pc'[q] = pc[q] /\ start'[q] = start[q]
      BY <1>1, <2>5 DEF Compress, Proceed, GoTo, memory, Die, End
    <3>2. UNCHANGED <<bucket, kv>>
      BY <2>5 DEF Compress
    <3> QED
      BY <3>1, <3>2, StoredFrame
  <2>6. CASE Encrypt(p)
    BY <1>1, <2>6, StoredFrame DEF Encrypt, Proceed, GoTo, memory, cluster_vars
  <2>7. ASSUME NEW b \in {"s3", "gcs"}, Upload(p, b)
        PROVE  StoredInv'
    BY <2>7, StoredUpload
  <2>8. CASE Ack(p)
    BY <2>8, StoredAck
  <2>9. CASE Cleanup(p)
    <3>1. \A q \in Procs : \/ pc'[q] \notin {"gcs", "ack"}
                           \/ pc'[q] = pc[q] /\ start'[q] = start[q]
      BY <1>1, <2>9 DEF Cleanup, Proceed, GoTo, memory, End
    <3>2. UNCHANGED <<bucket, kv>>
      BY <2>9 DEF Cleanup
    <3> QED
      BY <3>1, <3>2, StoredFrame
  <2>10. CASE Crash(p)
    <3>1. \A q \in Procs : \/ pc'[q] \notin {"gcs", "ack"}
                           \/ pc'[q] = pc[q] /\ start'[q] = start[q]
      BY <1>1, <2>10 DEF Crash, Die, End, GoTo
    <3>2. UNCHANGED <<bucket, kv>>
      BY <2>10 DEF Crash
    <3> QED
      BY <3>1, <3>2, StoredFrame
  <2>11. CASE Restart(p)
    BY <1>1, <2>11, StoredFrame DEF Restart, GoTo, cluster_vars
  <2> QED
    BY <1>4, <2>1, <2>2, <2>3, <2>4, <2>5, <2>6, <2>7, <2>8, <2>9, <2>10, <2>11 DEF Work
<1> QED
  BY <1>2, <1>3, <1>4 DEF Next, BackupNext

\* Whatever fails or is killed, LastBackup never names a start time whose archive is
\* missing from a configured bucket.
THEOREM LastBackupIsStored == Spec => []LastBackupStored
<1>1. StoredInv /\ TypeOK' /\ [Next]_vars => StoredInv'
  BY NextStored
<1>2. StoredInv => LastBackupStored
  BY DEF StoredInv
<1> QED
  BY InitStored, TypeCorrect, <1>1, <1>2, PTL DEF Spec

-----------------------------------------------------------------------------
(* The answer of /health is true, where list calls succeed.                *)

\* A process whose memory, or life, is over has listed nothing.
LEMMA FreshEnd ==
  ASSUME FreshInv, NEW p \in Procs, NEW status \in Resting, End(p, status), now' = now
  PROVE  FreshClients'
<1>1. /\ pc \in [Procs -> Steps] /\ start \in [Procs -> Time]
      /\ client \in [Procs -> [Tables -> Listing \cup {None}]]
      /\ now \in Time
  BY DEF FreshInv, FreshClients, FreshObjects, StoredInv, TypeOK, ClusterTypeOK
<1>2. /\ pc' = [pc EXCEPT ![p] = status]
      /\ start' = [start EXCEPT ![p] = 0]
      /\ client' = [client EXCEPT ![p] = NoData]
  BY DEF End, GoTo
<1>3. ASSUME NEW q \in Procs
      PROVE  start'[q] <= now' /\ ReadSince(client'[q], Listed(q)', start'[q])
  <2>1. CASE q = p
    BY <1>1, <1>2, <2>1 DEF Listed, ReadSince, Resting, Time
  <2>2. CASE q # p
    BY <1>1, <1>2, <2>2 DEF Listed, FreshInv, FreshClients, FreshObjects
  <2> QED
    BY <2>1, <2>2
<1> QED
  BY <1>3 DEF FreshClients

\* A process that goes on with its memory as it is, having listed all tables or none of
\* them at the next step, keeps what is known of the processes.
LEMMA FreshProceed ==
  ASSUME FreshInv, NEW p \in Procs, NEW step \in Steps, Proceed(p, step), now' = now,
         Listed(p)' \subseteq Listed(p)
  PROVE  FreshClients'
<1>1. pc \in [Procs -> Steps]
  BY DEF FreshInv, FreshClients, FreshObjects, StoredInv, TypeOK
<1>2. UNCHANGED <<start, client>> /\ pc' = [pc EXCEPT ![p] = step]
  BY DEF Proceed, GoTo, memory
<1>3. \A q \in Procs : Listed(q)' \subseteq Listed(q)
  BY <1>1, <1>2 DEF Listed
<1> QED
  BY <1>2, <1>3 DEF FreshInv, FreshClients, FreshObjects, ReadSince

\* A successful list call reads the table at or after the start of the round.
LEMMA FreshList ==
  ASSUME FreshInv, ~ListMayFail, NEW p \in Procs, NEW t \in Tables, List(p, t)
  PROVE  FreshClients'
<1> DEFINE answer == [val |-> Content(t), at |-> now]
<1>1. /\ pc \in [Procs -> Steps] /\ start \in [Procs -> Time]
      /\ client \in [Procs -> [Tables -> Listing \cup {None}]]
      /\ now \in Time
  BY DEF FreshInv, FreshClients, FreshObjects, StoredInv, TypeOK, ClusterTypeOK
<1>2. answer \in Listing /\ answer # None /\ answer.at = now
  BY ListingType, NoneAssumption DEF FreshInv, FreshClients, FreshObjects, StoredInv
<1>3. /\ client' = [client EXCEPT ![p][t] = answer]
      /\ pc' = [pc EXCEPT ![p] = AfterList[t]] /\ pc[p] = t
      /\ UNCHANGED <<start, now>>
  BY DEF List, GoTo
<1> HIDE DEF answer
<1>4. ASSUME NEW q \in Procs
      PROVE  start'[q] <= now' /\ ReadSince(client'[q], Listed(q)', start'[q])
  <2>1. CASE q # p
    BY <1>1, <1>3, <2>1 DEF Listed, FreshInv, FreshClients, FreshObjects
  <2>2. CASE q = p
    <3>1. Listed(p)' = Listed(p) \cup {t}
      BY <1>1, <1>3 DEF Listed, AfterList, Tables
    <3>2. client'[p][t] = answer
      BY <1>1, <1>3
    <3>3. \A x \in Listed(p) : x \in Tables /\ client[p][x] # None /\ client[p][x].at >= start[p]
      BY DEF FreshInv, FreshClients, FreshObjects, ReadSince, Listed, Tables
    <3>4. \A x \in Tables \ {t} : client'[p][x] = client[p][x]
      BY <1>1, <1>3
    <3>5. start[p] <= now
      BY DEF FreshInv, FreshClients, FreshObjects
    <3>6. ReadSince(client'[p], Listed(p)', start[p])
      BY <1>1, <1>2, <3>1, <3>2, <3>3, <3>4, <3>5 DEF ReadSince, Time
    <3> QED
      BY <1>3, <2>2, <3>5, <3>6
  <2> QED
    BY <2>1, <2>2
<1> QED
  BY <1>4 DEF FreshClients

\* An upload stores what the round has read.
LEMMA FreshUpload ==
  ASSUME FreshInv, NEW p \in Procs, NEW b \in {"s3", "gcs"}, Upload(p, b)
  PROVE  FreshObjects'
<1> DEFINE m == <<p, start[p]>>
<1>1. /\ start \in [Procs -> Time]
      /\ bucket \in [Buckets -> [Names \cup Legacy -> Archives \cup {None}]]
  BY DEF FreshInv, FreshClients, FreshObjects, StoredInv, TypeOK, ClusterTypeOK
<1>2. ReadSince(Archive(p).data, Tables, m[2])
  BY DEF Upload, FreshInv, FreshClients, FreshObjects, Listed, Archive, ReadSince
<1>3. ASSUME NEW c \in Buckets, NEW n \in Names, bucket'[c][n] # None
      PROVE  ReadSince(bucket'[c][n].data, Tables, n[2])
  <2>1. CASE bucket'[c][n] = bucket[c][n]
    BY <1>3, <2>1 DEF FreshInv, FreshClients, FreshObjects
  <2>2. CASE bucket'[c][n] = Archive(p) /\ n = m
    BY <1>2, <2>2
  <2> HIDE DEF m
  <2>3. bucket' = [bucket EXCEPT ![b][m] = Archive(p)] \/ bucket' = bucket
    BY DEF Upload, m
  <2> QED
    BY <1>1, <2>1, <2>2, <2>3
<1> QED
  BY <1>3 DEF FreshObjects

\* At first nothing has been listed and no archive of this version is stored.
LEMMA InitFresh == BackupInit => FreshInv
<1> SUFFICES ASSUME BackupInit PROVE FreshInv
  OBVIOUS
<1>1. StoredInv
  BY InitStored
<1>2. \A p \in Procs : start[p] <= now /\ Listed(p) = {}
  BY DEF BackupInit, ClusterInit, Listed
<1>3. \A b \in Buckets, n \in Names : bucket[b][n] = None
  BY ClusterAssumption DEF BackupInit, ClusterInit
<1> QED
  BY <1>1, <1>2, <1>3 DEF FreshInv, FreshClients, FreshObjects, ReadSince

\* Every step keeps what is known of the times of reading.
LEMMA NextFresh ==
  ASSUME FreshInv, ~ListMayFail, StoredInv', [Next]_vars
  PROVE  FreshInv'
<1>1. /\ pc \in [Procs -> Steps] /\ start \in [Procs -> Time] /\ now \in Time
  BY DEF FreshInv, FreshClients, FreshObjects, StoredInv, TypeOK, ClusterTypeOK
<1>2. FreshClients /\ FreshObjects
  BY DEF FreshInv, FreshClients, FreshObjects
<1>3. FreshClients'
  <2>1. CASE UNCHANGED vars
    BY <1>2, <2>1 DEF vars, cluster_vars, proc_vars, memory, FreshClients, Listed
  <2>2. CASE Environment /\ UNCHANGED proc_vars
    <3>1. now' >= now /\ now' \in Nat
      BY <1>1, <2>2 DEF Environment, UserPut, EditPQ, EditACL, Tick, Time
    <3>2. \A p \in Procs : Listed(p)' = Listed(p)
      BY <2>2 DEF proc_vars, Listed
    <3> QED
      BY <1>1, <1>2, <2>2, <3>1, <3>2 DEF FreshClients, proc_vars, memory, Time
  <2>3. ASSUME NEW p \in Procs, Work(p) \/ Fire(p) \/ Crash(p) \/ Restart(p)
        PROVE  FreshClients'
    <3>1. CASE Fire(p)
      BY <1>2, <3>1 DEF Fire, cluster_vars, FreshClients, Listed
    <3>2. CASE StartRound(p)
      <4>1. \A q \in Procs : q # p => Listed(q)' = Listed(q) /\ start'[q] = start[q]
        BY <1>1, <3>2 DEF StartRound, GoTo, Listed
      <4>2. Listed(p)' = {} /\ start'[p] = now
        BY <1>1, <3>2 DEF StartRound, GoTo, Listed
      <4> QED
        BY <1>1, <1>2, <3>2, <4>1, <4>2
           DEF StartRound, cluster_vars, FreshClients, ReadSince, Time
    <3>3. ASSUME NEW t \in Tables, List(p, t)
          PROVE  FreshClients'
      BY <3>3, FreshList
    <3>4. CASE Prepare(p)
      <4>1. CASE Proceed(p, "compress")
        BY <1>1, <3>4, <4>1, FreshProceed DEF Prepare, Proceed, GoTo, Listed, Steps
      <4> QED
        BY <3>4, <4>1, FreshEnd DEF Prepare, Die, Resting
    <3>5. CASE Compress(p)
      <4>1. CASE Proceed(p, "encrypt")
        BY <1>1, <3>5, <4>1, FreshProceed DEF Compress, Proceed, GoTo, Listed, Steps
      <4> QED
        BY <3>5, <4>1, FreshEnd DEF Compress, Die, Resting
    <3>6. CASE Encrypt(p)
      BY <1>1, <3>6, FreshProceed DEF Encrypt, Proceed, GoTo, Listed, Steps, cluster_vars
    <3>7. ASSUME NEW b \in {"s3", "gcs"}, Upload(p, b)
          PROVE  FreshClients'
      <4>1. CASE Proceed(p, AfterUpload[b])
        <5>1. Listed(p)' \subseteq Listed(p) /\ AfterUpload[b] \in Steps
          BY <1>1, <3>7, <4>1 DEF Upload, Proceed, GoTo, Listed, Steps, AfterUpload
        <5> QED
          BY <3>7, <4>1, <5>1, FreshProceed DEF Upload
      <4> QED
        BY <3>7, <4>1, FreshEnd DEF Upload, Die, Resting
    <3>8. CASE Ack(p)
      <4>1. CASE Proceed(p, "cleanup")
        BY <1>1, <3>8, <4>1, FreshProceed DEF Ack, Proceed, GoTo, Listed, Steps
      <4> QED
        BY <3>8, <4>1, FreshEnd DEF Ack, Die, Resting
    <3>9. CASE Cleanup(p)
      <4>1. CASE Proceed(p, "idle")
        BY <1>1, <3>9, <4>1, FreshProceed DEF Cleanup, Proceed, GoTo, Listed, Steps
      <4> QED
        BY <3>9, <4>1, FreshEnd DEF Cleanup, Resting
    <3>10. CASE Crash(p)
      BY <3>10, FreshEnd DEF Crash, Die, Resting
    <3>11. CASE Restart(p)
      <4>1. \A q \in Procs : Listed(q)' = Listed(q)
        BY <1>1, <3>11 DEF Restart, GoTo, Listed, Resting
      <4> QED
        BY <1>2, <3>11, <4>1 DEF Restart, cluster_vars, FreshClients
    <3> QED
      BY <2>3, <3>1, <3>2, <3>3, <3>4, <3>5, <3>6, <3>7, <3>8, <3>9, <3>10, <3>11 DEF Work
  <2> QED
    BY <2>1, <2>2, <2>3 DEF Next, BackupNext
<1>4. FreshObjects'
  <2>1. CASE UNCHANGED bucket
    BY <1>2, <2>1 DEF FreshObjects
  <2>2. ASSUME NEW p \in Procs, NEW b \in {"s3", "gcs"}, Upload(p, b)
        PROVE  FreshObjects'
    BY <2>2, FreshUpload
  <2>3. \/ UNCHANGED bucket
        \/ \E p \in Procs, b \in {"s3", "gcs"} : Upload(p, b)
    BY DEF Next, vars, cluster_vars, Environment, UserPut, EditPQ, EditACL, Tick, BackupNext,
           Work, StartRound, List, Prepare, Compress, Encrypt, Ack, Cleanup, Fire, Crash,
           Restart
  <2> QED
    BY <2>1, <2>2, <2>3
<1> QED
  BY <1>3, <1>4 DEF FreshInv, FreshClients, FreshObjects

\* What the key names is stored, and was read after the time the key holds.
LEMMA FreshHealth == FreshInv => HealthSound
<1> SUFFICES ASSUME FreshInv, Healthy PROVE HealthSound
  BY DEF HealthSound
<1> DEFINE t == kv[LastBackup]
<1>1. t \in Time /\ now \in Time /\ MaxAge \in Nat /\ now <= t + MaxAge
  BY ClusterAssumption
     DEF FreshInv, FreshClients, FreshObjects, StoredInv, TypeOK, ClusterTypeOK, KVTables, Healthy
<1>2. PICK p \in Procs : Stored(<<p, t>>)
  BY <1>1, ClusterAssumption DEF FreshInv, FreshClients, FreshObjects, StoredInv, LastBackupStored, StoredAt, Time
<1> HIDE DEF t
<1>3. <<p, t>> \in Names
  BY <1>1 DEF Names
<1>4. ASSUME NEW b \in Buckets
      PROVE  bucket[b][<<p, t>>] # None /\ NoOlderThan(bucket[b][<<p, t>>], MaxAge)
  <2> DEFINE data == bucket[b][<<p, t>>].data
  <2>1. bucket[b][<<p, t>>] # None
    BY <1>2 DEF Stored
  <2>2. bucket[b][<<p, t>>] \in Archives
    BY <1>3, <2>1 DEF FreshInv, FreshClients, FreshObjects, StoredInv, TypeOK, ClusterTypeOK
  <2>3. data \in [Tables -> Listing \cup {None}]
    BY <2>2 DEF Archives
  <2>4. \A x \in Tables : data[x] # None /\ data[x].at >= t
    BY <1>3, <2>1 DEF FreshInv, FreshClients, FreshObjects, ReadSince
  <2> HIDE DEF data
  <2>5. \A x \in Tables : data[x] # None /\ now <= data[x].at + MaxAge
    BY <1>1, <2>3, <2>4 DEF Listing, Time
  <2> QED
    BY <2>1, <2>5 DEF NoOlderThan, data
<1> QED
  BY <1>3, <1>4 DEF HealthSound

\* Where list calls succeed, an answer 200 of /health means that each bucket has an
\* archive whose every table was read within MaxAge.
THEOREM HealthIsSound ==
  ASSUME ~ListMayFail
  PROVE  Spec => []HealthSound
<1>1. FreshInv /\ StoredInv' /\ [Next]_vars => FreshInv'
  BY NextFresh
<1>2. StoredInv /\ TypeOK' /\ [Next]_vars => StoredInv'
  BY NextStored
<1> QED
  BY InitFresh, InitStored, TypeCorrect, FreshHealth, <1>1, <1>2, PTL DEF Spec

-----------------------------------------------------------------------------
(* The temporary files.                                                    *)

\* The files that the round of p has, or may have, of its own.
Current(p) == IF InRound(p) THEN {Dir(p), Tar(p)} ELSE {}

\* The files that no round will remove.
Leftover == {f \in Procs \X Paths : f[2] \in disk[f[1]] \ Current(f[1])}

\* What makes TempFilesBounded inductive: a fault accounts for each two of these, while
\* rounds are under way too.
LeftoverInv == TypeOK /\ AtMost(Leftover, 2 * faults)

\* What a step of process p leaves: nothing, or the two files of its round and a fault.
LEMMA RoundLeaves ==
  ASSUME TypeOK, NEW p \in Procs, Work(p) \/ Fire(p) \/ Crash(p) \/ Restart(p)
  PROVE  /\ \A q \in Procs \ {p} : disk'[q] = disk[q] /\ Current(q)' = Current(q)
         /\ \/ /\ (disk[p] \ Current(p))' \subseteq disk[p] \ Current(p)
               /\ faults' \in {faults, faults + 1}
            \/ /\ (disk[p] \ Current(p))' \subseteq (disk[p] \ Current(p)) \cup {Dir(p), Tar(p)}
               /\ faults' = faults + 1
<1> DEFINE Others == \A q \in Procs \ {p} : disk'[q] = disk[q] /\ Current(q)' = Current(q)
           None1  == /\ (disk[p] \ Current(p))' \subseteq disk[p] \ Current(p)
                     /\ faults' \in {faults, faults + 1}
           Two    == /\ (disk[p] \ Current(p))' \subseteq (disk[p] \ Current(p)) \cup {Dir(p), Tar(p)}
                     /\ faults' = faults + 1
<1>1. pc \in [Procs -> Steps] /\ start \in [Procs -> Time] /\ disk \in [Procs -> SUBSET Paths]
  BY DEF TypeOK
<1>2. ASSUME NEW status \in Resting, End(p, status)
      PROVE  /\ Current(p)' = {}
             /\ \A q \in Procs \ {p} : Current(q)' = Current(q)
  BY <1>1, <1>2 DEF End, GoTo, Current, InRound, Dir, Tar
<1>3. ASSUME NEW step \in Steps \ (Resting \cup {"idle"}), Proceed(p, step), InRound(p)
      PROVE  \A q \in Procs : Current(q)' = Current(q)
  BY <1>1, <1>3 DEF Proceed, GoTo, memory, Current, InRound, Dir, Tar
<1>4. CASE Fire(p)
  BY <1>1, <1>4 DEF Fire, cluster_vars, Current, InRound, Dir, Tar
<1>5. CASE StartRound(p)
  BY <1>1, <1>5 DEF StartRound, GoTo, cluster_vars, Current, InRound, Dir, Tar
<1>6. ASSUME NEW t \in Tables, List(p, t)
      PROVE  Others /\ None1
  <2>1. AfterList[t] \notin Resting \cup {"idle"} /\ t \notin Resting \cup {"idle"}
    BY DEF AfterList, Tables, Resting
  <2>2. pc[p] = t /\ pc' = [pc EXCEPT ![p] = AfterList[t]] /\ UNCHANGED <<start, disk>>
    BY <1>6 DEF List, GoTo
  <2>3. \A q \in Procs : Current(q)' = Current(q)
    BY <1>1, <2>1, <2>2 DEF Current, InRound, Dir, Tar
  <2> QED
    BY <1>6, <2>2, <2>3 DEF List, Fault, NoFault
<1>7. CASE Prepare(p)
  <2>1. InRound(p)
    BY <1>7 DEF Prepare, InRound, Resting
  <2>2. /\ \A q \in Procs \ {p} : disk'[q] = disk[q]
        /\ disk'[p] \subseteq disk[p] \cup {Dir(p)}
    BY <1>1, <1>7 DEF Prepare
  <2>3. CASE NoFault /\ Proceed(p, "compress")
    <3>1. \A q \in Procs : Current(q)' = Current(q)
      BY <1>3, <2>1, <2>3 DEF Steps, Resting
    <3> QED
      BY <2>1, <2>2, <2>3, <3>1 DEF NoFault, Current
  <2>4. CASE Die(p)
    BY <1>2, <2>1, <2>2, <2>4 DEF Die, Fault, Current, Resting
  <2> QED
    BY <1>7, <2>3, <2>4 DEF Prepare
<1>8. CASE Compress(p)
  <2>1. InRound(p)
    BY <1>8 DEF Compress, InRound, Resting
  <2>2. /\ \A q \in Procs \ {p} : disk'[q] = disk[q]
        /\ disk'[p] \subseteq disk[p] \cup {Tar(p)}
    BY <1>1, <1>8 DEF Compress
  <2>3. CASE NoFault /\ Proceed(p, "encrypt")
    <3>1. \A q \in Procs : Current(q)' = Current(q)
      BY <1>3, <2>1, <2>3 DEF Steps, Resting
    <3> QED
      BY <2>1, <2>2, <2>3, <3>1 DEF NoFault, Current
  <2>4. CASE Die(p)
    BY <1>2, <2>1, <2>2, <2>4 DEF Die, Fault, Current, Resting
  <2> QED
    BY <1>8, <2>3, <2>4 DEF Compress
<1>9. CASE Encrypt(p)
  <2>1. InRound(p)
    BY <1>9 DEF Encrypt, InRound, Resting
  <2>2. \A q \in Procs : Current(q)' = Current(q)
    BY <1>3, <1>9, <2>1 DEF Encrypt, Steps, Resting
  <2> QED
    BY <1>9, <2>2 DEF Encrypt, cluster_vars
<1>10. ASSUME NEW b \in {"s3", "gcs"}, Upload(p, b)
       PROVE  Others /\ (None1 \/ Two)
  <2>1. InRound(p) /\ UNCHANGED disk
    BY <1>10 DEF Upload, InRound, Resting
  <2>2. CASE NoFault /\ Proceed(p, AfterUpload[b])
    <3>1. AfterUpload[b] \in Steps \ (Resting \cup {"idle"})
      BY DEF AfterUpload, Steps, Resting
    <3>2. \A q \in Procs : Current(q)' = Current(q)
      BY <1>3, <2>1, <2>2, <3>1
    <3> QED
      BY <2>1, <2>2, <3>2 DEF NoFault
  <2>3. CASE Die(p)
    BY <1>2, <2>1, <2>3 DEF Die, Fault, Current, Resting
  <2> QED
    BY <1>10, <2>2, <2>3 DEF Upload
<1>11. CASE Ack(p)
  <2>1. InRound(p) /\ UNCHANGED disk
    BY <1>11 DEF Ack, InRound, Resting
  <2>2. CASE NoFault /\ Proceed(p, "cleanup")
    <3>1. \A q \in Procs : Current(q)' = Current(q)
      BY <1>3, <2>1, <2>2 DEF Steps, Resting
    <3> QED
      BY <2>1, <2>2, <3>1 DEF NoFault
  <2>3. CASE Die(p)
    BY <1>2, <2>1, <2>3 DEF Die, Fault, Current, Resting
  <2> QED
    BY <1>11, <2>2, <2>3 DEF Ack
<1>12. CASE Cleanup(p)
  <2>1. InRound(p)
    BY <1>12 DEF Cleanup, InRound, Resting
  <2>2. Current(p)' = {} /\ \A q \in Procs \ {p} : Current(q)' = Current(q)
    <3>1. CASE Proceed(p, "idle")
      BY <1>1, <3>1 DEF Proceed, GoTo, memory, Current, InRound, Dir, Tar
    <3> QED
      BY <1>2, <1>12, <3>1 DEF Cleanup, Resting
  <2>3. CASE NoFault /\ disk' = [disk EXCEPT ![p] = @ \ {Dir(p), Tar(p)}]
    BY <1>1, <2>1, <2>2, <2>3 DEF NoFault, Current
  <2>4. CASE Fault /\ \E left \in {{Dir(p)}, {Tar(p)}, {Dir(p), Tar(p)}} :
                        disk' = [disk EXCEPT ![p] = (@ \ {Dir(p), Tar(p)}) \cup (@ \cap left)]
    BY <1>1, <2>1, <2>2, <2>4 DEF Fault, Current
  <2> QED
    BY <1>12, <2>3, <2>4 DEF Cleanup
<1>13. CASE Crash(p)
  BY <1>2, <1>13 DEF Crash, Die, Fault, Current, Resting
<1>14. CASE Restart(p)
  BY <1>1, <1>14 DEF Restart, GoTo, cluster_vars, Current, InRound, Dir, Tar
<1> QED
  BY <1>4, <1>5, <1>6, <1>7, <1>8, <1>9, <1>10, <1>11, <1>12, <1>13, <1>14 DEF Work

\* At first there are no files.
LEMMA InitLeftover == BackupInit => LeftoverInv
<1> SUFFICES ASSUME BackupInit PROVE LeftoverInv
  OBVIOUS
<1>1. Leftover = {}
  BY DEF BackupInit, Leftover
<1>2. 2 * faults = 0
  BY DEF BackupInit, ClusterInit
<1> QED
  BY <1>1, <1>2, InitTypeOK, NoFiles DEF LeftoverInv

\* Every step keeps the bound.
LEMMA NextLeftover ==
  ASSUME LeftoverInv, TypeOK', [Next]_vars
  PROVE  LeftoverInv'
<1>1. TypeOK /\ AtMost(Leftover, 2 * faults) /\ faults \in Nat
  <2>1. TypeOK /\ AtMost(Leftover, 2 * faults)
    BY DEF LeftoverInv
  <2>2. faults \in 0..MaxFaults
    BY <2>1 DEF TypeOK, ClusterTypeOK
  <2> QED
    BY <2>1, <2>2, ClusterAssumption
<1>2. CASE UNCHANGED vars \/ (Environment /\ UNCHANGED proc_vars)
  <2>1. UNCHANGED <<faults, disk, pc, start>>
    BY <1>2 DEF vars, cluster_vars, proc_vars, memory, Environment, UserPut, EditPQ, EditACL, Tick
  <2>2. Leftover' = Leftover
    BY <2>1 DEF Leftover, Current, InRound, Dir, Tar
  <2> QED
    BY <1>1, <2>1, <2>2 DEF LeftoverInv
<1>3. ASSUME NEW p \in Procs, Work(p) \/ Fire(p) \/ Crash(p) \/ Restart(p)
      PROVE  LeftoverInv'
  <2>1. \A q \in Procs \ {p} : disk'[q] = disk[q] /\ Current(q)' = Current(q)
    BY <1>1, <1>3, RoundLeaves
  <2>2. CASE /\ (disk[p] \ Current(p))' \subseteq disk[p] \ Current(p)
             /\ faults' \in {faults, faults + 1}
    <3>1. Leftover' \subseteq Leftover
      BY <2>1, <2>2 DEF Leftover, Paths
    <3>2. 2 * faults' \in Nat /\ 2 * faults <= 2 * faults'
      BY <1>1, <2>2, TwoEach
    <3> QED
      BY <1>1, <3>1, <3>2, TwoEach, FilesKept DEF LeftoverInv
  <2>3. CASE /\ (disk[p] \ Current(p))' \subseteq (disk[p] \ Current(p)) \cup {Dir(p), Tar(p)}
             /\ faults' = faults + 1
    <3>1. Leftover' \subseteq Leftover \cup {<<p, Dir(p)>>, <<p, Tar(p)>>}
      BY <2>1, <2>3 DEF Leftover, Paths
    <3>2. AtMost(Leftover', 2 * faults + 2)
      BY <1>1, <3>1, TwoEach, TwoFilesAdded
    <3> QED
      BY <1>1, <2>3, <3>2, TwoEach DEF LeftoverInv
  <2> QED
    BY <1>1, <1>3, <2>2, <2>3, RoundLeaves
<1> QED
  BY <1>2, <1>3 DEF Next, BackupNext

\* Between rounds, all files are left over.
LEMMA LeftoverBounds == LeftoverInv => TempFilesBounded
<1> SUFFICES ASSUME LeftoverInv, \A p \in Procs : ~InRound(p)
             PROVE  Cardinality(UNION {{p} \X disk[p] : p \in Procs}) <= 2 * faults
  BY DEF TempFilesBounded
<1>1. \A p \in Procs : disk[p] \subseteq Paths /\ Current(p) = {}
  BY DEF LeftoverInv, TypeOK, Current
<1>2. UNION {{p} \X disk[p] : p \in Procs} = Leftover
  BY <1>1 DEF Leftover
<1> QED
  BY <1>2 DEF LeftoverInv, AtMost

\* Between rounds, a fault accounts for each two names on the disks of the hosts.
THEOREM TempFilesAreBounded == Spec => []TempFilesBounded
<1>1. LeftoverInv /\ TypeOK' /\ [Next]_vars => LeftoverInv'
  BY NextLeftover
<1> QED
  BY InitLeftover, TypeCorrect, LeftoverBounds, <1>1, PTL DEF Spec

-----------------------------------------------------------------------------
(* Archives of one name.                                                   *)

\* No table in it was read after second t.
ReadBy(data, t) == \A x \in Tables : data[x] # None => data[x].at <= t

\* Nothing that is kept is of the future, and a process that is not running has no tick.
Clocked ==
  /\ \A p \in Procs : /\ start[p] <= now
                      /\ pc[p] \in Resting => ~pending[p]
                      /\ ReadBy(client[p], now)
  /\ \A b \in Buckets, n \in Names :
       bucket[b][n] # None => n[2] <= now /\ ReadBy(bucket[b][n].data, now)

\* Neither the round of process p nor a later one has start time s: its round has a later
\* one, or it has none and second s is over, or the next tick comes after s.
Past(p, s) == IF InRound(p) THEN s < start[p] ELSE s < now \/ (~pending[p] /\ s < due[p])

\* What a daemon holds is at least as recent as each of its archives that it may still
\* write over.
Dominated ==
  \A p \in Procs, b \in Buckets, s \in Time :
    Daemon(p) /\ Running(p) /\ bucket[b][<<p, s>>] # None
      => Past(p, s) \/ NoOlderData(Archive(p), bucket[b][<<p, s>>])

NewerInv == TypeOK /\ Clocked /\ Dominated

\* What a process does to its memory: a tick, a start, a list call, a restart, its end; or it
\* goes on with its round, or from it, with its memory as it is.
LEMMA MemoryStep ==
  ASSUME NEW p \in Procs, Work(p) \/ Fire(p) \/ Crash(p) \/ Restart(p)
  PROVE  /\ UNCHANGED now
         /\ UNCHANGED bucket \/ \E b \in {"s3", "gcs"} : Upload(p, b)
         /\ \/ Fire(p) \/ StartRound(p) \/ Restart(p)
            \/ \E t \in Tables : List(p, t)
            \/ \E status \in Resting : End(p, status)
            \/ InRound(p) /\ UNCHANGED memory /\ \E step \in Steps \ Resting : GoTo(p, step)
<1> DEFINE On == InRound(p) /\ UNCHANGED memory /\ \E step \in Steps \ Resting : GoTo(p, step)
           Ends == \E status \in Resting : End(p, status)
<1>1. CASE Fire(p) \/ StartRound(p) \/ Restart(p)
  BY <1>1 DEF Fire, StartRound, Restart, cluster_vars
<1>2. CASE \E t \in Tables : List(p, t)
  BY <1>2 DEF List
<1>3. ASSUME NEW step \in Steps \ Resting, Proceed(p, step), pc[p] \notin Resting \cup {"idle"}
      PROVE  On
  BY <1>3 DEF Proceed, InRound
<1>4. CASE Prepare(p)
  BY <1>3, <1>4 DEF Prepare, Die, Resting, Steps
<1>5. CASE Compress(p)
  BY <1>3, <1>5 DEF Compress, Die, Resting, Steps
<1>6. CASE Encrypt(p)
  BY <1>3, <1>6 DEF Encrypt, cluster_vars, Resting, Steps
<1>7. ASSUME NEW b \in {"s3", "gcs"}, Upload(p, b)
      PROVE  On \/ Ends
  <2>1. AfterUpload[b] \in Steps \ Resting
    BY DEF AfterUpload, Steps, Resting
  <2> QED
    BY <1>3, <1>7, <2>1 DEF Upload, Die, Resting
<1>8. CASE Ack(p)
  BY <1>3, <1>8 DEF Ack, Die, Resting, Steps
<1>9. CASE Cleanup(p)
  BY <1>3, <1>9 DEF Cleanup, Resting, Steps
<1>10. CASE Crash(p)
  BY <1>10 DEF Crash, Die, Resting
<1>11. (\E b \in {"s3", "gcs"} : Upload(p, b)) => UNCHANGED now
  BY DEF Upload
<1> QED
  BY <1>1, <1>2, <1>4, <1>5, <1>6, <1>7, <1>8, <1>9, <1>10, <1>11 DEF Work

\* A step of a process touches the memory of no other.
LEMMA MemoryOfOthers ==
  ASSUME TypeOK, NEW p \in Procs, Work(p) \/ Fire(p) \/ Crash(p) \/ Restart(p),
         NEW q \in Procs \ {p}
  PROVE  /\ pc'[q] = pc[q] /\ start'[q] = start[q] /\ client'[q] = client[q]
         /\ due'[q] = due[q] /\ pending'[q] = pending[q]
<1> USE DEF TypeOK
<1>1. CASE Fire(p) \/ StartRound(p) \/ Restart(p)
  BY <1>1 DEF Fire, StartRound, Restart, GoTo
<1>2. ASSUME NEW t \in Tables, List(p, t)
      PROVE  /\ pc'[q] = pc[q] /\ start'[q] = start[q] /\ client'[q] = client[q]
             /\ due'[q] = due[q] /\ pending'[q] = pending[q]
  BY <1>2 DEF List, GoTo
<1>3. ASSUME NEW status, End(p, status)
      PROVE  /\ pc'[q] = pc[q] /\ start'[q] = start[q] /\ client'[q] = client[q]
             /\ due'[q] = due[q] /\ pending'[q] = pending[q]
  BY <1>3 DEF End, GoTo
<1>4. CASE UNCHANGED memory /\ \E step \in Steps \ Resting : GoTo(p, step)
  BY <1>4 DEF memory, GoTo
<1> QED
  BY <1>1, <1>2, <1>3, <1>4, MemoryStep

\* At first nothing has been read and no archive of this version is stored.
LEMMA InitNewer == BackupInit => NewerInv
<1> SUFFICES ASSUME BackupInit PROVE NewerInv
  OBVIOUS
<1>1. \A b \in Buckets, n \in Names : bucket[b][n] = None
  BY ClusterAssumption DEF BackupInit, ClusterInit
<1>2. Clocked
  BY <1>1 DEF BackupInit, ClusterInit, Clocked, ReadBy, NoData
<1>3. Dominated
  BY <1>1 DEF Dominated, Names
<1> QED
  BY <1>2, <1>3, InitTypeOK DEF NewerInv

\* A step of a process reads nothing of the future, and one that ends keeps no tick.
LEMMA ProcessClocked ==
  ASSUME NewerInv, TypeOK', NEW p \in Procs, Work(p) \/ Fire(p) \/ Crash(p) \/ Restart(p)
  PROVE  Clocked'
<1>1. /\ pc \in [Procs -> Steps] /\ start \in [Procs -> Time] /\ now \in Time
      /\ client \in [Procs -> [Tables -> Listing \cup {None}]]
      /\ pending \in [Procs -> BOOLEAN]
      /\ bucket \in [Buckets -> [Names \cup Legacy -> Archives \cup {None}]]
  BY DEF NewerInv, TypeOK, ClusterTypeOK
<1>2. now' = now
  BY MemoryStep
<1> DEFINE Good(q) == /\ start'[q] <= now
                      /\ pc'[q] \in Resting => ~pending'[q]
                      /\ ReadBy(client'[q], now)
<1>3. start[p] <= now /\ (pc[p] \in Resting => ~pending[p]) /\ ReadBy(client[p], now)
  BY DEF NewerInv, Clocked
<1>4. Good(p)
  <2>1. CASE Fire(p)
    BY <1>1, <1>3, <2>1 DEF Fire, Running
  <2>2. CASE StartRound(p)
    BY <1>1, <1>3, <2>2 DEF StartRound, Time
  <2>3. CASE Restart(p)
    BY <1>1, <1>3, <2>3 DEF Restart
  <2>4. ASSUME NEW t \in Tables, List(p, t)
        PROVE  Good(p)
    <3> DEFINE answer == [val |-> Content(t), at |-> now]
    <3>1. answer.at <= now
      BY <1>1 DEF Time
    <3> HIDE DEF answer
    <3>2. /\ client' = [client EXCEPT ![p][t] = answer] \/ client' = client
          /\ pc' = [pc EXCEPT ![p] = AfterList[t]]
          /\ UNCHANGED <<start, pending>>
      BY <2>4 DEF List, GoTo, answer
    <3>3. AfterList[t] \notin Resting
      BY DEF AfterList, Tables, Resting
    <3>4. ReadBy(client'[p], now)
      <4>1. \A x \in Tables : client'[p][x] = client[p][x] \/ client'[p][x] = answer
        BY <1>1, <3>2
      <4> QED
        BY <1>3, <3>1, <4>1 DEF ReadBy
    <3> QED
      BY <1>1, <1>3, <3>2, <3>3, <3>4
  <2>5. ASSUME NEW status \in Resting, End(p, status)
        PROVE  Good(p)
    <3>1. start'[p] = 0 /\ client'[p] = NoData /\ pending'[p] = FALSE
      BY <1>1, <2>5 DEF End
    <3> QED
      BY <1>1, <3>1 DEF ReadBy, NoData, Time
  <2>6. CASE UNCHANGED memory /\ \E step \in Steps \ Resting : GoTo(p, step)
    BY <1>1, <1>3, <2>6 DEF memory, GoTo
  <2> QED
    BY <2>1, <2>2, <2>3, <2>4, <2>5, <2>6, MemoryStep
<1>5. \A q \in Procs : Good(q)
  BY <1>4, MemoryOfOthers DEF NewerInv, Clocked
<1>6. ASSUME NEW b \in Buckets, NEW n \in Names, bucket'[b][n] # None
      PROVE  n[2] <= now /\ ReadBy(bucket'[b][n].data, now)
  <2>1. CASE bucket'[b][n] = bucket[b][n]
    BY <1>6, <2>1 DEF NewerInv, Clocked
  <2>2. ASSUME NEW c \in {"s3", "gcs"}, Upload(p, c), bucket'[b][n] # bucket[b][n]
        PROVE  n[2] <= now /\ ReadBy(bucket'[b][n].data, now)
    <3>1. bucket'[b][n] = Archive(p)
      BY <2>2, UploadAdds DEF NewerInv
    <3>2. n = <<p, start[p]>>
      BY <1>1, <2>2 DEF Upload
    <3> QED
      BY <1>3, <3>1, <3>2 DEF Archive
  <2> QED
    BY <2>1, <2>2, MemoryStep
<1> QED
  BY <1>2, <1>5, <1>6 DEF Clocked

\* What a daemon may still write over, it can no more, or it could before the step, and
\* what it holds is as recent as it was.
LEMMA MemoryDominates ==
  ASSUME NewerInv, TypeOK', NEW p \in Procs, Work(p) \/ Fire(p) \/ Crash(p) \/ Restart(p),
         Daemon(p), Running(p)',
         NEW s \in Time, s <= now,
         NEW old \in Archives, ReadBy(old.data, now),
         Running(p) => Past(p, s) \/ NoOlderData(Archive(p), old)
  PROVE  Past(p, s)' \/ NoOlderData(Archive(p)', old)
<1>1. /\ pc \in [Procs -> Steps] /\ start \in [Procs -> Time] /\ now \in Nat /\ s \in Nat
      /\ client \in [Procs -> [Tables -> Listing \cup {None}]]
      /\ pending \in [Procs -> BOOLEAN] /\ due \in [Procs -> Nat]
      /\ start[p] \in Nat
  BY DEF NewerInv, TypeOK, ClusterTypeOK, Time
<1>2. now' = now /\ start[p] <= now /\ (pc[p] \in Resting => ~pending[p])
  BY MemoryStep DEF NewerInv, Clocked
<1>3. client'[p] = client[p] => (NoOlderData(Archive(p), old) => NoOlderData(Archive(p)', old))
  BY DEF Archive, NoOlderData
<1>4. CASE Fire(p)
  <2>1. Running(p) /\ client'[p] = client[p]
    BY <1>4 DEF Fire
  <2>2. Past(p, s) => Past(p, s)'
    BY <1>1, <1>2, <1>4 DEF Fire, Past, InRound
  <2> QED
    BY <1>3, <2>1, <2>2
<1>5. CASE StartRound(p)
  <2>1. Running(p) /\ client'[p] = client[p]
    BY <1>5 DEF StartRound, Running, Resting
  <2>2. Past(p, s) => Past(p, s)'
    BY <1>1, <1>2, <1>5 DEF StartRound, GoTo, Past, InRound, Resting
  <2> QED
    BY <1>3, <2>1, <2>2
<1>6. CASE Restart(p)
  <2>1. s < now + Interval /\ ~pending[p]
    BY <1>1, <1>2, <1>6, BackupAssumption DEF Restart
  <2>2. pc'[p] = "idle" /\ due'[p] = now + Interval /\ pending'[p] = pending[p]
    BY <1>1, <1>6 DEF Restart, GoTo
  <2> QED
    BY <2>1, <2>2 DEF Past, InRound
<1>7. ASSUME NEW t \in Tables, List(p, t)
      PROVE  Past(p, s)' \/ NoOlderData(Archive(p)', old)
  <2> DEFINE answer == [val |-> Content(t), at |-> now]
  <2>1. answer \in Listing /\ answer.at = now
    BY ListingType DEF NewerInv
  <2> HIDE DEF answer
  <2>2. /\ client' = [client EXCEPT ![p][t] = answer] \/ client' = client
        /\ pc[p] = t /\ pc' = [pc EXCEPT ![p] = AfterList[t]]
        /\ UNCHANGED start
    BY <1>7 DEF List, GoTo, answer
  <2>3. InRound(p) /\ InRound(p)' /\ Running(p)
    BY <1>1, <2>2 DEF InRound, Running, AfterList, Tables, Resting
  <2>4. CASE Past(p, s)
    BY <2>2, <2>3, <2>4 DEF Past
  <2>5. CASE NoOlderData(Archive(p), old)
    <3>1. ASSUME NEW x \in Tables, old.data[x] # None
          PROVE  client'[p][x] # None /\ client'[p][x].at >= old.data[x].at
      <4>1. client[p][x] # None /\ client[p][x].at >= old.data[x].at /\ old.data[x].at <= now
        BY <2>5, <3>1 DEF NoOlderData, Archive, ReadBy
      <4>2. old.data[x] \in Listing
        BY <3>1 DEF Archives
      <4>3. client'[p][x] = client[p][x] \/ client'[p][x] = answer
        BY <1>1, <2>2
      <4> QED
        BY <1>1, <2>1, <4>1, <4>2, <4>3, NoneAssumption DEF Listing, Time
    <3> QED
      BY <3>1 DEF NoOlderData, Archive
  <2> QED
    BY <2>3, <2>4, <2>5
<1>8. ASSUME NEW status \in Resting, End(p, status)
      PROVE  FALSE
  BY <1>1, <1>8 DEF End, GoTo, Running
<1>9. CASE InRound(p) /\ UNCHANGED memory /\ \E step \in Steps \ Resting : GoTo(p, step)
  <2>1. Running(p) /\ client'[p] = client[p]
    BY <1>9 DEF InRound, Running, memory
  <2>2. Past(p, s) => Past(p, s)'
    BY <1>1, <1>2, <1>9 DEF memory, Past, InRound
  <2> QED
    BY <1>3, <2>1, <2>2
<1> QED
  BY <1>4, <1>5, <1>6, <1>7, <1>8, <1>9, MemoryStep

\* A step of a process keeps what daemons hold at least as recent as what they may write
\* over; what an upload stores, the process holds.
LEMMA ProcessDominates ==
  ASSUME NewerInv, TypeOK', NEW p \in Procs, Work(p) \/ Fire(p) \/ Crash(p) \/ Restart(p)
  PROVE  Dominated'
<1> SUFFICES ASSUME NEW q \in Procs, NEW b \in Buckets, NEW s \in Time,
                    Daemon(q), Running(q)', bucket'[b][<<q, s>>] # None
             PROVE  Past(q, s)' \/ NoOlderData(Archive(q)', bucket'[b][<<q, s>>])
  BY DEF Dominated, Daemon, Archive, Tar
<1> DEFINE n == <<q, s>>
<1>1. /\ start \in [Procs -> Time] /\ n \in Names
      /\ bucket \in [Buckets -> [Names \cup Legacy -> Archives \cup {None}]]
      /\ client \in [Procs -> [Tables -> Listing \cup {None}]]
  BY DEF NewerInv, TypeOK, ClusterTypeOK, Names
<1>2. now' = now
  BY MemoryStep
<1>3. CASE bucket'[b][n] = bucket[b][n]
  <2>1. /\ bucket[b][n] \in Archives /\ s <= now /\ ReadBy(bucket[b][n].data, now)
        /\ Running(q) => Past(q, s) \/ NoOlderData(Archive(q), bucket[b][n])
    BY <1>1, <1>3 DEF NewerInv, Clocked, Dominated
  <2>2. CASE q = p
    BY <1>3, <2>1, <2>2, MemoryDominates
  <2>3. CASE q # p
    <3>1. /\ pc'[q] = pc[q] /\ start'[q] = start[q] /\ client'[q] = client[q]
          /\ due'[q] = due[q] /\ pending'[q] = pending[q]
      BY <2>3, MemoryOfOthers DEF NewerInv
    <3>2. Running(q) /\ (Past(q, s) => Past(q, s)')
      BY <1>2, <3>1 DEF Running, Past, InRound
    <3>3. NoOlderData(Archive(q), bucket[b][n]) => NoOlderData(Archive(q)', bucket[b][n])
      BY <3>1 DEF NoOlderData, Archive
    <3> QED
      BY <1>3, <2>1, <3>2, <3>3
  <2> QED
    BY <2>2, <2>3
<1>4. ASSUME NEW c \in {"s3", "gcs"}, Upload(p, c), bucket'[b][n] # bucket[b][n]
      PROVE  NoOlderData(Archive(q)', bucket'[b][n])
  <2>1. q = p /\ bucket'[b][n] = Archive(p)
    <3>1. bucket'[b][n] = Archive(p)
      BY <1>1, <1>4, UploadAdds DEF NewerInv
    <3>2. n = <<p, start[p]>>
      BY <1>1, <1>4 DEF Upload
    <3> QED
      BY <3>1, <3>2
  <2>2. client'[p] = client[p]
    <3>1. CASE Die(p)
      <4>1. pc'[p] = "dead"
        BY <3>1 DEF Die, End, GoTo, NewerInv, TypeOK
      <4> QED
        BY <2>1, <4>1 DEF Running, Resting
    <3> QED
      BY <1>4, <3>1 DEF Upload, Proceed, memory
  <2>3. \A x \in Tables : client[p][x] # None => client[p][x].at >= client[p][x].at
    BY <1>1 DEF Listing, Time
  <2> QED
    BY <2>1, <2>2, <2>3 DEF NoOlderData, Archive
<1> QED
  BY <1>3, <1>4, MemoryStep

\* Every step keeps the invariant.
LEMMA NextNewer ==
  ASSUME NewerInv, TypeOK', [Next]_vars
  PROVE  NewerInv'
<1>1. CASE UNCHANGED vars
  BY <1>1 DEF vars, cluster_vars, proc_vars, memory, NewerInv, Clocked, Dominated, Running, Past,
              InRound, Archive, Tar
<1>2. CASE Environment /\ UNCHANGED proc_vars
  <2>1. UNCHANGED bucket /\ now \in Nat /\ now' \in Nat /\ now <= now'
    <3>1. now \in Nat
      BY DEF NewerInv, TypeOK, ClusterTypeOK, Time
    <3> QED
      BY <1>2, <3>1 DEF Environment, UserPut, EditPQ, EditACL, Tick
  <2>2. /\ start \in [Procs -> Time] /\ client \in [Procs -> [Tables -> Listing \cup {None}]]
        /\ bucket \in [Buckets -> [Names \cup Legacy -> Archives \cup {None}]]
    BY DEF NewerInv, TypeOK, ClusterTypeOK
  <2>3. \A s \in Time : s \in Nat
    BY ClusterAssumption DEF Time
  <2>4. ASSUME NEW data \in [Tables -> Listing \cup {None}], ReadBy(data, now)
        PROVE  ReadBy(data, now')
    <3> SUFFICES ASSUME NEW x \in Tables, data[x] # None
                 PROVE  data[x].at <= now'
      BY DEF ReadBy
    <3>1. data[x] \in Listing /\ data[x].at <= now
      BY <2>4 DEF ReadBy
    <3>2. data[x].at \in Nat
      BY <2>3, <3>1 DEF Listing
    <3> QED
      BY <2>1, <3>1, <3>2
  <2>5. Clocked'
    <3>1. ASSUME NEW q \in Procs
          PROVE  start[q] <= now' /\ ReadBy(client[q], now')
      <4>1. start[q] <= now /\ ReadBy(client[q], now) /\ start[q] \in Nat
        BY <2>2, <2>3 DEF NewerInv, Clocked
      <4> QED
        BY <2>1, <2>2, <2>4, <4>1
    <3>2. ASSUME NEW b \in Buckets, NEW n \in Names, bucket[b][n] # None
          PROVE  n[2] <= now' /\ ReadBy(bucket[b][n].data, now')
      <4>1. n[2] <= now /\ ReadBy(bucket[b][n].data, now) /\ n[2] \in Nat
        BY <2>3, <3>2 DEF NewerInv, Clocked, Names
      <4>2. bucket[b][n].data \in [Tables -> Listing \cup {None}]
        BY <2>2, <3>2 DEF Archives
      <4> QED
        BY <2>1, <2>4, <4>1, <4>2
    <3> QED
      BY <1>2, <2>1, <3>1, <3>2 DEF NewerInv, Clocked, proc_vars, memory
  <2>6. Dominated'
    <3>1. \A q \in Procs, s \in Time : Past(q, s) => Past(q, s)'
      BY <1>2, <2>1, <2>3 DEF Past, InRound, proc_vars, memory
    <3> QED
      BY <1>2, <2>1, <3>1 DEF NewerInv, Dominated, Running, Archive, Tar, proc_vars, memory
  <2> QED
    BY <2>5, <2>6 DEF NewerInv
<1>3. ASSUME NEW p \in Procs, Work(p) \/ Fire(p) \/ Crash(p) \/ Restart(p)
      PROVE  NewerInv'
  BY <1>3, ProcessClocked, ProcessDominates DEF NewerInv
<1> QED
  BY <1>1, <1>2, <1>3 DEF Next, BackupNext

\* An archive that a daemon stores over another is at least as recent.
LEMMA UploadKeepsNewer ==
  ASSUME NewerInv, [Next]_vars, NEW b \in Buckets, NEW n \in Names,
         Daemon(n[1]), bucket[b][n] # None, bucket'[b][n] # bucket[b][n]
  PROVE  bucket'[b][n] # None /\ NoOlderData(bucket'[b][n], bucket[b][n])
<1>1. /\ TypeOK /\ start \in [Procs -> Time]
      /\ bucket \in [Buckets -> [Names \cup Legacy -> Archives \cup {None}]]
  BY DEF NewerInv, TypeOK, ClusterTypeOK
<1>2. PICK p \in Procs, c \in {"s3", "gcs"} : Upload(p, c)
  <2>1. ASSUME NEW p \in Procs, Work(p) \/ Fire(p) \/ Crash(p) \/ Restart(p)
        PROVE  \E c \in {"s3", "gcs"} : Upload(p, c)
    BY <2>1, MemoryStep
  <2>2. CASE UNCHANGED vars \/ (Environment /\ UNCHANGED proc_vars)
    BY <2>2 DEF vars, cluster_vars, Environment, UserPut, EditPQ, EditACL, Tick
  <2> QED
    BY <2>1, <2>2 DEF Next, BackupNext
<1>3. n = <<p, start[p]>> /\ bucket'[b][n] = Archive(p)
  <2>1. n = <<p, start[p]>>
    BY <1>1, <1>2 DEF Upload
  <2> QED
    BY <1>1, <1>2, <2>1, UploadAdds
<1>4. InRound(p) /\ Running(p) /\ start[p] \in Nat
  BY <1>1, <1>2 DEF Upload, InRound, Running, Resting, Time
<1>5. ~Past(p, start[p])
  BY <1>4 DEF Past
<1>6. NoOlderData(Archive(p), bucket[b][n])
  BY <1>1, <1>3, <1>4, <1>5 DEF NewerInv, Dominated
<1> QED
  BY <1>1, <1>3, <1>6, ArchiveType, NoneAssumption

\* Two rounds of a daemon in one second: the archive stored over the other holds tables at
\* least as recent, though list calls fail and the daemon may be killed in between.
THEOREM OverwritesKeepNewer == Spec => OverwriteKeepsNewer
<1>1. NewerInv /\ TypeOK' /\ [Next]_vars => NewerInv'
  BY NextNewer
<1>2. NewerInv /\ [Next]_vars =>
        [\A b \in Buckets, n \in Names :
           Daemon(n[1]) /\ bucket[b][n] # None /\ bucket'[b][n] # bucket[b][n]
             => bucket'[b][n] # None /\ NoOlderData(bucket'[b][n], bucket[b][n])]_vars
  BY UploadKeepsNewer
<1> QED
  BY InitNewer, TypeCorrect, <1>1, <1>2, PTL DEF Spec, OverwriteKeepsNewer
=============================================================================
