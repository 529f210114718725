------------------------------ MODULE Services ------------------------------
(***************************************************************************)
(* services.BackupService and services.RestoreService, with the adapters   *)
(* they are given: the same work as the runners, as library calls.  They   *)
(* return errors instead of ending the process, so a host goes on; RunBackup *)
(* stops at the first error and leaves its files, RunRestore cleans up on  *)
(* every way out.                                                          *)
(*                                                                         *)
(* A host has one TmpDir.  The archive that a backup writes there and the  *)
(* one that a restore downloads have the same path when they are the same  *)
(* object; in acceptance mode all of them have one path.  The names of a   *)
(* backup hold its start second only, so that backups which a host starts  *)
(* in one second, a retry for one, have the same ones.                     *)
(***************************************************************************)
EXTENDS Naturals, FiniteSets

CONSTANTS
  Hosts,        \* hosts, each with one caller of RunBackup
  Restorers,    \* the hosts that also call RunRestore
  Keys,         \* keys in consul
  Queries,      \* prepared queries
  Tokens,       \* ACLs
  Vals,         \* values of all of these
  Buckets,      \* the buckets of the configuration, which has one (ParseConfig)
  Fixed,        \* the name acceptancetest.tar.gz
  Foreign,      \* names of objects that backup.Runner stored
  AtRoot,       \* the Archiver puts the staged files at the root of the archive
  UsersPause,   \* users write nothing while a restore runs
  None,         \* no such item, object or file, or never listed
  Torn,         \* a file whose writing has begun
  MaxTime,      \* bound on the clock
  MaxFaults     \* bound on the faults of a behaviour

Time   == 0..MaxTime
Tables == {"kv", "pq", "acl"}
Items  == ({"kv"} \X Keys) \cup ({"pq"} \X Queries) \cup ({"acl"} \X Tokens)
Table  == [Items -> Vals \cup {None}]

\* host.consul.snapshot.start.tar.gz.
Names      == Hosts \X Time
Objects    == Names \cup Foreign
LocalNames == Objects \cup {Fixed}

\* What was listed: the items, and for each table the second at which consul held them.
Snapshots == [data : Table, at : [Tables -> Time \cup {None}]]

\* An archive, and whether the json files are at its root.
Archives == [snap : Snapshots, root : BOOLEAN]

ASSUME ServicesAssumption ==
  /\ Restorers \subseteq Hosts
  /\ Buckets \subseteq {"s3", "gcs"} /\ Buckets # {}
  /\ {AtRoot, UsersPause} \subseteq BOOLEAN
  /\ MaxTime \in Nat /\ MaxFaults \in Nat
  /\ None \notin Vals \cup Nat \cup Archives \cup {Torn} /\ Torn \notin Archives
  /\ Foreign \cap (Names \cup {Fixed}) = {} /\ Fixed \notin Names

VARIABLES
  now, faults,
  acceptance, \* ACCEPTANCE_TEST is set, for all runs
  consul,   \* consul[i] is the value of item i
  store,    \* store[b][n] is the object named n in bucket b
  local,    \* local[h][n] is the archive named n in the TmpDir of h
  staged,   \* staged[h] is the set of start seconds whose staging directory h has
  out,      \* out[h] is the set of archives whose .extracted directory h has
  bstep,    \* bstep[h] is the next step of h's RunBackup, or how the last one ended
  start,    \* start[h] is BackupData.StartTime of h's last backup, None before the first
  again,    \* again[h] is the set of seconds in which h has started several backups; the
            \* program does not keep it
  client,   \* client[h] is what the consul.Consul of h holds
  rstep,    \* the same for RunRestore
  rname,    \* rname[h] is the object that h restores
  got,      \* got[h] is the archive that h has unpacked
  loaded,   \* loaded[h] is the set of tables that LoadBackupData has read
  todo,     \* todo[h] is the set of items still to put
  failed    \* failed[h]: RunRestore is going to return an error

env_vars     == <<now, acceptance, consul>>
backup_vars  == <<bstep, start, again, client, staged>>
restore_vars == <<rstep, rname, got, loaded, todo, failed, out>>
vars == <<env_vars, faults, store, local, backup_vars, restore_vars>>

Resting == {"rest", "ok", "error"}
BackupSteps  == Tables \cup {"write", "create", "archive", "upload", "cleanup"} \cup Resting
RestoreSteps == {"extract", "load", "put", "cleanup"} \cup Resting

TypeOK ==
  /\ now \in Time /\ faults \in 0..MaxFaults
  /\ acceptance \in BOOLEAN
  /\ consul \in Table
  /\ store  \in [Buckets -> [Objects -> Archives \cup {None, Torn}]]
  /\ local  \in [Hosts -> [LocalNames -> Archives \cup {None, Torn}]]
  /\ staged \in [Hosts -> SUBSET Time]
  /\ out    \in [Hosts -> SUBSET LocalNames]
  /\ bstep  \in [Hosts -> BackupSteps]
  /\ start  \in [Hosts -> Time \cup {None}]
  /\ again  \in [Hosts -> SUBSET Time]
  /\ client \in [Hosts -> Snapshots]
  /\ rstep  \in [Hosts -> RestoreSteps]
  /\ rname  \in [Hosts -> LocalNames \cup {None}]
  /\ got    \in [Hosts -> Archives \cup {None}]
  /\ loaded \in [Hosts -> SUBSET Tables]
  /\ todo   \in [Hosts -> SUBSET Items]
  /\ failed \in [Hosts -> BOOLEAN]

-----------------------------------------------------------------------------
Nothing == [data |-> [i \in Items |-> None], at |-> [t \in Tables |-> None]]

\* Consul has some items.  The buckets have what backup.Runner stored: its archives hold
\* the directory of the files, not the files at the root.
Init ==
  /\ now = 0 /\ faults = 0
  /\ acceptance \in BOOLEAN
  /\ consul \in [Items -> Vals]
  /\ store  = [b \in Buckets |-> [n \in Objects |->
                 IF n \in Foreign
                   THEN [snap |-> [data |-> consul, at |-> [t \in Tables |-> 0]], root |-> FALSE]
                   ELSE None]]
  /\ local  = [h \in Hosts |-> [n \in LocalNames |-> None]]
  /\ staged = [h \in Hosts |-> {}]
  /\ out    = [h \in Hosts |-> {}]
  /\ bstep  = [h \in Hosts |-> "rest"]
  /\ start  = [h \in Hosts |-> None]
  /\ again  = [h \in Hosts |-> {}]
  /\ client = [h \in Hosts |-> Nothing]
  /\ rstep  = [h \in Hosts |-> "rest"]
  /\ rname  = [h \in Hosts |-> None]
  /\ got    = [h \in Hosts |-> None]
  /\ loaded = [h \in Hosts |-> {}]
  /\ todo   = [h \in Hosts |-> {}]
  /\ failed = [h \in Hosts |-> FALSE]

Fault   == faults < MaxFaults /\ faults' = faults + 1
NoFault == UNCHANGED faults

\* Mutant: the order of getRemoteBackup.
UploadBucketGCS == IF "gcs" \in Buckets THEN "gcs" ELSE "s3"

\* Each service uses the S3 bucket if there is one, otherwise the GCS bucket.
UploadBucket   == IF "s3" \in Buckets THEN "s3" ELSE "gcs"
DownloadBucket == IF "s3" \in Buckets THEN "s3" ELSE "gcs"

LocalName(n) == IF acceptance THEN Fixed ELSE n

\* The StorageClient: one request, for a whole object.
StorageUpload(n, content) == store' = [store EXCEPT ![UploadBucket][n] = content]
StorageDownload(n)        == store[DownloadBucket][n]

-----------------------------------------------------------------------------
(* RunBackup.                                                              *)

BackupTo(h, step) == bstep' = [bstep EXCEPT ![h] = step]
BackupError(h)    == Fault /\ BackupTo(h, "error")

\* Mutant: one archive for all of a host's backups.
TarOneName(h) == LocalName(<<h, 0>>)

Tar(h) == LocalName(<<h, start[h]>>)

SetLocal(h, n, content) == local' = [local EXCEPT ![h][n] = content]

Begin(h, time) ==
  /\ bstep[h] \in Resting
  /\ start' = [start EXCEPT ![h] = time]
  /\ again' = IF start[h] = time THEN [again EXCEPT ![h] = @ \cup {time}] ELSE again
  /\ BackupTo(h, "kv")
  /\ UNCHANGED <<env_vars, faults, store, local, client, staged, restore_vars>>

\* Mutant: the start time in nanoseconds.
StartBackupNano(h) == Begin(h, now * 1000)

\* CollectData takes the clock, whatever backup of the host had that second before.
StartBackup(h) == Begin(h, now)

AfterList == [kv |-> "pq", pq |-> "acl", acl |-> "write"]

\* Mutant: the error of the list call is dropped, as in backup.Runner.
ListDropped(h, t) ==
  /\ bstep[h] = t
  /\ \/ /\ client' = [client EXCEPT ![h] =
             [data |-> [i \in Items |-> IF i[1] = t THEN consul[i] ELSE @.data[i]],
              at   |-> [@.at EXCEPT ![t] = now]]]
        /\ NoFault
     \/ Fault /\ UNCHANGED client
  /\ BackupTo(h, AfterList[t])
  /\ UNCHANGED <<env_vars, store, local, start, again, staged, restore_vars>>

\* CollectData lists table t, and returns the error of a list call.
List(h, t) ==
  /\ bstep[h] = t
  /\ \/ /\ client' = [client EXCEPT ![h] =
             [data |-> [i \in Items |-> IF i[1] = t THEN consul[i] ELSE @.data[i]],
              at   |-> [@.at EXCEPT ![t] = now]]]
        /\ NoFault /\ BackupTo(h, AfterList[t])
     \/ BackupError(h) /\ UNCHANGED client
  /\ UNCHANGED <<env_vars, store, local, start, again, staged, restore_vars>>

\* SerializeData and WriteLocalFiles: the staging directory and its four files.
WriteLocalFiles(h) ==
  /\ bstep[h] = "write"
  /\ LET make == staged' = [staged EXCEPT ![h] = @ \cup {start[h]}]
     IN  \/ make /\ NoFault /\ BackupTo(h, "create")
         \/ (make \/ UNCHANGED staged) /\ BackupError(h)
  /\ UNCHANGED <<env_vars, store, local, start, again, client, restore_vars>>

\* TarGz creates or truncates the archive,
CreateArchive(h) ==
  /\ bstep[h] = "create"
  /\ LET create == SetLocal(h, Tar(h), Torn)
     IN  \/ create /\ NoFault /\ BackupTo(h, "archive")
         \/ (create \/ UNCHANGED local) /\ BackupError(h)
  /\ UNCHANGED <<env_vars, store, start, again, client, staged, restore_vars>>

\* The object of h's backup of second s may be in a bucket while another backup of that
\* second works on its local archive, which a restore of h then downloads to.
Shared(h, s) == s \in again[h] /\ h \in Restorers
Contended(h) == ~acceptance /\ Shared(h, start[h])

\* and fills it, though a restore may have removed its name meanwhile, or have written it too.
FillArchive(h) ==
  /\ bstep[h] = "archive"
  /\ LET whole   == [snap |-> client[h], root |-> AtRoot]
         removed == local[h][Tar(h)] = None
         fill    == \/ (removed \/ Contended(h)) /\ UNCHANGED local
                    \/ ~removed /\ SetLocal(h, Tar(h), whole)
                    \/ ~removed /\ Contended(h) /\ SetLocal(h, Tar(h), Torn)
     IN  \/ fill /\ NoFault /\ BackupTo(h, "upload")
         \/ UNCHANGED local /\ BackupError(h)
  /\ UNCHANGED <<env_vars, store, start, again, client, staged, restore_vars>>

\* What UploadBackup reads of the archive, if it is there.
ReadBack(h) == {local[h][Tar(h)]} \cup (IF Contended(h) THEN {Torn} ELSE {})

\* UploadBackup stores what it reads in one bucket.  An upload that fails may have stored it.
UploadBackup(h) ==
  /\ bstep[h] = "upload"
  /\ LET put == \E content \in ReadBack(h) : StorageUpload(<<h, start[h]>>, content)
         removed == local[h][Tar(h)] = None
     IN  \/ acceptance /\ BackupTo(h, "cleanup") /\ UNCHANGED store /\ NoFault
         \/ ~acceptance /\ removed /\ BackupTo(h, "error") /\ UNCHANGED store /\ NoFault
         \/ ~acceptance /\ ~removed /\ put /\ NoFault /\ BackupTo(h, "cleanup")
         \/ ~acceptance /\ ~removed /\ put /\ BackupError(h)
         \/ ~acceptance /\ UNCHANGED store /\ BackupError(h)
  /\ UNCHANGED <<env_vars, local, start, again, client, staged, restore_vars>>

\* Cleanup, deferred once the upload is behind: the staging directory, and the archive
\* unless the acceptance test is going to restore it.  Errors are only logged.
CleanupBackup(h) ==
  /\ bstep[h] = "cleanup"
  /\ BackupTo(h, "ok")
  /\ LET rmdir == staged' = [staged EXCEPT ![h] = @ \ {start[h]}]
         rmtar == IF acceptance THEN UNCHANGED local ELSE SetLocal(h, Tar(h), None)
     IN  \/ rmdir /\ rmtar /\ NoFault
         \/ (rmdir \/ UNCHANGED staged) /\ (rmtar \/ UNCHANGED local) /\ Fault
  /\ UNCHANGED <<env_vars, store, start, again, client, restore_vars>>

\* The caller is killed, and starts anew with a client that holds nothing.
KillBackup(h) ==
  /\ bstep[h] \notin Resting
  /\ BackupError(h)
  /\ client' = [client EXCEPT ![h] = Nothing]
  /\ UNCHANGED <<env_vars, store, local, start, again, staged, restore_vars>>

BackupWork(h) ==
  \/ \E t \in Tables : List(h, t)
  \/ WriteLocalFiles(h) \/ CreateArchive(h) \/ FillArchive(h)
  \/ UploadBackup(h) \/ CleanupBackup(h)

-----------------------------------------------------------------------------
(* RunRestore.                                                             *)

RestoreTo(h, step) == rstep' = [rstep EXCEPT ![h] = step]

\* Mutant: the cleanup is not deferred.
RestoreErrorReturned(h) == RestoreTo(h, "error") /\ failed' = [failed EXCEPT ![h] = TRUE]

\* An error once the download is behind: cleanup, then return it.
RestoreError(h) == RestoreTo(h, "cleanup") /\ failed' = [failed EXCEPT ![h] = TRUE]

\* The caller restores the object n.  DownloadBackup writes it into TmpDir under its base
\* name; its own errors are returned before the cleanup is deferred.
StartRestore(h, n) ==
  /\ rstep[h] \in Resting
  /\ rname'  = [rname  EXCEPT ![h] = LocalName(n)]
  /\ failed' = [failed EXCEPT ![h] = FALSE]
  /\ LET found == ~acceptance /\ StorageDownload(n) # None
     IN  \/ acceptance /\ RestoreTo(h, "extract") /\ UNCHANGED local /\ NoFault
         \/ found /\ SetLocal(h, n, StorageDownload(n)) /\ RestoreTo(h, "extract") /\ NoFault
         \/ found /\ (SetLocal(h, n, Torn) \/ UNCHANGED local) /\ RestoreTo(h, "error") /\ Fault
         \/ ~acceptance /\ ~found /\ RestoreTo(h, "error") /\ UNCHANGED local /\ NoFault
  /\ UNCHANGED <<env_vars, store, backup_vars, got, loaded, todo, out>>

\* UnTarGz reads the local file to its end.
Unpacks(h) == local[h][rname[h]] \in Archives

\* Makes the .extracted directory and unpacks the local file into it, if it is whole.
ExtractBackup(h) ==
  /\ rstep[h] = "extract"
  /\ out' = [out EXCEPT ![h] = @ \cup {rname[h]}]
  /\ \/ /\ Unpacks(h) /\ got' = [got EXCEPT ![h] = local[h][rname[h]]]
        /\ RestoreTo(h, "load") /\ UNCHANGED failed /\ NoFault
     \/ ~Unpacks(h) /\ RestoreError(h) /\ UNCHANGED got /\ NoFault
     \/ RestoreError(h) /\ UNCHANGED got /\ Fault
  /\ UNCHANGED <<env_vars, store, local, backup_vars, rname, loaded, todo>>

ItemsIn(a, tables) == {i \in Items : i[1] \in tables /\ a.snap.data[i] # None}

\* LoadMetadata wants meta.json at the root; LoadBackupData passes over a file that it
\* cannot read, and reports one that it cannot parse.
Load(h) ==
  /\ rstep[h] = "load"
  /\ \/ /\ ~got[h].root /\ RestoreError(h) /\ NoFault
        /\ UNCHANGED <<loaded, todo>>
     \/ /\ got[h].root
        /\ \E tables \in SUBSET Tables :
             /\ IF tables = Tables THEN NoFault ELSE Fault
             /\ loaded' = [loaded EXCEPT ![h] = tables]
             /\ todo'   = [todo   EXCEPT ![h] = ItemsIn(got[h], tables)]
        /\ RestoreTo(h, "put") /\ UNCHANGED failed
     \/ RestoreError(h) /\ Fault /\ UNCHANGED <<loaded, todo>>
  /\ UNCHANGED <<env_vars, store, local, backup_vars, rname, got, out>>

\* RestoreToConsul takes the keys, then the queries, then the ACLs.
Current(h) == IF \E i \in todo[h] : i[1] = "kv" THEN "kv"
              ELSE IF \E i \in todo[h] : i[1] = "pq" THEN "pq" ELSE "acl"

\* Mutant: the error of a put ends the table and is not counted.
PutUncounted(h, i) ==
  /\ rstep[h] = "put" /\ i \in todo[h] /\ i[1] = Current(h)
  /\ LET put == consul' = [consul EXCEPT ![i] = got[h].snap.data[i]]
     IN  \/ put /\ NoFault /\ todo' = [todo EXCEPT ![h] = @ \ {i}]
         \/ /\ (put \/ UNCHANGED consul) /\ Fault
            /\ todo' = [todo EXCEPT ![h] = {j \in @ : j[1] # i[1]}]
  /\ UNCHANGED <<now, acceptance, store, local, backup_vars, rstep, rname, got, loaded, failed, out>>

\* One put.  The first error ends the table, is counted, and the next table follows.
Put(h, i) ==
  /\ rstep[h] = "put" /\ i \in todo[h] /\ i[1] = Current(h)
  /\ LET put == consul' = [consul EXCEPT ![i] = got[h].snap.data[i]]
     IN  \/ put /\ NoFault /\ todo' = [todo EXCEPT ![h] = @ \ {i}] /\ UNCHANGED failed
         \/ /\ (put \/ UNCHANGED consul) /\ Fault
            /\ todo'   = [todo   EXCEPT ![h] = {j \in @ : j[1] # i[1]}]
            /\ failed' = [failed EXCEPT ![h] = TRUE]
  /\ UNCHANGED <<now, acceptance, store, local, backup_vars, rstep, rname, got, loaded, out>>

FinishPuts(h) ==
  /\ rstep[h] = "put" /\ todo[h] = {}
  /\ RestoreTo(h, "cleanup")
  /\ UNCHANGED <<env_vars, faults, store, local, backup_vars, rname, got, loaded, todo, failed, out>>

\* Nothing of the run is used again.
Forget(h) ==
  /\ rname'  = [rname  EXCEPT ![h] = None]
  /\ got'    = [got    EXCEPT ![h] = None]
  /\ loaded' = [loaded EXCEPT ![h] = {}]
  /\ todo'   = [todo   EXCEPT ![h] = {}]
  /\ failed' = [failed EXCEPT ![h] = FALSE]

\* The deferred Cleanup: the local archive, then the .extracted directory.
CleanupRestore(h) ==
  /\ rstep[h] = "cleanup"
  /\ RestoreTo(h, IF failed[h] THEN "error" ELSE "ok")
  /\ LET rmtar == SetLocal(h, rname[h], None)
         rmdir == out' = [out EXCEPT ![h] = @ \ {rname[h]}]
     IN  \/ rmtar /\ rmdir /\ NoFault
         \/ (rmtar \/ UNCHANGED local) /\ (rmdir \/ UNCHANGED out) /\ Fault
  /\ Forget(h)
  /\ UNCHANGED <<env_vars, store, backup_vars>>

KillRestore(h) ==
  /\ rstep[h] \notin Resting
  /\ RestoreTo(h, "error") /\ Forget(h) /\ Fault
  /\ UNCHANGED <<env_vars, store, local, backup_vars, out>>

RestoreWork(h) ==
  \/ ExtractBackup(h) \/ Load(h)
  \/ \E i \in Items : Put(h, i)
  \/ FinishPuts(h) \/ CleanupRestore(h)

-----------------------------------------------------------------------------
UserPut(i, v) ==
  /\ UsersPause => \A h \in Hosts : rstep[h] \in Resting
  /\ consul' = [consul EXCEPT ![i] = v]
  /\ UNCHANGED <<now, acceptance, faults, store, local, backup_vars, restore_vars>>

Tick ==
  /\ now < MaxTime /\ now' = now + 1
  /\ UNCHANGED <<acceptance, consul, faults, store, local, backup_vars, restore_vars>>

Next ==
  \/ Tick
  \/ \E i \in Items, v \in Vals \cup {None} : UserPut(i, v)
  \/ \E h \in Hosts : StartBackup(h) \/ BackupWork(h) \/ KillBackup(h)
  \/ \E h \in Restorers : \/ \E n \in Objects : StartRestore(h, n)
                          \/ RestoreWork(h) \/ KillRestore(h)

Spec == Init /\ [][Next]_vars
-----------------------------------------------------------------------------
(* What the services owe their callers.                                    *)

\* A backup that returns nil is in the bucket that a restore with the same configuration
\* reads; and whole, though a restore of the same host works on the same file names, unless
\* the host restores the object of a second in which it starts several backups.
Reported ==
  \A h \in Hosts : bstep[h] = "ok" /\ ~acceptance =>
    LET object == store[DownloadBucket][<<h, start[h]>>]
    IN  object # None /\ (object \in Archives \/ Shared(h, start[h]))

\* Whatever is in a bucket under a start second was read from consul at or after it, in
\* all three tables: an error of a list call never lets older data through, nor does a
\* retry in that second, with the same exception.
StoredFresh ==
  \A b \in Buckets, h \in Hosts, s \in Time :
    store[b][<<h, s>>] # None /\ ~Shared(h, s) =>
      /\ store[b][<<h, s>>] \in Archives
      /\ \A t \in Tables : LET at == store[b][<<h, s>>].snap.at[t] IN at # None /\ at >= s

\* A restore that is about to return nil, while users pause, has put back every item of the
\* tables it has read, with the value it has in the object that was asked for, if the object
\* is of a second in which its host started one backup.
Once(n) == n \in Names => n[2] \notin again[n[1]]

Asked(h) == IF acceptance THEN got[h] ELSE store[DownloadBucket][rname[h]]

RestoreComplete ==
  \A h \in Restorers : rstep[h] = "cleanup" /\ ~failed[h] /\ Once(rname[h]) =>
    \A i \in ItemsIn(Asked(h), loaded[h]) : consul[i] = Asked(h).snap.data[i]

\* The files of the services outlive their calls only through faults, two for each; in
\* acceptance mode the archive stays as well, and in a second with several backups a
\* staging directory, when a restore removed the archive that was to be uploaded.
Left(h) == Cardinality(staged[h]) + Cardinality({n \in LocalNames : local[h][n] # None})
             + Cardinality(out[h])

FilesBounded ==
  \A h \in Hosts : bstep[h] \in Resting /\ rstep[h] \in Resting
                     => Left(h) <= 2 * faults + Cardinality(again[h])
                                            + (IF acceptance THEN 1 ELSE 0)

\* The store as a restore sees it, and what the callers of RunBackup know.
Kept     == [n \in Names |-> store[DownloadBucket][n]]
Answers  == [h \in Hosts |-> IF bstep[h] = "ok" /\ ~acceptance THEN start[h] ELSE None]
ReadFrom == [t \in Time |->
               {a \in Archives : \A x \in Tables : a.snap.at[x] # None /\ a.snap.at[x] >= t}]

Store == INSTANCE BackupStore
           WITH Times <- Time, Recent <- ReadFrom, NoObject <- None, NoAnswer <- None,
                objects <- Kept, answer <- Answers, repeated <- again

\* Backups and restores that share the local files of their hosts implement the store: no
\* object is ever removed or stored under the name of an older backup, and only a backup of
\* the same host and second replaces one.
ImplementsStore == Store!StoreSpec

\* TarGz: "Add to root of archive"; the restore looks for the files there.  A restore of
\* what RunBackup stored fails only when something fails.
RoundTrip ==
  [][\A h \in Restorers :
       rstep[h] = "load" /\ rname[h] \in Names /\ failed'[h] => faults' # faults]_vars
=============================================================================
