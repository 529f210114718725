---------------------------- MODULE BackupRunner ----------------------------
(***************************************************************************)
(* backup.Runner: the process that copies the consul tables to the         *)
(* buckets, once (-once, a cron job) or at every tick of a timer (the      *)
(* daemon).  A round lists the three tables, stages and archives what it   *)
(* has, uploads the archive to each bucket in turn, writes its start time  *)
(* to the key LastBackup, and removes its temporary files.                 *)
(*                                                                         *)
(* One action per call that another process, the clock, a failure or a     *)
(* kill can come before or after.  Two facts of the code shape the rest:   *)
(* the errors of the list calls are dropped, so a round goes on with what  *)
(* an earlier round of the same process listed; every later error ends     *)
(* the process, leaving its temporary files.                               *)
(***************************************************************************)
EXTENDS Cluster, FiniteSets

CONSTANTS
  Once,         \* the processes started with -once
  Interval,     \* the daemon's interval, in seconds
  ListMayFail   \* list calls may fail

ASSUME BackupAssumption ==
  /\ Once \subseteq Procs
  /\ Interval \in Nat \ {0}
  /\ ListMayFail \in BOOLEAN

VARIABLES
  pc,        \* pc[p] is the next step of process p
  start,     \* start[p] is Backup.StartTime of p's last round
  client,    \* client[p][t] is what p's consul client holds of table t
  due,       \* due[p] is when the ticker of p fires next
  pending,   \* pending[p]: a tick waits in the channel, of capacity one
  disk,      \* disk[p] is the set of temporary files and directories on p's host
  sealed     \* sealed[p] is the set of those that EncryptFile has rewritten

memory    == <<start, client, due, pending>>
proc_vars == <<pc, memory, disk, sealed>>
vars      == <<cluster_vars, proc_vars>>

Resting == {"done", "dead"}
Steps   == Tables \cup {"idle", "prepare", "compress", "encrypt", "s3", "gcs", "ack", "cleanup"}
                  \cup Resting
Paths   == {"dir", "tar"} \X Time

TypeOK ==
  /\ ClusterTypeOK
  /\ pc      \in [Procs -> Steps]
  /\ start   \in [Procs -> Time]
  /\ client  \in [Procs -> [Tables -> Listing \cup {None}]]
  /\ due     \in [Procs -> Nat]
  /\ pending \in [Procs -> BOOLEAN]
  /\ disk    \in [Procs -> SUBSET Paths]
  /\ sealed  \in [Procs -> SUBSET Paths]

-----------------------------------------------------------------------------
Daemon(p) == p \notin Once
Running(p) == pc[p] \notin Resting
InRound(p) == pc[p] \notin Resting \cup {"idle"}

\* The staging directory and the archive of p's round, in its TmpDir.
Dir(p) == <<"dir", start[p]>>
Tar(p) == <<"tar", start[p]>>

\* The archive of p's round.
Archive(p) == [data |-> client[p], sealed |-> Tar(p) \in sealed[p], v1 |-> FALSE]

NoData == [t \in Tables |-> None]

BackupInit ==
  /\ ClusterInit
  /\ pc      = [p \in Procs |-> "idle"]
  /\ start   = [p \in Procs |-> 0]
  /\ client  = [p \in Procs |-> NoData]
  /\ due     = [p \in Procs |-> Interval]
  /\ pending = [p \in Procs |-> FALSE]
  /\ disk    = [p \in Procs |-> {}]
  /\ sealed  = [p \in Procs |-> {}]

GoTo(p, step) == pc' = [pc EXCEPT ![p] = step]

\* The call succeeded, or its error is ignored.
Proceed(p, step) == GoTo(p, step) /\ UNCHANGED memory

\* The process ends and what it had in memory goes; its files stay.
End(p, status) ==
  /\ GoTo(p, status)
  /\ start'   = [start   EXCEPT ![p] = 0]
  /\ client'  = [client  EXCEPT ![p] = NoData]
  /\ due'     = [due     EXCEPT ![p] = 0]
  /\ pending' = [pending EXCEPT ![p] = FALSE]

\* log.Fatal, or the error returned by doWork: exit status 1.
Die(p) == Fault /\ End(p, "dead")

-----------------------------------------------------------------------------
\* The runtime fires p's ticker: a tick that finds the channel full is dropped, and ticks
\* missed while the process did not run are skipped.
Fire(p) ==
  /\ Daemon(p) /\ Running(p) /\ due[p] <= now
  /\ pending' = [pending EXCEPT ![p] = TRUE]
  /\ due' = [due EXCEPT ![p] = @ + Interval * (1 + ((now - @) \div Interval))]
  /\ UNCHANGED <<cluster_vars, pc, start, client, disk, sealed>>

\* Mutant: the start time in nanoseconds.
StartRoundNano(p) ==
  /\ pc[p] = "idle"
  /\ Daemon(p) => pending[p]
  /\ pending' = [pending EXCEPT ![p] = FALSE]
  /\ start' = [start EXCEPT ![p] = now * 1000]
  /\ GoTo(p, "kv")
  /\ UNCHANGED <<cluster_vars, client, due, disk, sealed>>

\* A new round: the daemon takes a tick, a -once process starts right away.
StartRound(p) ==
  /\ pc[p] = "idle"
  /\ Daemon(p) => pending[p]
  /\ pending' = [pending EXCEPT ![p] = FALSE]
  /\ start' = [start EXCEPT ![p] = now]
  /\ GoTo(p, "kv")
  /\ UNCHANGED <<cluster_vars, client, due, disk, sealed>>

AfterList == [kv |-> "pq", pq |-> "acl", acl |-> "prepare"]

\* Mutant: the list call waits for a change, as consul's blocking queries do.
ListBlocking(p, t) ==
  /\ pc[p] = t
  /\ client[p][t] # None => client[p][t].val # Content(t)
  /\ client' = [client EXCEPT ![p][t] = [val |-> Content(t), at |-> now]]
  /\ NoFault /\ GoTo(p, AfterList[t])
  /\ UNCHANGED <<now, kv, pq, acl, bucket, start, due, pending, disk, sealed>>

\* Lists table t.  doWork drops the error: the client keeps what it has.
List(p, t) ==
  /\ pc[p] = t
  /\ \/ /\ client' = [client EXCEPT ![p][t] = [val |-> Content(t), at |-> now]]
        /\ NoFault
     \/ ListMayFail /\ Fault /\ UNCHANGED client
  /\ GoTo(p, AfterList[t])
  /\ UNCHANGED <<now, kv, pq, acl, bucket, start, due, pending, disk, sealed>>

\* Makes the staging directory and writes the three json files, with their checksums,
\* and meta.json into it.
Prepare(p) ==
  /\ pc[p] = "prepare"
  /\ LET make == disk' = [disk EXCEPT ![p] = @ \cup {Dir(p)}]
     IN  \/ make /\ NoFault /\ Proceed(p, "compress")
         \/ (make \/ UNCHANGED disk) /\ Die(p)
  /\ UNCHANGED <<now, kv, pq, acl, bucket, sealed>>

\* Removes an archive of the same name, then writes the archive.
Compress(p) ==
  /\ pc[p] = "compress"
  /\ LET create == disk' = [disk EXCEPT ![p] = @ \cup {Tar(p)}]
         remove == disk' = [disk EXCEPT ![p] = @ \ {Tar(p)}]
     IN  \/ create /\ NoFault /\ Proceed(p, "encrypt")
         \/ (create \/ remove) /\ Die(p)
  /\ sealed' = [sealed EXCEPT ![p] = @ \ {Tar(p)}]
  /\ UNCHANGED <<now, kv, pq, acl, bucket>>

\* crypt.EncryptFile rewrites a file in place; reading a directory is an error.
EncryptFile(p, path) ==
  sealed' = [sealed EXCEPT ![p] = IF path[1] = "tar" THEN @ \cup {path} ELSE @]

\* doWork encrypts b.LocalFilePath, the staging directory, and drops the error.
Encrypt(p) ==
  /\ pc[p] = "encrypt"
  /\ IF Password THEN EncryptFile(p, Dir(p)) ELSE UNCHANGED sealed
  /\ Proceed(p, "s3")
  /\ UNCHANGED <<cluster_vars, disk>>

AfterUpload == [s3 |-> "gcs", gcs |-> "ack"]

\* Mutant: an upload error is logged and the round goes on.
UploadLogged(p, b) ==
  /\ pc[p] = b
  /\ LET put == bucket' = [bucket EXCEPT ![b][<<p, start[p]>>] = Archive(p)]
     IN  \/ b \in Buckets /\ put /\ NoFault
         \/ b \in Buckets /\ UNCHANGED bucket /\ Fault
         \/ b \notin Buckets /\ UNCHANGED bucket /\ NoFault
  /\ Proceed(p, AfterUpload[b])
  /\ UNCHANGED <<now, kv, pq, acl, disk, sealed>>

\* Uploads the archive to bucket b, if there is one.  An upload that fails may have stored
\* the object; either way the process ends.
Upload(p, b) ==
  /\ pc[p] = b
  /\ LET put == bucket' = [bucket EXCEPT ![b][<<p, start[p]>>] = Archive(p)]
     IN  \/ b \in Buckets /\ put /\ NoFault /\ Proceed(p, AfterUpload[b])
         \/ b \in Buckets /\ (put \/ UNCHANGED bucket) /\ Die(p)
         \/ b \notin Buckets /\ UNCHANGED bucket /\ NoFault /\ Proceed(p, AfterUpload[b])
  /\ UNCHANGED <<now, kv, pq, acl, disk, sealed>>

\* Mutant: the key gets the time at which the round ends.
AckEndTime(p) ==
  /\ pc[p] = "ack"
  /\ kv' = [kv EXCEPT ![LastBackup] = now]
  /\ NoFault /\ Proceed(p, "cleanup")
  /\ UNCHANGED <<now, pq, acl, bucket, disk, sealed>>

\* Mutant: the key is created, never written again.
AckCreate(p) ==
  /\ pc[p] = "ack"
  /\ kv' = [kv EXCEPT ![LastBackup] = IF @ = None THEN start[p] ELSE @]
  /\ NoFault /\ Proceed(p, "cleanup")
  /\ UNCHANGED <<now, pq, acl, bucket, disk, sealed>>

\* Writes the start time to LastBackup.  A write that fails may have reached consul.
Ack(p) ==
  /\ pc[p] = "ack"
  /\ LET put == kv' = [kv EXCEPT ![LastBackup] = start[p]]
     IN  \/ put /\ NoFault /\ Proceed(p, "cleanup")
         \/ (put \/ UNCHANGED kv) /\ Die(p)
  /\ UNCHANGED <<now, pq, acl, bucket, disk, sealed>>

\* Mutant: the staging directory is not removed.
CleanupTar(p) ==
  /\ pc[p] = "cleanup"
  /\ disk' = [disk EXCEPT ![p] = @ \ {Tar(p)}] /\ NoFault
  /\ IF Daemon(p) THEN Proceed(p, "idle") ELSE End(p, "done")
  /\ UNCHANGED <<now, kv, pq, acl, bucket, sealed>>

\* Removes the archive, then the staging directory; errors are only logged.
Cleanup(p) ==
  /\ pc[p] = "cleanup"
  /\ \/ disk' = [disk EXCEPT ![p] = @ \ {Dir(p), Tar(p)}] /\ NoFault
     \/ Fault /\ \E left \in {{Dir(p)}, {Tar(p)}, {Dir(p), Tar(p)}} :
                   disk' = [disk EXCEPT ![p] = (@ \ {Dir(p), Tar(p)}) \cup (@ \cap left)]
  /\ IF Daemon(p) THEN Proceed(p, "idle") ELSE End(p, "done")
  /\ UNCHANGED <<now, kv, pq, acl, bucket, sealed>>

\* The process is killed, or its host goes down.
Crash(p) ==
  /\ Running(p)
  /\ Die(p)
  /\ UNCHANGED <<now, kv, pq, acl, bucket, disk, sealed>>

\* Mutant: the first tick comes when the daemon starts.
RestartAtOnce(p) ==
  /\ pc[p] \in Resting
  /\ GoTo(p, "idle")
  /\ due' = [due EXCEPT ![p] = now]
  /\ UNCHANGED <<cluster_vars, start, client, pending, disk, sealed>>

\* The scheduler (nomad, cron) starts the process anew, with an empty client and a new
\* ticker.
Restart(p) ==
  /\ pc[p] \in Resting
  /\ GoTo(p, "idle")
  /\ due' = [due EXCEPT ![p] = now + Interval]
  /\ UNCHANGED <<cluster_vars, start, client, pending, disk, sealed>>

-----------------------------------------------------------------------------
\* A step of doWork.
Work(p) ==
  \/ StartRound(p)
  \/ \E t \in Tables : List(p, t)
  \/ Prepare(p)
  \/ Compress(p)
  \/ Encrypt(p)
  \/ \E b \in {"s3", "gcs"} : Upload(p, b)
  \/ Ack(p)
  \/ Cleanup(p)

BackupNext == \E p \in Procs : Work(p) \/ Fire(p) \/ Crash(p) \/ Restart(p)

Next == \/ Environment /\ UNCHANGED proc_vars
        \/ BackupNext

Spec == BackupInit /\ [][Next]_vars

\* A process that can take its next step takes it, and the runtime fires a due ticker.
\* Nothing is assumed of the clock, the users, or the scheduler that restarts a process.
FairSpec == Spec /\ \A p \in Procs : WF_vars(Work(p)) /\ WF_vars(Fire(p))
-----------------------------------------------------------------------------
(* What the runner owes its operator.                                      *)

\* An archive of start time t is in every configured bucket, under the name of some host.
StoredAt(t) == \E p \in Procs : Stored(<<p, t>>)

\* Whoever reads LastBackup may go and fetch that backup: whatever fails or is killed,
\* the key never names a start time whose archive is missing from a configured bucket.
\* (writeBackupRemote uploads to both buckets before postProcess writes the key.)
LastBackupStored == kv[LastBackup] # None => StoredAt(kv[LastBackup])

\* The configured buckets that p's round has behind it.
Behind(p) == CASE pc[p] = "gcs" -> Buckets \ {"gcs"}
               [] pc[p] = "ack" -> Buckets
               [] OTHER         -> {}

\* What makes it inductive: a round that comes to the key has stored its archive.
UploadsBehind == \A p \in Procs : \A b \in Behind(p) : bucket[b][<<p, start[p]>>] # None

StoredInv == TypeOK /\ UploadsBehind /\ LastBackupStored

\* All of archive a was read from consul in the last age seconds.
NoOlderThan(a, age) == \A t \in Tables : a.data[t] # None /\ now <= a.data[t].at + age

\* /health answers 500 when the backup is older than MaxAge: when it answers 200, each
\* bucket has an archive of one host and second whose every table was read from consul
\* within MaxAge.  (The key holds the start of the round, taken before the first list.)
HealthSound ==
  Healthy => \E n \in Names : \A b \in Buckets :
                bucket[b][n] # None /\ NoOlderThan(bucket[b][n], MaxAge)

\* What makes it inductive where list calls succeed: a round's tables are read after its
\* start, and an archive holds what was read after the start in its name.
ReadSince(data, tables, t) == \A x \in tables : data[x] # None /\ data[x].at >= t

Listed(p) == CASE pc[p] = "pq"  -> {"kv"}
               [] pc[p] = "acl" -> {"kv", "pq"}
               [] pc[p] \in {"prepare", "compress", "encrypt", "s3", "gcs"} -> Tables
               [] OTHER         -> {}

FreshClients == \A p \in Procs : start[p] <= now /\ ReadSince(client[p], Listed(p), start[p])

FreshObjects == \A b \in Buckets, n \in Names :
                  bucket[b][n] # None => ReadSince(bucket[b][n].data, Tables, n[2])

FreshInv == StoredInv /\ FreshClients /\ FreshObjects

\* Two rounds of a daemon that start in the same second use one object name (a late tick
\* followed by one in time).  The object written over an earlier one holds tables at
\* least as recent, even when list calls fail and a killed daemon comes back at once: its
\* first round is an interval away.  (A -once process has nothing of the sort: run twice in
\* a second, it may store an archive that lacks a table over one that has it.)
NoOlderData(new, old) ==
  \A t \in Tables : old.data[t] # None => /\ new.data[t] # None
                                          /\ new.data[t].at >= old.data[t].at
OverwriteKeepsNewer ==
  [][\A b \in Buckets, n \in Names :
       Daemon(n[1]) /\ bucket[b][n] # None /\ bucket'[b][n] # bucket[b][n]
         => bucket'[b][n] # None /\ NoOlderData(bucket'[b][n], bucket[b][n])]_vars

\* Temporary files of rounds that failed are never collected, but nothing else is left:
\* between rounds, a fault accounts for each two names on the disks.
TempFilesBounded ==
  (\A p \in Procs : ~InRound(p))
    => Cardinality(UNION {{p} \X disk[p] : p \in Procs}) <= 2 * faults

\* With CRYPTO_PASSWORD set, what leaves the host is encrypted (README).
EncryptedAtRest ==
  Password => \A b \in Buckets, n \in Names : bucket[b][n] # None => bucket[b][n].sealed

\* Every round ends, in success or in the end of the process: the daemon is never stuck
\* in doWork, where it would miss all later ticks.
RoundEnds == \A p \in Procs : InRound(p) ~> ~InRound(p)

\* Once nothing fails any more, a tick leads to a backup at least as recent as the tick,
\* though it came during another round, and though other daemons write the same key.
TickBacksUp ==
  \A p \in Procs, t \in Time :
    pending[p] /\ Running(p) /\ now = t /\ faults = MaxFaults
      ~> kv[LastBackup] # None /\ kv[LastBackup] >= t
=============================================================================
