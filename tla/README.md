# A verification of consul-snapshot

consul-snapshot copies the tables of a consul cluster to S3 or Google Cloud Storage, as a
daemon or from cron, marks each backup with a key in consul that a health endpoint reads,
and restores a backup on demand. This directory holds TLA+ modules translated from its Go
code, TLC configurations that check them on small instances, and TLAPS proofs of the main
safety properties for every instance. `PROJECT.json` maps every definition to the lines it
models and lists runs, mutants, findings, hazards and theorems.

## 1. The system

| part | source | state it keeps | operations | modelled in |
|---|---|---|---|---|
| consul cluster | (external) | KV, prepared-query and ACL tables | list, get, put | `Cluster` |
| buckets | (external) | objects, by name | upload, download | `Cluster` |
| backup runner | `backup/backup.go` | consul client's last listing, start time, ticker, temporary files | ticker loop, `doWork` | `BackupRunner`; file by file, for several processes of one host, `SharedTmp` |
| encryption | `crypt/crypt.go` | a file | `EncryptFile`, `DecryptFile`, `CheckEncryption` | `BackupRunner`, `RestoreRunner` |
| consul wrapper | `consul/consul.go` | the last listing of each table | `ListKeys`, ..., `RestoreKeys`, ... | `BackupRunner`, `Services` |
| restore runner | `restore/restore.go` | downloaded file, pairs to put, error count | `doWork` | `RestoreRunner` |
| health endpoint | `health/health.go` | the listener, requests in progress | `handler`, `StartServer` | `Health`; as one predicate, `Cluster` (`Healthy`) |
| configuration | `config/config.go` | none after start | `ParseConfig` | `Configuration` |
| command line | `main.go`, `commands.go`, `command/` | the exit status | check the arguments, call a `Runner` | `Configuration` |
| services | `services/*.go` | one call: its data, its local files | `RunBackup`, `RunRestore` | `Services`; no command calls them |
| adapters | `adapters/` | none | one library call or a few each | `Services`; file system and logger not |
| acceptance mode | `acceptance_test.go`, the two runners | fixed archive and staging directory | backup, wipe, restore | `Acceptance` |
| interfaces, mocks | `interfaces/`, `mocks/` | none | declarations, test doubles | no |
| job specification | `consul-snapshot.nomad` | none | restart of the task | `Restart` |

**How the parts meet.** They share no memory. Everything goes through consul (the backup
lists the tables and puts `service/consul-snapshot/lastbackup`; health reads that key; a
restore puts keys, that one among them) and through the buckets (a backup uploads under
`prefix/year/month/day/host.consul.snapshot.start.tar.gz`; a restore downloads). A daemon
is one goroutine: the ticker's channel has room for one tick, and a round runs in the loop
that receives the ticks. Health is served by the same process but reads consul only.

**What is hard.** The errors of the three list calls, of `EncryptFile`, of `DecryptFile` and
of a GCS read are dropped, so a run goes on with what it has; all other errors end the
process, wherever it is, without cleanup. An upload or a put whose answer is lost is
treated as failed though it took effect. Two buckets are written one after the other. A
late tick can make two rounds start in one second, and they share their names. Several
hosts write one key. A restore puts that key back, while the daemon writes it. Two processes
of one host have one temporary directory, with names that differ by the second only. A
health check reads the key, then its own clock. The conditions on the bucket names are
written three times, differently. In the services a restore downloads to the path of the
host's own archive, only some error returns are behind the cleanup, and a call that is
retried within the second has the names of the one that failed.

**What makes each part correct.** The backup: a marked backup is there, and is as recent as
its mark says; a tick leads to a backup; temporary files do not accumulate without a fault.
The restore: what it puts is what the archive holds; it puts nothing from a damaged file;
it ends. The two together: no stored backup is lost, and the mark always names one. Health:
200 only when there is a recent backup, 500 only when there is none, and always an end. The
configuration: what is accepted backs up somewhere, and where a restore looks. The services:
nil is returned only for what was done. Acceptance mode: a restore brings the backup back.

## 2. The modules

| module | what it is |
|---|---|
| `Cluster` | the state outside the program: clock `now`, tables `kv`, `pq`, `acl`, `bucket[b][name]`, a budget of `faults`; the actions of other clients of consul; the health answer |
| `BackupRunner` | `backup.Runner`, any number of processes on hosts of their own |
| `RestoreRunner` | `restore.Runner`, any number of restoring hosts |
| `SnapshotSystem` | both on one cluster, with users that write keys |
| `BackupLog` | the abstract specification of the system: a growing set of backups and a mark on one of them |
| `Health` | the handler and `StartServer`, with hosts whose clocks differ and are set |
| `Configuration` | environment, command line, `ParseConfig`, and what the runners do with it |
| `Services` | `BackupService` and `RestoreService` with their adapters |
| `BackupStore` | the abstract specification of the services: a store from which no backup disappears and in which only one of the same second replaces another, and what their callers know of it |
| `Acceptance` | the runners in acceptance mode |
| `SharedTmp` | backup processes that share a temporary directory |
| `BackupRunnerProofs`, `SnapshotSystemProofs`, `HealthProofs`, `ConfigurationProofs`, `ServicesProofs`, `AcceptanceProofs`, `SharedTmpProofs` | the theorems |
| `FileCounts` | facts about the size of a set that a step adds to or takes from, for the proofs that count files |
| `MC...` | names of the model values the configurations use, one module for each model |

The last five models stand alone: each takes from the others only what it depends on. To
`Health` a backup is what it does to the key, to `Configuration` it is where it goes, to
`SharedTmp` it is its files.

### Cluster

A listing is recorded with the second at which consul held it (`Listing.at`); the program
does not have this, the properties compare it with the start time. An archive is what its
three json files hold, whether it is encrypted, and whether it is a 0.1.x one. A bucket may
hold objects of earlier versions (`Legacy`): a 0.1.x archive, or an encrypted one. A table
that was never listed is in the archive as json `null` (`None`). The list calls ask for
consistent reads, so `Content` is the table as it is.

### BackupRunner

| action | code (`backup/backup.go` unless named) |
|---|---|
| `Fire` | the runtime's ticker, 162: sends or drops a tick, skips those missed |
| `StartRound` | 163-184: takes a tick (or, with `-once`, starts at once) and the clock |
| `List` | 188-201, `consul.go` 36-67: an error leaves the client's data and the round goes on |
| `Prepare` | 203-239, 287-367: staging directory, three files and their checksums, `meta.json` |
| `Compress` | 369-409: removes a file of that name, writes the archive |
| `Encrypt` | 242-244: `EncryptFile` on the staging directory, error dropped |
| `Upload` | 411-484: to S3 if there is one, then to GCS if there is one |
| `Ack` | 488-499: writes the start time to the key |
| `Cleanup` | 501-513: removes archive and directory, errors logged |
| `Crash`, `Restart` | a kill at any point; the scheduler starts the process anew with an empty client |

Each error path is a disjunct of the action of its call. A failing upload or put may or may
not have taken effect. `End` drops what was in memory and leaves `disk`. There are as many
actions as there are points at which another process, the clock or a failure can come in
between with a different effect; the steps inside `Prepare` and `Compress` touch only files
of this round.

### RestoreRunner

| action | code (`restore/restore.go` unless named) |
|---|---|
| `Download` | 117-186: one object; from GCS if there is a GCS bucket, and then possibly torn |
| `CheckEncryption` | 78-90, `crypt.go` 20-33 and 88-125: exits without a password; a failing decryption is dropped |
| `Extract` | 188-245: ends the process unless the file is a whole gzipped tar |
| `Load` | 277-358: metadata, then the pairs |
| `PutKey` | 360-373: one put; an error is counted |
| `Finish` | 375-383 and the end of `doWork`: status 0 |
| `KillRestore` | a kill, or any error of a local file or of the transfer that ends the process |

Pairs are put in any order, which includes the order of the file. The keys it missed are
remembered (`missed`) instead of counted, so that the properties can name them.

### SnapshotSystem and BackupLog

`SystemNext` is a step of the users, of a backup process or of a restore. With
`UsersPause` the users write nothing while a restore runs, which `RestoreExact` needs to be
meaningful; the daemon does not pause. In `BackupLog` a backup is stored all at once, in
every bucket, and the mark may be set to any stored time, older ones included. The
refinement mapping takes `stored` to the names that are in every configured bucket and
`mark` to the key: uploads to the first of two buckets, rounds, failures and kills are
stuttering steps, the last upload is `Store`, and `Ack` and a restore's put of the key are
`Mark`.

### Health

`Request`, `NewClient`, `Get` and `ReadClock` are the handler between its calls;
`StartServer` is the goroutine of the daemon. A start time is the pair of what the clock of
its host said and when that was (`Stamps`): the program has the first, the properties
compare the second. Clocks are ahead by 0 to `Skew` and `SetClock` moves them at any time,
back as well, so a round can find an earlier time than the one before. `Overwrite` puts
back a key that a backup listed (`kept`), or one that is no number.

### Configuration

A bucket name is its length, since no code looks at more. `Environments` are the variables
with a condition on them. `Second` and `MaxDuration` scale `time.Second` and the 64 bits of
a `time.Duration` down, and `Wrap` is the multiplication of that width. `Launch` is `main`,
the command table and the `Run` of a command; `ParseConfig` its three exits; `Arm` is
`time.NewTicker`, which panics unless the interval is positive. `held` is where the last
backup that was reported has gone, `made` the environment it was made with. A restore asks
for consul's client before it parses the configuration, a backup after: both failures end
a restore with 1, so the model has one order.

### Services

| action | code |
|---|---|
| `StartBackup`, `List` | `CollectData`: the start time, then one call for each table, whose error is returned |
| `WriteLocalFiles` | `SerializeData` and `WriteLocalFiles` |
| `CreateArchive`, `FillArchive` | `CompressBackup`, `TarGz`: between them the archive is there and not whole |
| `UploadBackup` | reads the archive, stores it in one bucket; skipped in acceptance mode |
| `CleanupBackup` | the deferred `Cleanup` |
| `StartRestore` | `DownloadBackup`: one object, written to `TmpDir` under its base name |
| `ExtractBackup` | `.extracted` directory, `UnTarGz` |
| `Load` | `LoadMetadata`, then `LoadBackupData`, which passes over what it cannot read |
| `Put`, `FinishPuts` | `RestoreToConsul`: a table stops at its first error, which is counted |
| `CleanupRestore` | the deferred `Cleanup` |
| `KillBackup`, `KillRestore` | the caller is killed |

`BackupError` is an error return before the cleanup is deferred, `RestoreError` one behind
it. A host's local archive is one variable for both services, by name, which is where they
can meet. `StartBackup` takes the clock as `CollectData` does, so that a second call in one
second, a retry of one that failed for instance, has the staging directory, the archive and
the object of the first. `again`, which the program does not have, remembers these seconds;
`Shared` says that a restore of the host may then be working on the archive at the same
time: a backup that is alone in its second has its object in no bucket before the upload, so
that no restore finds it. `FillArchive` and `UploadBackup` leave open what a backup writes
and reads there (`Contended`): the whole archive, what the restore wrote, or a part.
`Archiver` is an interface: `AtRoot` says whether the one in use puts the files at the root
of the archive, as the restore expects; `TarGz` of `adapters/` does not. `ServicesCalls` has
`AtRoot`, since without it no restore gets that far, which is finding 4. `acceptance`,
chosen at the start, is the mode of all calls of a behaviour. `Foreign` are objects that
`backup.Runner` stored, with the layout of `TarGz`. Creating a query or an ACL sets it.

In `BackupStore` a backup appears with contents that were read at or after the time in its
name, a name newer than its host's others, and nothing removes it; a caller is told of a
backup that is there, or nothing. What changes it is another backup of the same host and
time, after the host has asked for several: the contents are as recent then too, unless the
host restores as well. The refinement mapping takes the store to the bucket that restores
read (`Kept`), the answer of a host to the start time of its last backup if that returned
nil (`Answers`), and `repeated` to `again`. An upload that takes effect, whether or not its
caller hears of it, is `Keep`, or `Replace` in such a second; the cleanup is `Report`; the
next call is `Ask`, or `AskAgain` in the second of the last; and all else, restores
included, is a stutter.

### Acceptance

One file stands for the three tables, since a restore puts keys only. `dir` is the staging
directory of all runs, with a file for each start second and one `meta.json`; `tar` holds
what `dir` held. `StartBackup` keeps what the client holds when it is the next round of a
daemon. `Extract` overwrites the files that the archive has, and `Load` takes the one that
`meta.json` names. `OneAtATime` is the order of the test: the code does not enforce it.

### SharedTmp

Each system call on a shared file is a step. A file is reached by name; an archive that is
open is reached by its inode, so that a process goes on writing one whose name the other
has removed (`tar`, `inode`, `bytes`). A table is known by when it was listed. `Written` is
what is left when two processes write one file from its start. `Shared` are the seconds in
which rounds of several processes may start; `AckedWhole` is about the others.

## 3. The properties

| property | what would break it |
|---|---|
| `LastBackupStored` | a key that names a backup missing from a bucket: a round that goes on after a failed upload, an ack before the second upload |
| `HealthSound` | an answer 200 without, in each bucket, an archive of one host and second whose every table was read within `MaxAge`: a key that holds the end of the round, an ack of an old listing |
| `OverwriteKeepsNewer` | a second round of the same second that replaces newer data: it needs a round of the second before, a kill, an empty client and a failing list together. It is a property of daemons, whose first round is an interval away; a `-once` process started again within the second can do it |
| `TempFilesBounded` | files that stay though nothing failed; a fault accounts for two names |
| `RoundEnds`, `TickBacksUp` | a round waiting for something that does not come; a tick lost without a backup as recent |
| `CapturedStored` | an archive or listing whose own LastBackup names no stored backup, so that restoring it would break `LastBackupStored` |
| `OnlyWholeFilesRestored` | a torn or encrypted file that gets past the unpacking |
| `RestoreExact` | a pair of the archive neither in consul nor among the errors, at the end of a restore |
| `RestoreEnds` | a restore that waits for a key it missed |
| `ImplementsLog` | a stored backup that disappears, a mark that names none |
| `TrueAnswer`, `NoFalseAlarm` | an answer that contradicts the age of the backup it read by more than the difference of two clocks: a key that holds when a round ended, a clock read before the key |
| `RequestsEnd` | a request that waits for a key, or that a failed client keeps open |
| `ReportedIsHeld` | a backup that was reported and is in no bucket |
| `RestoreFinds` | a restore that looks in a bucket the same configuration did not write |
| `OnceHonest` | status 0 with a configured bucket left out |
| `TicksAsAsked` | an interval in another unit, or a wrong sign; not one that overflows to another positive interval, which the code uses: products that a `Duration` cannot hold are left out |
| `Reported` | nil returned for an object that is not in the bucket that restores read, because the two bucket rules differ, or not whole there, because a restore of the host truncated or removed the archive; in a second with several backups of the host that can happen, and only there |
| `StoredFresh` | an object with a table older than its start second: an error of a list call that is passed over, with the client of an earlier call, or an archive that an earlier call of the second left; with the same exception |
| `RestoreComplete` | nil returned with an item of a table that was read not put back; for objects that no other backup of their second can replace under the restore (`Once`) |
| `FilesBounded` | files of the services that stay though nothing failed: the one case is a staging directory of a second with several backups, when a restore removed the archive before the upload |
| `ImplementsStore` | an object that disappears, that a backup of another second replaces, or that is stored with the contents of another backup, because a restore of the host downloaded to the path of the archive that is about to be uploaded; a replacement by an older listing |
| `Acceptance.RoundTrip` | a restore that loads the file of another run from the staging directory |
| `AckedStored` | a key that names no object, when the rounds of one second remove each other's archive before the upload |
| `AckedWhole` | a round that reaches the files of a round of another second |

## 4. The runs

`d1`, `d2` are daemons, `c1` a `-once` process, `r1` a restoring host, `old` a legacy
object.

| run | instance | checks |
|---|---|---|
| `BackupOneDaemon` | 1 daemon, S3 and GCS, query and ACL tables that change, list calls may fail, 4 s, 2 faults | `TypeOK`, `LastBackupStored`, `TempFilesBounded`, `OverwriteKeepsNewer`, `RoundEnds`, `TickBacksUp` |
| `BackupTwoHosts` | daemon and `-once` process run again and again, S3, no faults | `LastBackupStored`, `HealthSound` |
| `SystemRestore` | daemon, restorer, legacy object, S3 and GCS, password set, users pause for a restore, 3 s, 1 fault | `SystemTypeOK`, `CapturedStored`, `HealthSound`, `OnlyWholeFilesRestored`, `ImplementsLog`, `RestoreExact`, `RestoreEnds`, `TickBacksUp` |
| `ServicesCalls` | 1 host that backs up, any number of times in a second, and restores, in both modes, 1 key, S3 and GCS, a foreign object, users pause for a restore, 2 s, 1 fault | `TypeOK`, `Reported`, `StoredFresh`, `FilesBounded`, `RestoreComplete`, `ImplementsStore` |
| `HealthAnswers` | 2 hosts, 1 request at a time, 4 s, `MaxAge` 1, `Skew` 1, 1 fault | `TypeOK`, `TrueAnswer`, `NoFalseAlarm`, `RequestsEnd` |
| `ConfigurationRuns` | bucket names of 0 and 2 characters, intervals below, at and beyond what the width holds, 1 fault | `TypeOK`, `ReportedIsHeld`, `TicksAsAsked`, `RestoreFinds`, `OnceHonest` |
| `AcceptanceRuns` | 1 key, 2 values, 3 s, 2 faults | `TypeOK`, `RoundTrip` |
| `SharedTmpRounds` | 2 processes, 2 s, rounds of the later one may share it | `TypeOK`, `AckedStored`, `AckedWhole` |
| `FindingLayout` | `AtRoot` false, as `TarGz`, no faults | `Services.RoundTrip`, violated |
| `FindingStaleHealth` | list calls may fail | `HealthSound`, violated |
| `FindingPlaintext` | password set | `EncryptedAtRest`, violated |
| `FindingV1Restore` | a 0.1.x object, no faults | `V1Processed`, violated |

A run checks all that its instance can show at once, liveness with the rest; the specification
with fairness has the same safety properties.

**Bounds.** `MaxTime` bounds the clock: two seconds or more after the start, with an interval
of one, give a round that spans several ticks, a late tick, a second round in the same second,
a slower host that sets the key back, and a key that becomes too old (`MaxAge` 1).
`MaxFaults` is the budget of failures and kills of one behaviour: two allow a failed call
followed by a kill, or two failed uploads in different rounds. `SystemRestore` and
`ServicesCalls` have one, which can strike the backup or the restore; the theorems about them
cover any number. Two hosts are checked without faults, which
`BackupOneDaemon` and the theorems cover. One key, with one or two values, is enough because
pairs do not interact; one key besides `LastBackup` already gives a half-restored table.
`BackupOneDaemon` has that key only, so that the tables that change are queries and ACLs.
The clock bound, and nothing in the code, can bring the system to a stop: `BackupOneDaemon`,
which has no users who write keys, ends with a daemon waiting for a tick after the last
second, and is run without the deadlock check, as `SharedTmpRounds`, whose processes start
one round a second. All other runs check it. In `Health` four seconds let a backup become too
old while a request is in progress and a clock is set back over it; faults only end requests
and the listener there, and one is enough. In `Services` two seconds give a backup that finds
the client, and what was left in `TmpDir`, of the one before, in its own second or another;
one key is enough there, since a table that is not listed keeps the second of its last listing
even if it is empty, and the items of a restore do not interact. `ConfigurationRuns` has
`Second` 2 in a `Duration` of 4 bits: the products go beyond both ends and wrap to either
sign. In `Acceptance` a third second gives two files of earlier runs beside the current one.
`SharedTmp` has no counted faults: each process may be killed at each step. Its processes are
symmetric, and the run uses that.

**Fairness.** `FairSpec` and `FairSystemSpec` assume that a process that can take its next
step takes it (`Work`, `RestoreWork`), and that the runtime fires a due ticker (`Fire`). It
stands for goroutine scheduling and for remote calls that return, with an answer or an
error: the code sets no timeout, so a call that hangs would stop the daemon. No fairness is
assumed of the clock, the users, the operator who starts a restore, or the scheduler that
restarts a process. `TickBacksUp` is stated for the moment the budget of faults is used up,
since a fault ends the process. `FairSpec` of `Health` assumes that each handler, a goroutine
of its own, takes its next step, not that anyone makes a request. The other modules state
safety only: `Services` and the rest have no fairness.

## 5. What is proved

For all constants that satisfy the assumptions of the modules: any sets of hosts, restorers
and keys, one or two buckets, any interval, clock bound and number of faults.

| theorem | states | assumes |
|---|---|---|
| `TypeCorrect` | `Spec => []TypeOK` | |
| `LastBackupIsStored` | `Spec => []LastBackupStored` | |
| `HealthIsSound` | `Spec => []HealthSound` | list calls succeed |
| `TempFilesAreBounded` | `Spec => []TempFilesBounded` | |
| `OverwritesKeepNewer` | `Spec => OverwriteKeepsNewer` | |
| `SystemTypeCorrect` | `SystemSpec => []SystemTypeOK` | |
| `CapturesAreStored` | `SystemSpec => []CapturedStored` | |
| `OnlyWholeFiles` | `SystemSpec => []OnlyWholeFilesRestored` | |
| `SystemLastBackupStored` | `SystemSpec => []LastBackupStored` | |
| `SystemHealthIsSound` | `SystemSpec => []HealthSound` | list calls succeed |
| `SystemImplementsLog` | `SystemSpec => ImplementsLog` | |
| `SystemTempFilesBounded`, `SystemOverwritesKeepNewer` | `SystemSpec => []TempFilesBounded`, `OverwriteKeepsNewer` | |
| `RestoreIsExact` | `SystemSpec => RestoreExact` | users pause, at most one restoring host |
| `HealthProofs!AnswersAreTrue`, `NoAlarmIsFalse` | `Spec => TrueAnswer`, `NoFalseAlarm` | |
| `ServicesProofs!StoredIsFresh`, `ReportedIsStored` | `Spec => []StoredFresh`, `[]Reported` | |
| `ServicesProofs!FilesAreBounded` | `Spec => []FilesBounded` | |
| `ServicesProofs!ServicesImplementStore` | `Spec => ImplementsStore` | |
| `ServicesProofs!RestoreIsComplete` | `Spec => []RestoreComplete` | users pause, at most one restoring host |
| `ConfigurationProofs!DaemonTicksAsAsked` | `Spec => []TicksAsAsked` | |
| `ConfigurationProofs!ReportedBackupIsHeld`, `RestoreFindsBackup`, `OnceIsHonest` | `Spec => []ReportedIsHeld`, `RestoreFinds`, `OnceHonest` | no bucket name has one character |
| `AcceptanceProofs!RoundTripHolds` | `Spec => []RoundTrip` | a backup and a restore do not overlap |
| `SharedTmpProofs!AckedIsStored` | `Spec => []AckedStored` | |
| `SharedTmpProofs!AckedIsWhole` | `Spec => []AckedWhole` | |

Each of the last five modules also has its `TypeCorrect`.

*The key.* `LastBackupStored` is not inductive: nothing in it says that a round about to
write the key has stored its archive. `StoredInv` adds `UploadsBehind`, that a process has
its object in every configured bucket its step has passed. Uploads only ever put an object
where there may be one, so what is stored stays stored.

*Health.* Without failing lists, `FreshInv` adds that the tables a round has listed were
read at or after its start (`FreshClients`), and that an archive's tables were read at or
after the second in its name (`FreshObjects`). A healthy answer then names a second within
`MaxAge`, an archive of that second is stored, and its data is at least that recent. With
failing lists the theorem is false, which is the first finding.

*Temporary files.* `TempFilesBounded` speaks of the processes at rest, and nothing in it says
what a running round has on disk. `Leftover` is what no round will remove: the files of each
process except the two names of its current round. `LeftoverInv` bounds it, at every moment,
by two for each fault. A round that cleans up takes its names with it; one that ends in any
other way turns at most its two names into leftovers and costs a fault.

*Archives of one name.* A name is written twice when two rounds of a process start in one
second, which takes a late tick. The second round has listed in between, and a list call that
fails leaves the older data. `NewerInv` says of each archive that a daemon may still write
over (`Dominated`) that what the daemon holds is at least as recent, table by table, or that
its current or next round has a later second (`Past`). In one process the client only ever
gets newer listings. One that is started again holds nothing, but starts its first round an
interval later, which makes every earlier archive `Past`. `Clocked` says that nothing stored
or held is of the future.

*Restores.* A restore can put back any `LastBackup` that some archive holds, so the
invariant must speak of all the tables that were ever copied: `CapturedStored` says of every
table held by a client, a bucket or a downloaded file that its `LastBackup` names a stored
backup (`GoodTables`). It is kept because a listing copies the current table, which is good,
and because good tables stay good as the buckets grow. `RestoreInv` says that a restore in
progress has its file, and puts keys of it only after unpacking it.

*A restore alone.* `ExactInv`: while a restore puts its keys, each pair of the archive is
still to do, was missed, or is in consul. A backup writes `LastBackup` only, which
`RestoreExact` leaves out. Users who write, or a second restore, can set a key back behind
the restore, and nothing in the code prevents either: hence the two assumptions, of this
theorem and of the one about the services.

*The log.* Each action of the system is shown to be a `Store`, a `Mark` or a stutter of
`BackupLog`; the fact that the key is only set to stored times is `CapturedStored` for a
restore and `UploadsBehind` for a backup.

*Health's answers.* The invariant says that every start time there is, of a round, in the
key, in a backup that may be restored and in a request, is at most `Skew` ahead of when it
was taken. The clock that a request reads is within the same distance of the time, so the
difference it computes is within `Skew` of the age. Which request read which key, and what
was written since, does not matter.

*The services.* The object of a backup in progress is in no bucket until its upload, unless
the host has started another in that second (`NotStored`), and a restore works on a name
that is in a bucket (`Found`): so the two of one host have the same local path in such a
second only, and a backup of any other second, or of a host that does not restore, finds
its own archive as it wrote it (`OwnTar`). `ListedSince` says that the tables listed so far
were read since the start; an error of a list call ends the backup, so what is archived
satisfies it for all three. `Delivered` carries the object to the answer.

*The services' files.* As for the runner, `FilesInv` counts what no call in progress will
remove, but by directory: staging directories, archives, `.extracted` ones. A backup that
fails leaves a name in the first two, a restore that fails in the last two. An archive that
both calls of a host know is in use as long as either of them is (`InUse`). A backup that
ends without a fault because its archive is gone leaves its staging directory: by `OwnTar`
this is a second with several backups, whose directories are counted apart.

*The services' restores.* `CompleteInv` follows the object from the bucket to consul: the
downloaded file is the object, or is gone, since the host's own backup may be cleaning up
under the same name; what was unpacked is the object; an item of a table that was read is
still to put or in consul, unless an error was counted. That the object in the bucket is
still the one that was downloaded is `NotStored` again: the name of an object that is alone
in its second is stored once (`ObjectsStay`).

*The store.* The same facts give the refinement: at the upload `NotStored` makes the name
newer than the others of the host, and new or one of several; `OwnTar` and `ListedSince` say
what is stored under it, and `Delivered` that the answer is true. It is more than
`StoredFresh` and `Reported`, which would allow an object to disappear, or to be replaced by
the backup of another second.

*The configuration.* A backup that was reported is held in exactly the buckets that
`Uploads` names for its environment, and an environment that is accepted has a bucket. With
one-character names the two conditions differ, and the theorem is false (section 6).

*Acceptance.* While no backup runs and the archive is whole, the file that its `meta.json`
names holds what the last finished backup listed; and unpacking puts that file and that
`meta.json` over whatever is in the directory.

*One temporary directory.* For `AckedStored`: a process that acknowledges has just uploaded
under its own second, and objects stay. For `AckedWhole`: the files, the archive and the inode
of a second that is not shared are touched by one process only (`Exclusive`), so they follow
its steps.

The bounds `MaxTime` and `MaxFaults` remain in the proofs as arbitrary natural numbers.

**Only model-checked.** The liveness properties: `RoundEnds`, `TickBacksUp`, `RestoreEnds`,
`RequestsEnd`. Liveness under fairness is out of the prover's reach here. Every other
property of a passing run is the statement of a theorem.

## 6. Findings

1. *Encryption* (`FindingPlaintext`). `backup.go:243` encrypts the staging directory instead
   of the archive, after the archive was written, and drops the error. Archives are uploaded
   in the clear whether or not `CRYPTO_PASSWORD` is set.
2. *Stale data reported as recent* (`FindingStaleHealth`). `backup.go:189-201` drop the
   errors of the list calls, and the client keeps what it had. The round archives it under
   its own start time, and `/health` reports that time. In a first round the archive holds
   `null` for the table.
3. *0.1.x backups* (`FindingV1Restore`). `extractBackup` ends the process on a file that is
   no tar, before `inspectBackup` can treat it as a 0.1.x backup.
4. *The services' archives* (`FindingLayout`). `TarGz` means to add the files to the root of
   the archive (`archiver.go:34`) but `FilesFromDisk` keeps the base name of the staging
   directory, and `LoadMetadata` reads `meta.json` at the root: `RunRestore` fails on every
   archive that `RunBackup` makes.

Five more observations have no run of their own, because no text of the repository promises
otherwise, or only a log line does:

- *Files that cannot be read.* `LoadBackupData` passes over them (`restore_service.go:140`,
  149, 158), and the restore logs that it completed successfully. `RestoreComplete` is stated
  for the tables that were read.
- *No health endpoint.* The error of `ListenAndServe` is dropped (`health.go:50`); `Health`
  has a listener that fails to start, and whose daemon goes on.
- *Bucket names of one character.* `checkEmpty` accepts them (`config.go:44`) and
  `writeBackupRemote` skips them (`backup.go:477`): the backup is reported and is nowhere.
  With `Names = {0, 1, 2}` in `ConfigurationRuns.cfg` TLC shows it as a violation of
  `ReportedIsHeld`; the theorems assume no such name.
- *Two rounds of a host in one second.* They truncate each other's staged files, and
  `os.Remove` before `os.Create` does not avoid every conflict (`backup.go:380-388`): a file,
  or the archive, can be truncated after it was written, and the key then names a backup with
  an empty table, or an empty object. With `key \notin Shared` dropped from `AckedWhole`, TLC
  shows it.
- *Two calls of RunBackup in one second.* `CollectData` takes the second
  (`backup_service.go:76`), and archive and object are named by it (179, 220): a retry
  replaces the object of the call before, which may have been stored although its upload
  returned an error. A restore of that object on the same host downloads to the archive's
  path (`restore_service.go:78`) and removes it at its end, so the retry can upload a part of
  an archive and return nil. With `Shared` dropped from `Reported` or `StoredFresh`, TLC
  shows it; with `Replace` dropped from `BackupStore`, that an object is replaced.

## 7. What is abstracted or left out

- Contents of values, json, sha256 and the cipher: an archive holds the tables themselves.
  The checksums in `meta.json` are never verified by the program, so they have no effect.
- The interfaces and mocks have no behaviour; the file system and logger adapters pass each
  call on. A `BackupService` without a `Storage` returns an error at once.
- That a remote call hangs (see fairness), and that `DecryptFile` panics on a file shorter
  than its header, which ends the process as the failed unpacking would.
- `NewConsulAdapter` of the services' callers, which no code of the repository has.
- A configuration that changes between the backup and its restore, and a backup by one of
  runner and services that the other restores, except for the layout (`Foreign`).
- The flags, session and indexes of a key. A put restores the value only.
- The three temporary json files and `meta.json` are part of the staging directory.
- In `BackupRunner` a process has a host of its own; `SharedTmp` has several on one. Files
  that a restore of the runner leaves behind are not tracked.
- In `BackupRunner` and `Services` the wall clock does not go back and the hosts agree on it;
  `Health` has clocks that do neither.
- In `Services` a host makes one call of `RunBackup` at a time, and one of `RunRestore` beside
  it. The calls of one service have no state that would keep two of them apart.
- A user never writes `LastBackup` by hand, and nobody deletes objects from a bucket.
- Names in a bucket are compared as host and start second: the date in the name is a
  function of the second.

## 8. The plan

All components with behaviour of their own are modelled, and every safety property that a run
checks is proved. What could be added are refinements between the models: of the part of
`BackupRunner` that `SharedTmp` has in more detail, and of the predicate `Healthy` of
`Cluster` by the steps of `Health`.
