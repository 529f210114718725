----------------------------- MODULE SharedTmp -----------------------------
(***************************************************************************)
(* Two backup processes of one host, a daemon and a -once job say, in one  *)
(* TmpDir.  The staging directory and the archive are named by host and    *)
(* start second: rounds that start in one second share them, file by file. *)
(* Each system call on a shared file is a step; a file is reached by name  *)
(* or, once open, by its inode.  Errors end the process.                   *)
(***************************************************************************)
EXTENDS Naturals

CONSTANTS
  Procs,     \* the processes
  Shared,    \* the seconds at which rounds of several processes may start
  None,      \* no such file, inode or object, nothing listed
  Empty,     \* a file that was opened and truncated
  Torn,      \* a file that two processes have written at once
  MaxTime    \* bound on the clock

Time   == 0..MaxTime
Tables == {"kv", "pq", "acl"}

\* A table is known by the second at which it was listed.  The archive of a directory has
\* whatever its files held.
Contents == Time \cup {None, Empty, Torn}
Snapshots == [Tables -> Contents]

ASSUME SharedTmpAssumption ==
  /\ MaxTime \in Nat /\ Shared \subseteq Time
  /\ {None, Empty, Torn} \cap (Time \cup Procs \cup Snapshots) = {}
  /\ None # Empty /\ None # Torn /\ Empty # Torn

VARIABLES
  now,
  pc,       \* pc[p] is the next step of p
  table,    \* table[p] is the table whose file p is writing
  start,    \* start[p] is the start second of p's round
  data,     \* data[p][t] is when p listed table t
  dirs,     \* the seconds whose staging directory exists
  file,     \* file[s][t] is the file of table t in the staging directory of s
  tar,      \* tar[s] is the inode that the archive's name of second s stands for
  inode,    \* inode[p] is the archive that p has open: one of second start[p]
  bytes,    \* bytes[s][i] is what inode i of second s holds; p makes at most one a second, p
  bucket,   \* bucket[s] is the object of this host and second s
  key       \* the key LastBackup

disk_vars == <<dirs, file, tar, bytes>>
vars == <<now, pc, table, start, data, inode, disk_vars, bucket, key>>

Steps == {"list", "mkdir", "open", "write", "sum", "remove", "create", "archive", "upload", "ack",
          "rmtar", "rmdir", "rest"}

TypeOK ==
  /\ now \in Time
  /\ pc \in [Procs -> Steps]
  /\ table \in [Procs -> Tables]
  /\ start \in [Procs -> Time \cup {None}]
  /\ data \in [Procs -> Time \cup {None}]
  /\ dirs \subseteq Time
  /\ file \in [Time -> Snapshots]
  /\ tar \in [Time -> Procs \cup {None}]
  /\ inode \in [Procs -> Procs \cup {None}]
  /\ bytes \in [Time -> [Procs -> Snapshots \cup {None, Empty, Torn}]]
  /\ bucket \in [Time -> Snapshots \cup {None, Empty, Torn}]
  /\ key \in Time \cup {None}

Init ==
  /\ now = 0
  /\ pc = [p \in Procs |-> "rest"]
  /\ table = [p \in Procs |-> "kv"]
  /\ start = [p \in Procs |-> None]
  /\ data = [p \in Procs |-> None]
  /\ dirs = {}
  /\ file = [s \in Time |-> [t \in Tables |-> None]]
  /\ tar = [s \in Time |-> None]
  /\ inode = [p \in Procs |-> None]
  /\ bytes = [s \in Time |-> [p \in Procs |-> None]]
  /\ bucket = [s \in Time |-> None]
  /\ key = None

GoTo(p, step) == pc' = [pc EXCEPT ![p] = step]
Die(p) == GoTo(p, "rest")

\* Mutant: one name for all archives, as in acceptance mode.
TarNameFixed(p) == 0

\* The second in the names of p's round.
TarName(p) == start[p]
Dir(p)     == start[p]

\* What a write leaves in a file that may not be empty any more: the longer contents win.
Written(old, new) == IF old = Empty THEN {new} ELSE {new, Torn}

-----------------------------------------------------------------------------
\* Mutant: the start time in nanoseconds.
StartNano(p) ==
  /\ pc[p] = "rest"
  /\ start[p] # None => start[p] < now
  /\ start' = [start EXCEPT ![p] = now * 1000]
  /\ GoTo(p, "list")
  /\ UNCHANGED <<now, table, data, inode, disk_vars, bucket, key>>

\* Rounds of one process start in different seconds.
Start(p) ==
  /\ pc[p] = "rest"
  /\ start[p] # None => start[p] < now
  /\ now \notin Shared => \A q \in Procs : start[q] # now
  /\ start' = [start EXCEPT ![p] = now]
  /\ GoTo(p, "list")
  /\ UNCHANGED <<now, table, data, inode, disk_vars, bucket, key>>

\* The three list calls.
List(p) ==
  /\ pc[p] = "list"
  /\ data' = [data EXCEPT ![p] = now]
  /\ GoTo(p, "mkdir")
  /\ UNCHANGED <<now, table, start, inode, disk_vars, bucket, key>>

MkDir(p) ==
  /\ pc[p] = "mkdir"
  /\ dirs' = dirs \cup {Dir(p)}
  /\ table' = [table EXCEPT ![p] = "kv"]
  /\ GoTo(p, "open")
  /\ UNCHANGED <<now, start, data, inode, file, tar, bytes, bucket, key>>

\* writeFileLocal opens with O_CREATE and O_TRUNC,
Open(p) ==
  /\ pc[p] = "open"
  /\ IF Dir(p) \in dirs
       THEN file' = [file EXCEPT ![Dir(p)][table[p]] = Empty] /\ GoTo(p, "write")
       ELSE UNCHANGED file /\ Die(p)
  /\ UNCHANGED <<now, table, start, data, inode, dirs, tar, bytes, bucket, key>>

AfterTable == [kv |-> "pq", pq |-> "acl"]

\* and writes, though the name may be gone.
Write(p) ==
  /\ pc[p] = "write"
  /\ LET old == file[Dir(p)][table[p]]
     IN  \E new \in IF old = None THEN {None} ELSE Written(old, data[p]) :
           file' = [file EXCEPT ![Dir(p)][table[p]] = new]
  /\ GoTo(p, "sum")
  /\ UNCHANGED <<now, table, start, data, inode, dirs, tar, bytes, bucket, key>>

\* calcSha256 opens the file by its name again.
Sum(p) ==
  /\ pc[p] = "sum"
  /\ \/ file[Dir(p)][table[p]] = None /\ Die(p) /\ UNCHANGED table
     \/ /\ file[Dir(p)][table[p]] # None
        /\ IF table[p] = "acl" THEN GoTo(p, "remove") /\ UNCHANGED table
           ELSE GoTo(p, "open") /\ table' = [table EXCEPT ![p] = AfterTable[@]]
  /\ UNCHANGED <<now, start, data, inode, disk_vars, bucket, key>>

\* compressStagedBackup removes an archive of the same name,
Remove(p) ==
  /\ pc[p] = "remove"
  /\ tar' = [tar EXCEPT ![TarName(p)] = None]
  /\ GoTo(p, "create")
  /\ UNCHANGED <<now, table, start, data, inode, dirs, file, bytes, bucket, key>>

\* creates it, or truncates one that is there again,
Create(p) ==
  /\ pc[p] = "create"
  /\ LET i == IF tar[TarName(p)] = None THEN p ELSE tar[TarName(p)]
     IN  /\ tar'   = [tar   EXCEPT ![TarName(p)] = i]
         /\ inode' = [inode EXCEPT ![p] = i]
         /\ bytes' = [bytes EXCEPT ![start[p]][i] = Empty]
  /\ GoTo(p, "archive")
  /\ UNCHANGED <<now, table, start, data, dirs, file, bucket, key>>

\* and writes what is in the staging directory.
Archive(p) ==
  /\ pc[p] = "archive"
  /\ IF Dir(p) \in dirs
       THEN /\ \E new \in Written(bytes[start[p]][inode[p]], file[Dir(p)]) :
                 bytes' = [bytes EXCEPT ![start[p]][inode[p]] = new]
            /\ GoTo(p, "upload")
       ELSE UNCHANGED bytes /\ Die(p)
  /\ UNCHANGED <<now, table, start, data, inode, dirs, file, tar, bucket, key>>

\* Mutant: the error of ReadFile is logged.
UploadLogged(p) ==
  /\ pc[p] = "upload"
  /\ IF tar[TarName(p)] # None
       THEN bucket' = [bucket EXCEPT ![start[p]] = bytes[start[p]][tar[TarName(p)]]]
       ELSE UNCHANGED bucket
  /\ GoTo(p, "ack")
  /\ UNCHANGED <<now, table, start, data, inode, disk_vars, key>>

\* writeBackupRemote reads the archive back by its name.
Upload(p) ==
  /\ pc[p] = "upload"
  /\ IF tar[TarName(p)] # None
       THEN bucket' = [bucket EXCEPT ![start[p]] = bytes[start[p]][tar[TarName(p)]]] /\ GoTo(p, "ack")
       ELSE UNCHANGED bucket /\ Die(p)
  /\ UNCHANGED <<now, table, start, data, inode, disk_vars, key>>

Ack(p) ==
  /\ pc[p] = "ack"
  /\ key' = start[p]
  /\ GoTo(p, "rmtar")
  /\ UNCHANGED <<now, table, start, data, inode, disk_vars, bucket>>

RemoveTar(p) ==
  /\ pc[p] = "rmtar"
  /\ tar' = [tar EXCEPT ![TarName(p)] = None]
  /\ GoTo(p, "rmdir")
  /\ UNCHANGED <<now, table, start, data, inode, dirs, file, bytes, bucket, key>>

\* os.RemoveAll removes the files one by one, then the directory.
RemoveDir(p) ==
  /\ pc[p] = "rmdir"
  /\ \/ \E t \in Tables : /\ file[Dir(p)][t] # None
                          /\ file' = [file EXCEPT ![Dir(p)][t] = None]
                          /\ UNCHANGED <<pc, dirs>>
     \/ /\ \A t \in Tables : file[Dir(p)][t] = None
        /\ dirs' = dirs \ {Dir(p)} /\ GoTo(p, "rest") /\ UNCHANGED file
  /\ UNCHANGED <<now, table, start, data, inode, tar, bytes, bucket, key>>

Kill(p) ==
  /\ pc[p] # "rest" /\ Die(p)
  /\ UNCHANGED <<now, table, start, data, inode, disk_vars, bucket, key>>

Tick ==
  /\ now < MaxTime /\ now' = now + 1
  /\ UNCHANGED <<pc, table, start, data, inode, disk_vars, bucket, key>>

Round(p) ==
  \/ Start(p) \/ List(p) \/ MkDir(p) \/ Open(p) \/ Write(p) \/ Sum(p) \/ Remove(p) \/ Create(p)
  \/ Archive(p) \/ Upload(p) \/ Ack(p) \/ RemoveTar(p) \/ RemoveDir(p)

Next == Tick \/ \E p \in Procs : Round(p) \/ Kill(p)

Spec == Init /\ [][Next]_vars
-----------------------------------------------------------------------------
\* The key names an object that is there, even if both processes removed each other's files.
AckedStored == key # None => bucket[key] # None

\* The backup that the key names can be restored in full, unless another round started in its
\* second: rounds of different seconds do not touch each other's files.
AckedWhole == key # None /\ key \notin Shared => bucket[key] \in [Tables -> Time]
=============================================================================
