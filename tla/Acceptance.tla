----------------------------- MODULE Acceptance -----------------------------
(***************************************************************************)
(* The runners in acceptance mode: the names in TmpDir are fixed, nothing  *)
(* is uploaded, the key is not written and nothing is removed.  A restore  *)
(* unpacks acceptancetest.tar.gz over the staging directory that it was    *)
(* made of, where the files of earlier backups, and of interrupted ones,   *)
(* still are; meta.json says which of them to load.                        *)
(*                                                                         *)
(* One file stands for the three tables: only its keys are restored.       *)
(***************************************************************************)
EXTENDS Naturals

CONSTANTS
  Keys, Vals,
  OneAtATime,   \* a backup and a restore do not overlap, as in the acceptance test
  None,         \* no such key or file, or a table that was never listed
  Torn,         \* an archive whose writing has begun
  MaxTime,      \* bound on the clock
  MaxFaults     \* bound on the faults of a behaviour

Time == 0..MaxTime
Pairs == [Keys -> Vals \cup {None}]

\* json null, for a table that was never listed, restores nothing.
Null == [k \in Keys |-> None]

\* The staging directory: consul.kv.<second>.json for some seconds, and meta.json, which
\* holds a second.
Directories == [file : [Time -> Pairs \cup {None}], meta : Time \cup {None}]

ASSUME AcceptanceAssumption ==
  /\ OneAtATime \in BOOLEAN /\ MaxTime \in Nat /\ MaxFaults \in Nat
  /\ None \notin Vals \cup Pairs \cup Nat \cup Directories \cup {Torn}
  /\ Torn \notin Directories

VARIABLES
  now, faults,
  kv,       \* the keys in consul
  dir,      \* the staging directory
  tar,      \* acceptancetest.tar.gz: what was in the directory, Torn, or None
  bstep,    \* the next step of the backup
  start,    \* its start time
  client,   \* what its consul client holds
  last,     \* what the last backup that came to its end had listed
  rstep,    \* the next step of the restore
  todo,     \* the pairs still to put
  missed    \* the keys whose put returned an error

backup_vars  == <<bstep, start, client, last>>
restore_vars == <<rstep, todo, missed>>
vars == <<now, faults, kv, dir, tar, backup_vars, restore_vars>>

TypeOK ==
  /\ now \in Time /\ faults \in 0..MaxFaults
  /\ kv \in Pairs
  /\ dir \in Directories
  /\ tar \in Directories \cup {None, Torn}
  /\ bstep \in {"rest", "list", "file", "meta", "create", "fill", "ok"}
  /\ start \in Time
  /\ client \in Pairs
  /\ last \in Pairs \cup {None}
  /\ rstep \in {"rest", "check", "extract", "load", "put"}
  /\ todo \in Pairs
  /\ missed \in SUBSET Keys

Init ==
  /\ now = 0 /\ faults = 0
  /\ kv \in [Keys -> Vals]
  /\ dir = [file |-> [s \in Time |-> None], meta |-> None]
  /\ tar = None
  /\ bstep = "rest" /\ start = 0 /\ client = Null /\ last = None
  /\ rstep = "rest" /\ todo = Null /\ missed = {}

Fault   == faults < MaxFaults /\ faults' = faults + 1
NoFault == UNCHANGED faults

BackingUp == bstep \notin {"rest", "ok"}
Restoring == rstep # "rest"

-----------------------------------------------------------------------------
\* Mutant: the start time in nanoseconds.
StartBackupNano ==
  /\ ~BackingUp
  /\ OneAtATime => ~Restoring
  /\ bstep' = "list"
  /\ start' = now * 1000
  /\ client' \in IF bstep = "ok" THEN {client, Null} ELSE {Null}
  /\ UNCHANGED <<now, faults, kv, dir, tar, last, restore_vars>>

\* A round of a daemon goes on with the client of the round before; a process that has just
\* been started has one that holds nothing.
StartBackup ==
  /\ ~BackingUp
  /\ OneAtATime => ~Restoring
  /\ bstep' = "list"
  /\ start' = now
  /\ client' \in IF bstep = "ok" THEN {client, Null} ELSE {Null}
  /\ UNCHANGED <<now, faults, kv, dir, tar, last, restore_vars>>

\* The error of the list call is dropped.
List ==
  /\ bstep = "list"
  /\ bstep' = "file"
  /\ \/ client' = kv /\ NoFault
     \/ UNCHANGED client /\ Fault
  /\ UNCHANGED <<now, kv, dir, tar, start, last, restore_vars>>

WriteFile ==
  /\ bstep = "file"
  /\ dir' = [dir EXCEPT !.file[start] = client]
  /\ bstep' = "meta"
  /\ UNCHANGED <<now, faults, kv, tar, start, client, last, restore_vars>>

WriteMeta ==
  /\ bstep = "meta"
  /\ dir' = [dir EXCEPT !.meta = start]
  /\ bstep' = "create"
  /\ UNCHANGED <<now, faults, kv, tar, start, client, last, restore_vars>>

\* Removes the archive of the run before, then creates it anew.
CreateArchive ==
  /\ bstep = "create"
  /\ \/ tar' = Torn /\ bstep' = "fill" /\ NoFault
     \/ tar' = None /\ bstep' = "rest" /\ Fault
  /\ UNCHANGED <<now, kv, dir, start, client, last, restore_vars>>

\* Archives all that is in the directory.  Remote backup and post processing are skipped.
FillArchive ==
  /\ bstep = "fill"
  /\ tar' = dir
  /\ bstep' = "ok" /\ last' = client
  /\ UNCHANGED <<now, faults, kv, dir, start, client, restore_vars>>

\* Killed, or log.Fatal: what is in TmpDir stays.
EndBackup ==
  /\ BackingUp /\ bstep' = "rest" /\ Fault
  /\ UNCHANGED <<now, kv, dir, tar, start, client, last, restore_vars>>

-----------------------------------------------------------------------------
StartRestore ==
  /\ ~Restoring
  /\ OneAtATime => ~BackingUp
  /\ rstep' = "check"
  /\ UNCHANGED <<now, faults, kv, dir, tar, backup_vars, todo, missed>>

RestoreEnds == rstep' = "rest" /\ todo' = Null /\ missed' = {}

\* CheckEncryption opens the file, which must be there.
Check ==
  /\ rstep = "check"
  /\ IF tar = None THEN RestoreEnds ELSE rstep' = "extract" /\ UNCHANGED <<todo, missed>>
  /\ UNCHANGED <<now, faults, kv, dir, tar, backup_vars>>

\* Mutant: files that are already there are not unpacked.
UnpackMissing(d) ==
  [file |-> [s \in Time |-> IF dir.file[s] = None THEN d.file[s] ELSE dir.file[s]],
   meta |-> IF dir.meta = None THEN d.meta ELSE dir.meta]

\* The files of the archive replace those of the same name in the directory.
Unpack(d) ==
  [file |-> [s \in Time |-> IF d.file[s] # None THEN d.file[s] ELSE dir.file[s]],
   meta |-> IF d.meta # None THEN d.meta ELSE dir.meta]

Extract ==
  /\ rstep = "extract"
  /\ IF tar \in Directories
       THEN rstep' = "load" /\ dir' = Unpack(tar) /\ UNCHANGED <<todo, missed>>
       ELSE RestoreEnds /\ UNCHANGED dir
  /\ UNCHANGED <<now, faults, kv, tar, backup_vars>>

\* inspectBackup and loadKVData: the file that meta.json names.
Load ==
  /\ rstep = "load"
  /\ IF dir.meta # None /\ dir.file[dir.meta] # None
       THEN rstep' = "put" /\ todo' = dir.file[dir.meta] /\ UNCHANGED missed
       ELSE RestoreEnds
  /\ UNCHANGED <<now, faults, kv, dir, tar, backup_vars>>

Put(k) ==
  /\ rstep = "put" /\ todo[k] # None
  /\ todo' = [todo EXCEPT ![k] = None]
  /\ LET put == kv' = [kv EXCEPT ![k] = todo[k]]
     IN  \/ put /\ NoFault /\ UNCHANGED missed
         \/ (put \/ UNCHANGED kv) /\ Fault /\ missed' = missed \cup {k}
  /\ UNCHANGED <<now, dir, tar, backup_vars, rstep>>

Finish ==
  /\ rstep = "put" /\ todo = Null
  /\ RestoreEnds
  /\ UNCHANGED <<now, faults, kv, dir, tar, backup_vars>>

\* Killed: a restore that is killed while it unpacks leaves some files of the archive.
KillRestore ==
  /\ Restoring /\ RestoreEnds /\ Fault
  /\ \/ UNCHANGED dir
     \/ /\ rstep = "extract" /\ tar \in Directories
        /\ \E some \in SUBSET Time :
             dir' = [dir EXCEPT !.file = [s \in Time |->
                       IF s \in some THEN Unpack(tar).file[s] ELSE @[s]]]
  /\ UNCHANGED <<now, kv, tar, backup_vars>>

-----------------------------------------------------------------------------
\* The test deletes all keys between its backup and its restore; users write them.
UserPut(k, v) ==
  /\ ~Restoring
  /\ kv' = [kv EXCEPT ![k] = v]
  /\ UNCHANGED <<now, faults, dir, tar, backup_vars, restore_vars>>

Tick ==
  /\ now < MaxTime /\ now' = now + 1
  /\ UNCHANGED <<faults, kv, dir, tar, backup_vars, restore_vars>>

Next ==
  \/ Tick
  \/ \E k \in Keys, v \in Vals \cup {None} : UserPut(k, v)
  \/ StartBackup \/ List \/ WriteFile \/ WriteMeta \/ CreateArchive \/ FillArchive
  \/ EndBackup
  \/ StartRestore \/ Check \/ Extract \/ Load
  \/ \E k \in Keys : Put(k)
  \/ Finish \/ KillRestore

Spec == Init /\ [][Next]_vars
-----------------------------------------------------------------------------
\* The acceptance test: after a backup and a restore every key is what it was.  The backup
\* is the last one that came to its end, whatever runs were interrupted before or after it
\* and whatever files they left; keys whose put failed are excepted.
RoundTrip ==
  rstep = "put" /\ todo = Null =>
    \A k \in Keys \ missed : last[k] # None => kv[k] = last[k]
=============================================================================
