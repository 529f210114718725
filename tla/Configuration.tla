--------------------------- MODULE Configuration ---------------------------
(***************************************************************************)
(* From the command line and the environment to a daemon, a single backup  *)
(* or a restore: main, the commands, config.ParseConfig, and what the two  *)
(* runners make of the configuration.  One operator runs the program again *)
(* and again and changes the environment in between.                       *)
(*                                                                         *)
(* The conditions on the two bucket names differ from place to place (not  *)
(* empty, longer than one character, S3 only without GCS), and so do the   *)
(* buckets that are accepted, written and read.                            *)
(***************************************************************************)
EXTENDS Integers

CONSTANTS
  Names,        \* names a bucket can have, as numbers whose size is their length; 0 is none
  Seconds,      \* numbers BACKUPINTERVAL can hold
  NoNumber,     \* a value of BACKUPINTERVAL that is none
  Unset,        \* a variable that is not set
  Second,       \* time.Second, in units of time.Duration
  MaxDuration,  \* the largest time.Duration
  Default,      \* the interval when BACKUPINTERVAL is not set, and in acceptance mode: 60
  MaxFaults     \* bound on the faults of a behaviour

ASSUME ConfigurationAssumption ==
  /\ Names \subseteq Nat /\ 0 \in Names
  /\ Seconds \subseteq Int /\ Default \in Nat
  /\ {Second, MaxDuration} \subseteq Nat \ {0}
  /\ Default * Second \in 1..MaxDuration
  /\ MaxFaults \in Nat
  /\ NoNumber \notin Int \cup {Unset} /\ Unset \notin Int

Stores       == {"s3", "gcs"}
Environments == [bucket     : [Stores -> Names],
                 region     : BOOLEAN,      \* S3REGION is set
                 interval   : Seconds \cup {NoNumber, Unset},
                 acceptance : BOOLEAN]

ASSUME UnsetAssumption == Unset \notin Environments

\* A command line: the command, whether it has -once or a flag that is not known, and the
\* number of its other arguments.
CommandLines == [command : {"backup", "restore", "version"}, once : BOOLEAN,
                 bad : BOOLEAN, args : 0..1]

Durations == (-MaxDuration - 1)..MaxDuration

VARIABLES
  env,      \* the environment
  step,     \* what the program is about to do; "off" when it does not run
  line,     \* its command line
  ticker,   \* the interval of its ticker, Unset before there is one
  exit,     \* its last exit status: 2 after a panic, Unset before
  held,     \* the buckets, by store and name, that hold the last backup that was reported
  made,     \* the environment of that backup
  faults

vars == <<env, step, line, ticker, exit, held, made, faults>>

Steps == {"off", "config", "client", "once", "arm", "tick", "restore"}

TypeOK ==
  /\ env \in Environments
  /\ step \in Steps
  /\ line \in CommandLines
  /\ ticker \in 1..MaxDuration \cup {Unset}
  /\ exit \in {0, 1, 2, Unset}
  /\ held \subseteq Stores \X Names
  /\ made \in Environments \cup {Unset}
  /\ faults \in 0..MaxFaults

Init ==
  /\ env \in Environments
  /\ step = "off"
  /\ line = [command |-> "version", once |-> FALSE, bad |-> FALSE, args |-> 0]
  /\ ticker = Unset /\ exit = Unset
  /\ held = {} /\ made = Unset
  /\ faults = 0

Fault   == faults < MaxFaults /\ faults' = faults + 1
NoFault == UNCHANGED faults

Exit(status) == step' = "off" /\ exit' = status /\ ticker' = Unset

-----------------------------------------------------------------------------
SetEnvironment ==
  /\ step = "off"
  /\ env' \in Environments
  /\ UNCHANGED <<step, line, ticker, exit, held, made, faults>>

\* realMain and the Run of the command: a flag that is not known, or a restore without
\* exactly one path, and nothing is done.
Launch(l) ==
  /\ step = "off"
  /\ line' = l
  /\ \/ l.command = "version" /\ Exit(0)
     \/ l.command = "backup"  /\ l.bad /\ Exit(1)
     \/ l.command = "restore" /\ l.args # 1 /\ Exit(1)
     \/ /\ IF l.command = "backup" THEN ~l.bad ELSE l.command = "restore" /\ l.args = 1
        /\ step' = "config" /\ exit' = Unset /\ UNCHANGED ticker
  /\ UNCHANGED <<env, held, made, faults>>

-----------------------------------------------------------------------------
(* config.ParseConfig.                                                     *)

\* What an int64 keeps of a product.
Wrap(n) == ((n + MaxDuration + 1) % (2 * (MaxDuration + 1))) - MaxDuration - 1

\* Mutant: the interval is taken as a Duration.
BackupIntervalNano ==
  IF env.acceptance \/ env.interval = Unset THEN Wrap(Default * Second) ELSE Wrap(env.interval)

\* Config.BackupInterval.
BackupInterval ==
  IF env.acceptance \/ env.interval = Unset THEN Wrap(Default * Second)
  ELSE Wrap(env.interval * Second)

\* Mutant: the region is not asked for, nor the bucket.
AcceptedAny == env.acceptance \/ env.bucket["gcs"] > 0 \/ env.region

\* Outside of acceptance mode a bucket is required, for S3 with its region.
Accepted == \/ env.acceptance
            \/ env.bucket["gcs"] > 0
            \/ env.bucket["s3"] > 0 /\ env.region

ParseConfig ==
  /\ step = "config"
  /\ IF env.interval # NoNumber /\ Accepted
       THEN step' = "client" /\ UNCHANGED <<exit, ticker>>
       ELSE Exit(1)
  /\ UNCHANGED <<env, line, held, made, faults>>

\* consul.Client panics, NewConsulAdapter ends the process with 1.
NewClient ==
  /\ step = "client"
  /\ \/ /\ step' = (IF line.command = "restore" THEN "restore"
                    ELSE IF line.once THEN "once" ELSE "arm")
        /\ UNCHANGED <<exit, ticker>> /\ NoFault
     \/ Exit(IF line.command = "restore" THEN 1 ELSE 2) /\ Fault
  /\ UNCHANGED <<env, line, held, made>>

\* Mutant: time.Tick, which returns nil where time.NewTicker panics.
ArmTick ==
  /\ step = "arm"
  /\ step' = "tick" /\ ticker' = BackupInterval
  /\ UNCHANGED <<env, line, exit, held, made, faults>>

\* time.NewTicker panics on an interval that is not positive.
Arm ==
  /\ step = "arm"
  /\ IF BackupInterval > 0
       THEN step' = "tick" /\ ticker' = BackupInterval /\ UNCHANGED exit
       ELSE Exit(2)
  /\ UNCHANGED <<env, line, held, made, faults>>

-----------------------------------------------------------------------------
(* What the runners make of it.                                            *)

\* Mutant: one bucket only, as in BackupService.UploadBackup.
UploadsOne == IF env.bucket["s3"] > 1 THEN {"s3"}
              ELSE IF env.bucket["gcs"] > 1 THEN {"gcs"} ELSE {}

\* writeBackupRemote: each bucket whose name is longer than one character.
Uploads == {s \in Stores : env.bucket[s] > 1}

\* getRemoteBackup: GCS unless it is not set.
Download == IF env.bucket["gcs"] < 1 THEN "s3" ELSE "gcs"

\* A round ends well and is reported in the key, outside of acceptance mode; or it fails and
\* ends the process.
Round ==
  /\ step \in {"once", "tick"}
  /\ \/ /\ IF env.acceptance THEN UNCHANGED <<held, made>>
           ELSE /\ held' = {<<s, env.bucket[s]>> : s \in Uploads}
                /\ made' = env
        /\ IF step = "once" THEN Exit(0) ELSE UNCHANGED <<step, exit, ticker>>
        /\ NoFault
     \/ Exit(1) /\ Fault /\ UNCHANGED <<held, made>>
  /\ UNCHANGED <<env, line>>

\* A restore of the last backup that was reported.  In acceptance mode the file is local.
Restore ==
  /\ step = "restore"
  /\ \/ env.acceptance /\ (Exit(0) \/ Exit(1)) /\ NoFault
     \/ /\ ~env.acceptance
        /\ Exit(IF <<Download, env.bucket[Download]>> \in held THEN 0 ELSE 1) /\ NoFault
     \/ Exit(1) /\ Fault
  /\ UNCHANGED <<env, line, held, made>>

\* The daemon is stopped.
Stop ==
  /\ step = "tick"
  /\ Exit(1)
  /\ UNCHANGED <<env, line, held, made, faults>>

Next ==
  \/ SetEnvironment \/ \E l \in CommandLines : Launch(l)
  \/ ParseConfig \/ NewClient \/ Arm \/ Round \/ Restore \/ Stop

Spec == Init /\ [][Next]_vars
-----------------------------------------------------------------------------
(* What the operator relies on.                                            *)

\* A backup that was reported is in a bucket: S3BUCKET and GCSBUCKET are "where backups
\* should be delivered" (README), and ParseConfig lets no run start without them.
ReportedIsHeld == made # Unset => held # {}

\* What a configuration backed up, the same configuration restores, unless something fails.
RestoreFinds ==
  [][step = "restore" /\ env = made /\ exit' = 1 => faults' # faults]_vars

\* A daemon that runs ticks at the interval that was asked for, for any interval that a
\* Duration can hold; one of zero or less does not run.
Requested == IF env.acceptance \/ env.interval = Unset THEN Default ELSE env.interval

TicksAsAsked ==
  step = "tick" /\ Requested * Second \in Durations => ticker = Requested * Second /\ ticker > 0

\* backup -once exits with 0 only if its backup is in every bucket that is configured.
OnceHonest ==
  [][step = "once" /\ exit' = 0 /\ ~env.acceptance =>
       \A s \in Stores : env.bucket[s] > 0 => <<s, env.bucket[s]>> \in held']_vars
=============================================================================
