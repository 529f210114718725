------------------------- MODULE ConfigurationProofs -------------------------
(***************************************************************************)
(* Proofs about Configuration, for any names, intervals and bounds.        *)
(***************************************************************************)
EXTENDS Configuration, TLAPS

-----------------------------------------------------------------------------
(* What a Duration keeps.                                                  *)

\* The remainder is less than the modulus, and a smaller number is its own.
LEMMA Remainder ==
  ASSUME NEW n \in Int, NEW m \in Nat \ {0}
  PROVE  n % m \in 0..(m - 1) /\ (n \in 0..(m - 1) => n % m = n)
  BY SMT

\* Wrap gives a Duration, and leaves one as it is.
LEMMA WrapDuration ==
  ASSUME NEW n \in Int
  PROVE  Wrap(n) \in Durations /\ (n \in Durations => Wrap(n) = n)
<1> DEFINE m == 2 * (MaxDuration + 1)
           r == (n + MaxDuration + 1) % m
<1>1. MaxDuration \in Nat /\ m \in Nat \ {0} /\ n + MaxDuration + 1 \in Int
  BY ConfigurationAssumption
<1>2. /\ r \in 0..(m - 1)
      /\ n + MaxDuration + 1 \in 0..(m - 1) => r = n + MaxDuration + 1
  <2> HIDE DEF m
  <2> QED
    BY <1>1, Remainder
<1>3. Wrap(n) = r - MaxDuration - 1
  BY DEF Wrap
<1> HIDE DEF r
<1> QED
  BY <1>1, <1>2, <1>3 DEF Durations

-----------------------------------------------------------------------------
\* The interval that was asked for, in units of a Duration, is a number.
LEMMA RequestedInt ==
  ASSUME TypeOK, env.interval # NoNumber
  PROVE  Requested * Second \in Int
<1>1. env.interval \in Seconds \cup {Unset, NoNumber}
  BY DEF TypeOK, Environments
<1>2. Requested \in Int
  <2>1. Default \in Int /\ Seconds \subseteq Int
    BY ConfigurationAssumption
  <2>2. Requested = Default \/ (env.interval # Unset /\ Requested = env.interval)
    BY DEF Requested
  <2> QED
    BY <1>1, <2>1, <2>2
<1>3. Second \in Int
  BY ConfigurationAssumption
<1> QED
  BY <1>2, <1>3

\* BackupInterval is what a Duration keeps of it.
LEMMA IntervalWraps == BackupInterval = Wrap(Requested * Second)
  BY DEF BackupInterval, Requested

-----------------------------------------------------------------------------
(* The invariant: a program that runs has an environment that ParseConfig  *)
(* accepted, and the last backup that was reported was made with one.      *)

\* A bucket and its region are configured, or it is acceptance mode.
AcceptedIn(e) == e.acceptance \/ e.bucket["gcs"] > 0 \/ (e.bucket["s3"] > 0 /\ e.region)

\* The buckets that a round with environment e writes.
Written(e) == {<<s, e.bucket[s]>> : s \in {t \in Stores : e.bucket[t] > 1}}

Running ==
  /\ step \notin {"off", "config"} => AcceptedIn(env) /\ env.interval # NoNumber
  /\ step = "tick" => ticker = BackupInterval /\ ticker > 0

Reporting ==
  made # Unset => ~made.acceptance /\ AcceptedIn(made) /\ held = Written(made)

ConfigurationInv == TypeOK /\ Running /\ Reporting

\* In the initial states nothing runs and nothing was reported.
LEMMA InitConfiguration == Init => ConfigurationInv
  BY ConfigurationAssumption
     DEF Init, ConfigurationInv, TypeOK, Running, Reporting, CommandLines, Steps

\* What a round writes.
LEMMA RoundWrites ==
  ASSUME TypeOK
  PROVE  Uploads \subseteq Stores /\ {<<s, env.bucket[s]>> : s \in Uploads} = Written(env)
                                  /\ Written(env) \subseteq Stores \X Names
<1>1. env.bucket \in [Stores -> Names]
  BY DEF TypeOK, Environments
<1> QED
  BY <1>1 DEF Uploads, Written

\* Every step keeps the invariant.
LEMMA NextConfiguration == ConfigurationInv /\ [Next]_vars => ConfigurationInv'
<1> SUFFICES ASSUME ConfigurationInv, [Next]_vars PROVE ConfigurationInv'
  OBVIOUS
<1> USE DEF ConfigurationInv
<1>1. Fault \/ NoFault => faults' \in 0..MaxFaults
  BY ConfigurationAssumption DEF Fault, NoFault, TypeOK
<1>2. CASE SetEnvironment
  BY <1>2 DEF SetEnvironment, TypeOK, Running, Reporting
<1>3. ASSUME NEW l \in CommandLines, Launch(l)
      PROVE  ConfigurationInv'
  <2>1. step' \in {"off", "config"} /\ UNCHANGED <<env, held, made, faults>>
    BY <1>3 DEF Launch, Exit
  <2>2. TypeOK'
    BY <1>3, <2>1 DEF Launch, Exit, TypeOK, Steps
  <2> QED
    BY <2>1, <2>2 DEF Running, Reporting
<1>4. CASE ParseConfig
  <2>1. step' \in {"off", "client"} /\ UNCHANGED <<env, held, made, faults>>
    BY <1>4 DEF ParseConfig, Exit
  <2>2. TypeOK'
    BY <1>4, <2>1 DEF ParseConfig, Exit, TypeOK, Steps
  <2>3. Running'
    BY <1>4, <2>1 DEF ParseConfig, Exit, Running, Accepted, AcceptedIn
  <2> QED
    BY <2>1, <2>2, <2>3 DEF Reporting
<1>5. CASE NewClient
  <2>1. /\ step' \in {"off", "restore", "once", "arm"} /\ UNCHANGED <<env, held, made>>
        /\ step = "client"
    BY <1>5 DEF NewClient, Exit
  <2>2. TypeOK'
    BY <1>1, <1>5, <2>1 DEF NewClient, Exit, TypeOK, Steps
  <2> QED
    BY <2>1, <2>2 DEF Running, Reporting
<1>6. CASE Arm
  <2>1. step' \in {"off", "tick"} /\ UNCHANGED <<env, held, made, faults>> /\ step = "arm"
    BY <1>6 DEF Arm, Exit
  <2>2. BackupInterval \in Durations /\ UNCHANGED BackupInterval
    BY <2>1, RequestedInt, IntervalWraps, WrapDuration DEF Running, BackupInterval
  <2>3. BackupInterval > 0 => BackupInterval \in 1..MaxDuration
    BY <2>2, ConfigurationAssumption DEF Durations
  <2>4. TypeOK'
    BY <1>6, <2>1, <2>3 DEF Arm, Exit, TypeOK, Steps
  <2>5. Running'
    BY <1>6, <2>1, <2>2 DEF Arm, Exit, Running
  <2> QED
    BY <2>1, <2>4, <2>5 DEF Reporting
<1>7. CASE Round
  <2>1. /\ step' \in {step, "off"} /\ step \in {"once", "tick"} /\ UNCHANGED <<env, line>>
        /\ step' = step => UNCHANGED ticker
        /\ faults' \in 0..MaxFaults
    BY <1>1, <1>7 DEF Round, Exit
  <2>2. UNCHANGED BackupInterval
    BY <2>1 DEF BackupInterval
  <2>3. \/ UNCHANGED <<held, made>>
        \/ ~env.acceptance /\ held' = Written(env) /\ made' = env
    BY <1>7, RoundWrites DEF Round
  <2>4. TypeOK'
    BY <1>7, <2>1, <2>3, RoundWrites DEF Round, Exit, TypeOK, Steps
  <2>5. Running'
    BY <2>1, <2>2 DEF Running
  <2>6. Reporting'
    BY <2>1, <2>3 DEF Reporting, Running, Written, AcceptedIn
  <2> QED
    BY <2>4, <2>5, <2>6
<1>8. CASE Restore \/ Stop
  <2>1. step' = "off" /\ UNCHANGED <<env, line, held, made>> /\ faults' \in 0..MaxFaults
    BY <1>1, <1>8 DEF Restore, Stop, Exit, TypeOK
  <2>2. TypeOK'
    BY <1>8, <2>1 DEF Restore, Stop, Exit, TypeOK, Steps
  <2> QED
    BY <2>1, <2>2 DEF Running, Reporting
<1>9. CASE UNCHANGED vars
  BY <1>9 DEF vars, TypeOK, Running, Reporting, BackupInterval
<1> QED
  BY <1>2, <1>3, <1>4, <1>5, <1>6, <1>7, <1>8, <1>9 DEF Next

\* The state of the program and its environment is well typed.
THEOREM TypeCorrect == Spec => []TypeOK
<1>1. ConfigurationInv => TypeOK
  BY DEF ConfigurationInv
<1> QED
  BY <1>1, InitConfiguration, NextConfiguration, PTL DEF Spec

-----------------------------------------------------------------------------
\* A daemon ticks at the interval that was asked for.
LEMMA IntervalAsked == ConfigurationInv => TicksAsAsked
<1> SUFFICES ASSUME ConfigurationInv, step = "tick", Requested * Second \in Durations
             PROVE  ticker = Requested * Second /\ ticker > 0
  BY DEF TicksAsAsked
<1>1. ticker = Wrap(Requested * Second) /\ ticker > 0 /\ env.interval # NoNumber
  BY IntervalWraps DEF ConfigurationInv, Running
<1>2. Requested * Second \in Int
  BY <1>1, RequestedInt DEF ConfigurationInv
<1> QED
  BY <1>1, <1>2, WrapDuration

\* The conversion to a Duration loses nothing of an interval that one can hold, and the
\* daemon does not run with one that is not positive.
THEOREM DaemonTicksAsAsked == Spec => []TicksAsAsked
  BY IntervalAsked, InitConfiguration, NextConfiguration, PTL DEF Spec

-----------------------------------------------------------------------------
\* Where no name has one character, a backup of an accepted environment is written.
LEMMA AcceptedWrites ==
  ASSUME 1 \notin Names, NEW e \in Environments, AcceptedIn(e), ~e.acceptance
  PROVE  /\ Written(e) # {}
         /\ <<IF e.bucket["gcs"] < 1 THEN "s3" ELSE "gcs",
              e.bucket[IF e.bucket["gcs"] < 1 THEN "s3" ELSE "gcs"]>> \in Written(e)
         /\ \A s \in Stores : e.bucket[s] > 0 => <<s, e.bucket[s]>> \in Written(e)
<1>1. \A s \in Stores : e.bucket[s] \in Nat /\ e.bucket[s] # 1
  BY ConfigurationAssumption DEF Environments
<1>2. \A s \in Stores : e.bucket[s] > 0 => <<s, e.bucket[s]>> \in Written(e)
  BY <1>1 DEF Written
<1>3. "s3" \in Stores /\ "gcs" \in Stores
  BY DEF Stores
<1>4. e.bucket["gcs"] < 1 => e.bucket["s3"] > 0
  BY <1>1, <1>3 DEF AcceptedIn
<1>5. ~(e.bucket["gcs"] < 1) => e.bucket["gcs"] > 0
  BY <1>1, <1>3
<1> QED
  BY <1>2, <1>3, <1>4, <1>5

\* If no bucket has a name of one character, a backup that was reported is in a bucket.
THEOREM ReportedBackupIsHeld ==
  ASSUME 1 \notin Names
  PROVE  Spec => []ReportedIsHeld
<1>1. ConfigurationInv => ReportedIsHeld
  BY AcceptedWrites DEF ConfigurationInv, ReportedIsHeld, Reporting, TypeOK
<1> QED
  BY <1>1, InitConfiguration, NextConfiguration, PTL DEF Spec

\* Then a restore with the environment of the backup finds it, unless something fails.
THEOREM RestoreFindsBackup ==
  ASSUME 1 \notin Names
  PROVE  Spec => RestoreFinds
<1>1. ASSUME ConfigurationInv, [Next]_vars
      PROVE  [step = "restore" /\ env = made /\ exit' = 1 => faults' # faults]_vars
  <2> SUFFICES ASSUME Next, step = "restore", env = made, exit' = 1, faults' = faults
               PROVE  FALSE
    BY <1>1
  <2>1. Restore
    BY DEF Next, SetEnvironment, Launch, ParseConfig, NewClient, Arm, Round, Stop
  <2>2. made # Unset /\ made \in Environments
    BY <1>1, UnsetAssumption DEF ConfigurationInv, TypeOK
  <2>3. faults \in Nat
    BY <1>1, ConfigurationAssumption DEF ConfigurationInv, TypeOK
  <2>4. ~env.acceptance /\ <<Download, env.bucket[Download]>> \in held
    BY <1>1, <2>2, AcceptedWrites DEF ConfigurationInv, Reporting, Download
  <2> QED
    BY <2>1, <2>3, <2>4 DEF Restore, Exit, Fault
<1> QED
  BY <1>1, InitConfiguration, NextConfiguration, PTL DEF Spec, RestoreFinds

\* And backup -once that exits with 0 has delivered to every bucket that is configured.
THEOREM OnceIsHonest ==
  ASSUME 1 \notin Names
  PROVE  Spec => OnceHonest
<1>1. ASSUME ConfigurationInv, [Next]_vars
      PROVE  [step = "once" /\ exit' = 0 /\ ~env.acceptance =>
                \A s \in Stores : env.bucket[s] > 0 => <<s, env.bucket[s]>> \in held']_vars
  <2> SUFFICES ASSUME Next, step = "once", exit' = 0, ~env.acceptance
               PROVE  \A s \in Stores : env.bucket[s] > 0 => <<s, env.bucket[s]>> \in held'
    BY <1>1
  <2>1. Round
    BY DEF Next, SetEnvironment, Launch, ParseConfig, NewClient, Arm, Restore, Stop
  <2>2. held' = Written(env)
    BY <1>1, <2>1, RoundWrites DEF Round, Exit, ConfigurationInv
  <2>3. env \in Environments /\ AcceptedIn(env)
    BY <1>1 DEF ConfigurationInv, TypeOK, Running
  <2> QED
    BY <2>2, <2>3, AcceptedWrites
<1> QED
  BY <1>1, InitConfiguration, NextConfiguration, PTL DEF Spec, OnceHonest
=============================================================================
