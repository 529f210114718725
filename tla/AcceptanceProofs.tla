-------------------------- MODULE AcceptanceProofs --------------------------
(***************************************************************************)
(* Proofs about Acceptance, for any keys, values and bounds.               *)
(***************************************************************************)
EXTENDS Acceptance, TLAPS

-----------------------------------------------------------------------------
(* Type correctness.                                                       *)

\* The null table, zero and None are of the types they are used at.
LEMMA SmallTypes ==
  /\ 0 \in Time /\ Time \subseteq Nat /\ None \notin Time
  /\ Null \in Pairs /\ None \notin Pairs
  /\ None \notin Directories /\ Torn \notin Directories
  BY AcceptanceAssumption DEF Time, Null, Pairs

\* The initial states have their types.
LEMMA InitTypeOK == Init => TypeOK
  BY SmallTypes, AcceptanceAssumption DEF Init, TypeOK, Pairs, Directories

\* The budget stays within its bound.
LEMMA FaultType ==
  ASSUME TypeOK, Fault \/ NoFault
  PROVE  faults' \in 0..MaxFaults
  BY AcceptanceAssumption DEF TypeOK, Fault, NoFault

\* What an archive is unpacked to is a directory.
LEMMA UnpackType ==
  ASSUME TypeOK, NEW d \in Directories
  PROVE  Unpack(d) \in Directories
  BY DEF TypeOK, Directories, Unpack

\* The end of a restore leaves its state well typed.
LEMMA RestoreEndsType ==
  ASSUME TypeOK, RestoreEnds
  PROVE  rstep' = "rest" /\ todo' \in Pairs /\ missed' \in SUBSET Keys
  BY SmallTypes DEF RestoreEnds

\* A step of a backup keeps the types.
LEMMA BackupTypeOK ==
  ASSUME TypeOK,
         \/ StartBackup \/ List \/ WriteFile \/ WriteMeta \/ CreateArchive \/ FillArchive
         \/ EndBackup
  PROVE  TypeOK'
<1> USE DEF TypeOK, restore_vars
<1>1. CASE StartBackup
  BY <1>1, SmallTypes DEF StartBackup
<1>2. CASE List
  BY <1>2, FaultType DEF List
<1>3. CASE WriteFile
  <2>1. dir' \in Directories
    BY <1>3 DEF WriteFile, Directories
  <2> QED
    BY <1>3, <2>1 DEF WriteFile
<1>4. CASE WriteMeta
  <2>1. dir' \in Directories
    BY <1>4 DEF WriteMeta, Directories
  <2> QED
    BY <1>4, <2>1 DEF WriteMeta
<1>5. CASE CreateArchive
  BY <1>5, FaultType DEF CreateArchive
<1>6. CASE FillArchive
  BY <1>6 DEF FillArchive
<1>7. CASE EndBackup
  BY <1>7, FaultType DEF EndBackup
<1> QED
  BY <1>1, <1>2, <1>3, <1>4, <1>5, <1>6, <1>7

\* A step of a restore keeps the types.
LEMMA RestoreTypeOK ==
  ASSUME TypeOK,
         \/ StartRestore \/ Check \/ Extract \/ Load
         \/ \E k \in Keys : Put(k)
         \/ Finish \/ KillRestore
  PROVE  TypeOK'
<1> USE DEF TypeOK, backup_vars
<1>1. CASE StartRestore
  BY <1>1 DEF StartRestore
<1>2. CASE Check
  BY <1>2, RestoreEndsType DEF Check
<1>3. CASE Extract
  BY <1>3, RestoreEndsType, UnpackType DEF Extract
<1>4. CASE Load
  <2>1. dir.meta # None /\ dir.file[dir.meta] # None => dir.file[dir.meta] \in Pairs
    BY DEF Directories
  <2> QED
    BY <1>4, <2>1, RestoreEndsType DEF Load
<1>5. ASSUME NEW k \in Keys, Put(k)
      PROVE  TypeOK'
  <2>1. kv' \in Pairs /\ todo' \in Pairs
    BY <1>5 DEF Put, Pairs
  <2>2. missed' \in SUBSET Keys
    BY <1>5 DEF Put
  <2>3. faults' \in 0..MaxFaults
    BY <1>5, FaultType DEF Put
  <2> QED
    BY <1>5, <2>1, <2>2, <2>3 DEF Put
<1>6. CASE Finish
  BY <1>6, RestoreEndsType DEF Finish
<1>7. CASE KillRestore
  <2>1. dir' \in Directories
    <3>1. ASSUME tar \in Directories, NEW some \in SUBSET Time,
                 dir' = [dir EXCEPT !.file = [s \in Time |->
                           IF s \in some THEN Unpack(tar).file[s] ELSE @[s]]]
          PROVE  dir' \in Directories
      BY <3>1, UnpackType DEF Directories
    <3> QED
      BY <1>7, <3>1 DEF KillRestore
  <2> QED
    BY <1>7, <2>1, RestoreEndsType, FaultType DEF KillRestore
<1> QED
  BY <1>1, <1>2, <1>3, <1>4, <1>5, <1>6, <1>7

\* Every step keeps the types.
LEMMA NextTypeOK == TypeOK /\ [Next]_vars => TypeOK'
<1> SUFFICES ASSUME TypeOK, [Next]_vars PROVE TypeOK'
  OBVIOUS
<1>1. CASE Tick
  BY <1>1, AcceptanceAssumption DEF Tick, TypeOK, Time, backup_vars, restore_vars
<1>2. ASSUME NEW k \in Keys, NEW v \in Vals \cup {None}, UserPut(k, v)
      PROVE  TypeOK'
  <2>1. kv' \in Pairs
    BY <1>2 DEF UserPut, TypeOK, Pairs
  <2> QED
    BY <1>2, <2>1 DEF UserPut, TypeOK, backup_vars, restore_vars
<1>3. CASE UNCHANGED vars
  BY <1>3 DEF vars, TypeOK, backup_vars, restore_vars
<1> QED
  BY <1>1, <1>2, <1>3, BackupTypeOK, RestoreTypeOK DEF Next

\* The state of the acceptance runs is well typed.
THEOREM TypeCorrect == Spec => []TypeOK
  BY InitTypeOK, NextTypeOK, PTL DEF Spec

-----------------------------------------------------------------------------
(* The round trip.  However many files of earlier runs are in the staging  *)
(* directory, meta.json in a whole archive names the file of the backup    *)
(* that made it; and what is unpacked replaces what is there.              *)

\* The backup has written what the following steps rely on.
Written ==
  /\ bstep \in {"meta", "create", "fill"} => dir.file[start] = client
  /\ bstep \in {"create", "fill"} => dir.meta = start

\* Directory d is that of the last backup: its meta.json names its file.
OfLast(d) == /\ d.meta \in Time
             /\ last \in Pairs
             /\ d.file[d.meta] = last

\* An archive that is whole is that of the last backup.
WholeIsLast == tar \in Directories => OfLast(tar)

\* The restore has unpacked it, or put back a part of it.
Unpacked ==
  /\ rstep = "load" => OfLast(dir)
  /\ rstep = "put" =>
       /\ last \in Pairs
       /\ \A k \in Keys \ missed :
            todo[k] = last[k] \/ (todo[k] = None /\ (last[k] # None => kv[k] = last[k]))

\* A backup and a restore do not overlap.
Alone == ~(BackingUp /\ Restoring)

TripInv == TypeOK /\ Written /\ WholeIsLast /\ Unpacked /\ Alone

\* In the initial states nothing runs and there is no archive.
LEMMA InitTrip == Init => TripInv
  BY InitTypeOK, SmallTypes
     DEF Init, TripInv, Written, WholeIsLast, Unpacked, Alone, BackingUp, Restoring

\* A step of a backup keeps the invariant: no restore runs.
LEMMA BackupTrip ==
  ASSUME OneAtATime, TripInv,
         \/ StartBackup \/ List \/ WriteFile \/ WriteMeta \/ CreateArchive \/ FillArchive
         \/ EndBackup
  PROVE  TripInv'
<1> USE DEF TripInv, restore_vars
<1>1. TypeOK'
  BY BackupTypeOK
<1>2. rstep = "rest" /\ rstep' = "rest"
  BY DEF StartBackup, List, WriteFile, WriteMeta, CreateArchive, FillArchive, EndBackup,
         Alone, BackingUp, Restoring
<1>3. Unpacked' /\ Alone'
  BY <1>2 DEF Unpacked, Alone, Restoring
<1>4. Written'
  <2>1. CASE StartBackup \/ List \/ EndBackup
    BY <2>1 DEF StartBackup, List, EndBackup, Written
  <2>2. CASE WriteFile \/ WriteMeta
    BY <2>2 DEF WriteFile, WriteMeta, Written, TypeOK, Directories
  <2>3. CASE CreateArchive \/ FillArchive
    BY <2>3 DEF CreateArchive, FillArchive, Written
  <2> QED
    BY <2>1, <2>2, <2>3
<1>5. WholeIsLast'
  <2>1. CASE UNCHANGED <<tar, last>>
    BY <2>1 DEF WholeIsLast, OfLast
  <2>2. CASE CreateArchive
    BY <2>2, SmallTypes DEF CreateArchive, WholeIsLast
  <2>3. CASE FillArchive
    <3>1. dir.meta = start /\ dir.file[start] = client /\ start \in Time /\ client \in Pairs
      BY <2>3 DEF FillArchive, Written, TypeOK
    <3> QED
      BY <2>3, <3>1 DEF FillArchive, WholeIsLast, OfLast
  <2> QED
    BY <2>1, <2>2, <2>3 DEF StartBackup, List, WriteFile, WriteMeta, EndBackup
<1> QED
  BY <1>1, <1>3, <1>4, <1>5

\* A step of a restore keeps the invariant: no backup runs.
LEMMA RestoreTrip ==
  ASSUME OneAtATime, TripInv,
         \/ StartRestore \/ Check \/ Extract \/ Load
         \/ \E k \in Keys : Put(k)
         \/ Finish \/ KillRestore
  PROVE  TripInv'
<1> USE DEF TripInv, backup_vars
<1>1. TypeOK'
  BY RestoreTypeOK
<1>2. /\ ~BackingUp /\ ~BackingUp'
      /\ UNCHANGED <<tar, bstep, last>>
  BY DEF StartRestore, Check, Extract, Load, Put, Finish, KillRestore, Alone, BackingUp, Restoring
<1>3. Alone' /\ Written' /\ WholeIsLast'
  BY <1>2 DEF Alone, Written, WholeIsLast, OfLast, BackingUp
<1>4. Unpacked'
  <2>1. CASE StartRestore \/ Check \/ Finish \/ KillRestore
    BY <2>1 DEF StartRestore, Check, Finish, KillRestore, RestoreEnds, Unpacked
  <2>2. CASE Extract
    <3>1. CASE tar \in Directories
      <4>1. OfLast(tar) /\ None \notin Pairs /\ None \notin Time
        BY <3>1, SmallTypes DEF WholeIsLast
      <4>2. OfLast(Unpack(tar))
        BY <4>1 DEF OfLast, Unpack
      <4> QED
        BY <2>2, <3>1, <4>2 DEF Extract, Unpacked, OfLast
    <3>2. CASE tar \notin Directories
      BY <2>2, <3>2 DEF Extract, RestoreEnds, Unpacked
    <3> QED
      BY <3>1, <3>2
  <2>3. CASE Load
    BY <2>3 DEF Load, RestoreEnds, Unpacked, OfLast
  <2>4. ASSUME NEW k \in Keys, Put(k)
        PROVE  Unpacked'
    <3>1. rstep = "put" /\ rstep' = "put" /\ UNCHANGED last
      BY <2>4 DEF Put
    <3>2. /\ todo'[k] = None /\ todo[k] # None
          /\ \A j \in Keys \ {k} : todo'[j] = todo[j] /\ kv'[j] = kv[j]
          /\ k \notin missed' => kv'[k] = todo[k]
          /\ missed \subseteq missed'
      BY <2>4 DEF Put, TypeOK, Pairs
    <3> QED
      BY <3>1, <3>2 DEF Unpacked
  <2> QED
    BY <2>1, <2>2, <2>3, <2>4
<1> QED
  BY <1>1, <1>3, <1>4

\* Every step keeps the invariant.
LEMMA NextTrip ==
  ASSUME OneAtATime
  PROVE  TripInv /\ [Next]_vars => TripInv'
<1> SUFFICES ASSUME TripInv, [Next]_vars PROVE TripInv'
  OBVIOUS
<1>1. CASE Tick
  BY <1>1, NextTypeOK DEF Tick, TripInv, Written, WholeIsLast, OfLast, Unpacked, Alone, BackingUp,
                Restoring, backup_vars, restore_vars
<1>2. ASSUME NEW k \in Keys, NEW v \in Vals \cup {None}, UserPut(k, v)
      PROVE  TripInv'
  BY <1>2, NextTypeOK DEF UserPut, TripInv, Written, WholeIsLast, OfLast, Unpacked, Alone,
                BackingUp, Restoring, backup_vars, restore_vars
<1>3. CASE UNCHANGED vars
  BY <1>3, NextTypeOK DEF vars, TripInv, Written, WholeIsLast, OfLast, Unpacked, Alone, BackingUp,
                Restoring, backup_vars, restore_vars
<1> QED
  BY <1>1, <1>2, <1>3, BackupTrip, RestoreTrip DEF Next

\* Where a backup and a restore do not overlap, a restore that ends has put back what the
\* last finished backup listed, whatever interrupted runs have left behind.
THEOREM RoundTripHolds ==
  ASSUME OneAtATime
  PROVE  Spec => []RoundTrip
<1>1. TripInv => RoundTrip
  <2> SUFFICES ASSUME TripInv, rstep = "put", todo = Null, NEW k \in Keys \ missed,
                      last[k] # None
               PROVE  kv[k] = last[k]
    BY DEF RoundTrip
  <2>1. todo[k] = None
    BY DEF Null
  <2> QED
    BY <2>1 DEF TripInv, Unpacked
<1> QED
  BY <1>1, InitTrip, NextTrip, PTL DEF Spec
=============================================================================
