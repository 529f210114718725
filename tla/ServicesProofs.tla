--------------------------- MODULE ServicesProofs ---------------------------
(***************************************************************************)
(* Proofs about Services, for any hosts, restorers, items, values, buckets *)
(* and bounds.                                                             *)
(***************************************************************************)
EXTENDS Services, FileCounts, TLAPS

-----------------------------------------------------------------------------
(* The invariant.  Until its upload, the object of a running backup is in  *)
(* no bucket, since its start time is newer than that of every object of   *)
(* its host, or is of a second in which the host has started another one;  *)
(* a restore works on an object that is in a bucket; so the two work on    *)
(* one local file in such a second only, and otherwise what is uploaded is *)
(* what was listed.                                                        *)

\* The steps before the object can be in a bucket.
Uploading == {"kv", "pq", "acl", "write", "create", "archive", "upload"}

\* The tables that have been listed when a backup comes to a step.
Listed(step) == IF step = "kv" THEN {}
                ELSE IF step = "pq" THEN {"kv"}
                ELSE IF step = "acl" THEN {"kv", "pq"} ELSE Tables

\* The table was listed in or after second s.
Since(at, s) == at # None /\ at >= s

\* A backup has a start time, which is not in the future.
Started ==
  \A h \in Hosts : /\ bstep[h] # "rest" => start[h] # None
                   /\ start[h] # None => start[h] <= now

\* What is in a bucket is of an earlier second, or of a backup that is past its upload, or
\* of one of several backups of a second.
NotStored ==
  \A b \in Buckets, h \in Hosts, s \in Time :
    store[b][<<h, s>>] # None =>
      /\ start[h] # None /\ s <= start[h]
      /\ s = start[h] => bstep[h] \notin Uploading \/ s \in again[h]

\* A running backup has listed its tables since its start.
ListedSince ==
  \A h \in Hosts : bstep[h] \in Uploading =>
    \A t \in Listed(bstep[h]) : Since(client[h].at[t], start[h])

\* The local archive of a running backup is its own work, unless a restore can share it.
OwnTar ==
  ~acceptance => \A h \in Hosts : ~Shared(h, start[h]) =>
    /\ bstep[h] = "archive" => local[h][<<h, start[h]>>] = Torn
    /\ bstep[h] = "upload"  => local[h][<<h, start[h]>>] = [snap |-> client[h], root |-> AtRoot]

\* A running restore has found its object, and loads an archive.
Found ==
  \A h \in Hosts :
    /\ rstep[h] \notin Resting =>
         /\ rname[h] \in LocalNames
         /\ ~acceptance => rname[h] \in Objects /\ store[DownloadBucket][rname[h]] # None
    /\ rstep[h] \in {"load", "put"} => got[h] \in Archives

\* A backup that is past its upload is stored.
Delivered ==
  ~acceptance => \A h \in Hosts : bstep[h] \in {"cleanup", "ok"} =>
    store[UploadBucket][<<h, start[h]>>] # None

ServicesInv ==
  TypeOK /\ Started /\ NotStored /\ ListedSince /\ OwnTar /\ Found /\ Delivered /\ StoredFresh

-----------------------------------------------------------------------------
(* Facts about the definitions.                                            *)

\* Both services use one bucket.
LEMMA OneBucket == UploadBucket \in Buckets /\ DownloadBucket = UploadBucket
  BY ServicesAssumption DEF UploadBucket, DownloadBucket

\* The budget stays within its bound.
LEMMA FaultType ==
  ASSUME TypeOK, Fault \/ NoFault
  PROVE  faults' \in 0..MaxFaults
  BY ServicesAssumption DEF TypeOK, Fault, NoFault

\* Objects are local names, and so is the name of acceptance mode.
LEMMA LocalNameType ==
  ASSUME NEW n \in Objects
  PROVE  LocalName(n) \in LocalNames
  BY DEF LocalName, LocalNames

\* The archive of a backup that has started has a local name and an object's.
LEMMA TarType ==
  ASSUME TypeOK, Started, NEW h \in Hosts, bstep[h] # "rest"
  PROVE  /\ start[h] \in Time /\ <<h, start[h]>> \in Names /\ <<h, start[h]>> \in Objects
         /\ Tar(h) \in LocalNames
         /\ ~acceptance => Tar(h) = <<h, start[h]>>
<1>1. start[h] \in Time
  BY DEF TypeOK, Started
<1>2. <<h, start[h]>> \in Names /\ <<h, start[h]>> \in Objects
  BY <1>1 DEF Names, Objects
<1> QED
  BY <1>1, <1>2, LocalNameType DEF Tar, LocalName

\* Local files stay typed when one of them is set.
LEMMA SetLocalType ==
  ASSUME TypeOK, NEW h \in Hosts, NEW n \in LocalNames,
         NEW content \in Archives \cup {None, Torn}, SetLocal(h, n, content)
  PROVE  /\ local' \in [Hosts -> [LocalNames -> Archives \cup {None, Torn}]]
         /\ \A g \in Hosts, m \in LocalNames :
              local'[g][m] = IF g = h /\ m = n THEN content ELSE local[g][m]
  BY DEF TypeOK, SetLocal

\* What a list call leaves in the client.
LEMMA ListClient ==
  ASSUME TypeOK, NEW h \in Hosts, NEW t \in Tables, List(h, t)
  PROVE  /\ client' \in [Hosts -> Snapshots]
         /\ \A g \in Hosts, u \in Tables :
              \/ client'[g].at[u] = client[g].at[u]
              \/ g = h /\ u = t /\ client'[g].at[u] = now
         /\ bstep'[h] # "error" => client'[h].at[t] = now
<1>1. CASE UNCHANGED client /\ BackupError(h)
  BY <1>1 DEF TypeOK, BackupError, BackupTo
<1>2. CASE /\ client' = [client EXCEPT ![h] =
               [data |-> [i \in Items |-> IF i[1] = t THEN consul[i] ELSE @.data[i]],
                at   |-> [@.at EXCEPT ![t] = now]]]
           /\ NoFault
  <2> DEFINE data == [i \in Items |-> IF i[1] = t THEN consul[i] ELSE client[h].data[i]]
             at   == [client[h].at EXCEPT ![t] = now]
  <2>1. client[h] \in Snapshots
    BY DEF TypeOK
  <2>2. client[h].data \in Table /\ client[h].at \in [Tables -> Time \cup {None}]
    BY <2>1 DEF Snapshots
  <2>3. data \in Table
    BY <2>2 DEF Table, TypeOK
  <2>4. at \in [Tables -> Time \cup {None}] /\ at[t] = now /\ \A u \in Tables \ {t} : at[u] = client[h].at[u]
    BY <2>2 DEF TypeOK
  <2> HIDE DEF data, at
  <2>5. [data |-> data, at |-> at] \in Snapshots
    BY <2>3, <2>4 DEF Snapshots
  <2>6. client' = [client EXCEPT ![h] = [data |-> data, at |-> at]]
    BY <1>2 DEF data, at
  <2> QED
    BY <2>4, <2>5, <2>6 DEF TypeOK
<1> QED
  BY <1>1, <1>2 DEF List

\* The initial states have the invariant: nothing runs, and only foreign objects are stored.
LEMMA InitServices == Init => ServicesInv
<1> SUFFICES ASSUME Init PROVE ServicesInv
  OBVIOUS
<1> USE DEF Init
<1>1. 0 \in Time
  BY ServicesAssumption DEF Time
<1>2. consul \in Table
  BY DEF Table
<1>3. Nothing \in Snapshots
  BY DEF Nothing, Snapshots, Table
<1>4. [data |-> consul, at |-> [t \in Tables |-> 0]] \in Snapshots
  BY <1>1, <1>2 DEF Snapshots
<1>5. [snap |-> [data |-> consul, at |-> [t \in Tables |-> 0]], root |-> FALSE] \in Archives
  BY <1>4 DEF Archives
<1>6. store \in [Buckets -> [Objects -> Archives \cup {None}]]
  BY <1>5
<1>7. TypeOK
  <2>1. now \in Time /\ faults \in 0..MaxFaults /\ consul \in Table
    BY <1>1, <1>2, ServicesAssumption
  <2>2. /\ bstep \in [Hosts -> BackupSteps] /\ rstep \in [Hosts -> RestoreSteps]
        /\ client \in [Hosts -> Snapshots]
    BY <1>3 DEF BackupSteps, RestoreSteps, Resting
  <2>3. /\ local  \in [Hosts -> [LocalNames -> Archives \cup {None, Torn}]]
        /\ staged \in [Hosts -> SUBSET Time] /\ out \in [Hosts -> SUBSET LocalNames]
        /\ start  \in [Hosts -> Time \cup {None}] /\ again \in [Hosts -> SUBSET Time]
    OBVIOUS
  <2>4. /\ rname  \in [Hosts -> LocalNames \cup {None}]
        /\ got    \in [Hosts -> Archives \cup {None}]
        /\ loaded \in [Hosts -> SUBSET Tables]
        /\ todo   \in [Hosts -> SUBSET Items]
        /\ failed \in [Hosts -> BOOLEAN]
    OBVIOUS
  <2> QED
    BY <1>6, <2>1, <2>2, <2>3, <2>4 DEF TypeOK
<1>8. \A b \in Buckets, n \in Names : store[b][n] = None
  BY ServicesAssumption DEF Objects
<1>9. NotStored /\ StoredFresh
  BY <1>8 DEF NotStored, StoredFresh, Names
<1>10. Started /\ ListedSince /\ OwnTar /\ Found /\ Delivered
  BY DEF Started, ListedSince, OwnTar, Found, Delivered, Uploading, Resting
<1> QED
  BY <1>7, <1>9, <1>10 DEF ServicesInv

-----------------------------------------------------------------------------
(* The world outside.                                                      *)

\* The clock and the users keep the invariant.
LEMMA OutsideServices ==
  ASSUME ServicesInv, Tick \/ \E i \in Items, v \in Vals \cup {None} : UserPut(i, v)
  PROVE  ServicesInv'
<1>1. UNCHANGED <<acceptance, faults, store, local, backup_vars, restore_vars>>
  BY DEF Tick, UserPut
<1>2. now' \in Time /\ now <= now'
  BY ServicesAssumption DEF Tick, UserPut, Time, ServicesInv, TypeOK
<1>3. consul' \in Table
  BY DEF Tick, UserPut, ServicesInv, TypeOK, Table
<1>4. TypeOK'
  BY <1>1, <1>2, <1>3 DEF ServicesInv, TypeOK, backup_vars, restore_vars
<1>5. Started'
  BY <1>1, <1>2 DEF ServicesInv, Started, TypeOK, Time, backup_vars
<1>6. NotStored' /\ ListedSince' /\ OwnTar' /\ Found' /\ Delivered' /\ StoredFresh'
  BY <1>1 DEF ServicesInv, NotStored, ListedSince, Since, OwnTar, Found, Delivered, StoredFresh,
              Shared, backup_vars, restore_vars
<1> QED
  BY <1>4, <1>5, <1>6 DEF ServicesInv

-----------------------------------------------------------------------------
(* The backups.                                                            *)

\* A start time that is newer than all, or one that the host has started with again.
LEMMA StartBackupServices ==
  ASSUME ServicesInv, NEW h \in Hosts, StartBackup(h)
  PROVE  ServicesInv'
<1> USE DEF StartBackup, Begin, env_vars, restore_vars
<1>1. /\ start' \in [Hosts -> Time \cup {None}] /\ bstep' \in [Hosts -> BackupSteps]
      /\ again' \in [Hosts -> SUBSET Time]
  BY DEF ServicesInv, TypeOK, BackupTo, BackupSteps, Tables
<1>2. /\ start'[h] = now /\ bstep'[h] = "kv" /\ (start[h] = now => now \in again'[h])
      /\ \A g \in Hosts \ {h} : start'[g] = start[g] /\ bstep'[g] = bstep[g]
      /\ \A g \in Hosts : again[g] \subseteq again'[g]
      /\ \A g \in Hosts \ {h} : again'[g] = again[g]
  BY DEF ServicesInv, TypeOK, BackupTo
<1>3. now \in Nat /\ now # None /\ Time \subseteq Nat
  BY ServicesAssumption DEF ServicesInv, TypeOK, Time
<1>4. TypeOK'
  BY <1>1 DEF ServicesInv, TypeOK
<1>5. Started'
  BY <1>2, <1>3 DEF ServicesInv, Started
<1>6. NotStored'
  <2> SUFFICES ASSUME NEW b \in Buckets, NEW g \in Hosts, NEW s \in Time,
                      store[b][<<g, s>>] # None
               PROVE  /\ start'[g] # None /\ s <= start'[g]
                      /\ s = start'[g] => bstep'[g] \notin Uploading \/ s \in again'[g]
    BY DEF NotStored
  <2>1. /\ start[g] # None /\ s <= start[g]
        /\ s = start[g] => bstep[g] \notin Uploading \/ s \in again[g]
    BY DEF ServicesInv, NotStored
  <2>2. CASE g = h
    <3>1. start[h] \in Nat /\ start[h] <= now /\ s \in Nat
      BY <1>3, <2>1, <2>2 DEF ServicesInv, TypeOK, Started
    <3>2. s <= now /\ (s = now => start[h] = now)
      BY <1>3, <2>1, <2>2, <3>1
    <3> QED
      BY <1>2, <1>3, <2>2, <3>2
  <2> QED
    BY <1>2, <2>1, <2>2
<1>7. ListedSince'
  BY <1>2 DEF ServicesInv, ListedSince, Listed, Since
<1>8. OwnTar' /\ Found' /\ Delivered' /\ StoredFresh'
  BY <1>2 DEF ServicesInv, OwnTar, Found, Delivered, StoredFresh, Resting, Shared
<1> QED
  BY <1>4, <1>5, <1>6, <1>7, <1>8 DEF ServicesInv

\* A table listed now is listed since the start.
LEMMA ListServices ==
  ASSUME ServicesInv, NEW h \in Hosts, NEW t \in Tables, List(h, t)
  PROVE  ServicesInv'
<1> USE DEF env_vars, restore_vars
<1>1. /\ UNCHANGED <<env_vars, store, local, start, again, staged, restore_vars>>
      /\ bstep[h] = t
      /\ Fault \/ NoFault
      /\ BackupTo(h, AfterList[t]) \/ BackupTo(h, "error")
  BY DEF List, BackupError
<1>2. bstep' \in [Hosts -> BackupSteps]
  <2>1. AfterList[t] \in BackupSteps /\ "error" \in BackupSteps
    BY DEF AfterList, BackupSteps, Resting, Tables
  <2> QED
    BY <1>1, <2>1 DEF ServicesInv, TypeOK, BackupTo
<1>3. /\ bstep'[h] \in {AfterList[t], "error"}
      /\ \A g \in Hosts \ {h} : bstep'[g] = bstep[g]
  BY <1>1 DEF ServicesInv, TypeOK, BackupTo
<1>4. TypeOK'
  BY <1>1, <1>2, ListClient, FaultType DEF ServicesInv, TypeOK
<1>5. start[h] # None /\ start[h] <= now /\ now # None /\ now \in Nat
  BY <1>1, ServicesAssumption DEF ServicesInv, Started, Tables, TypeOK, Time
<1>6. Started' /\ NotStored'
  BY <1>1, <1>3, <1>5 DEF ServicesInv, Started, NotStored, Uploading, Tables, AfterList
<1>7. ListedSince'
  <2> SUFFICES ASSUME NEW g \in Hosts, bstep'[g] \in Uploading, NEW u \in Listed(bstep'[g])
               PROVE  Since(client'[g].at[u], start[g])
    BY <1>1 DEF ListedSince, Since
  <2>1. u \in Tables
    BY DEF Listed, Tables
  <2>2. CASE g # h
    BY <1>3, <2>1, <2>2, ListClient DEF ServicesInv, ListedSince
  <2>3. CASE g = h
    <3>1. bstep'[h] = AfterList[t]
      BY <1>3, <2>3 DEF Uploading
    <3>2. u = t \/ u \in Listed(bstep[h])
      BY <1>1, <2>3, <3>1 DEF Listed, AfterList, Tables
    <3>3. bstep[h] \in Uploading
      BY <1>1 DEF Uploading, Tables
    <3>4. client'[h].at[t] = now
      BY <3>1, ListClient DEF ServicesInv, AfterList, Tables
    <3> QED
      BY <1>5, <2>1, <2>3, <3>2, <3>3, <3>4, ListClient DEF ServicesInv, ListedSince, Since
  <2> QED
    BY <2>2, <2>3
<1>8. OwnTar'
  <2>1. AfterList[t] \notin {"archive", "upload"}
    BY DEF AfterList, Tables
  <2>2. \A g \in Hosts \ {h} : client'[g] = client[g]
    BY DEF List, ServicesInv, TypeOK
  <2> QED
    BY <1>1, <1>3, <2>1, <2>2 DEF ServicesInv, OwnTar, Shared
<1>9. Found' /\ StoredFresh'
  BY <1>1 DEF ServicesInv, Found, StoredFresh, Shared
<1>10. Delivered'
  BY <1>1, <1>3 DEF ServicesInv, Delivered, AfterList, Tables
<1> QED
  BY <1>4, <1>6, <1>7, <1>8, <1>9, <1>10 DEF ServicesInv

\* A step of a backup by which neither its start time nor its listing nor a bucket changes,
\* nor a local file but its own, keeps the invariant if it goes on in the order of the code.
LEMMA QuietBackup ==
  ASSUME ServicesInv, NEW h \in Hosts, bstep[h] # "rest",
         UNCHANGED <<env_vars, store, start, again, client, restore_vars>>,
         Fault \/ NoFault,
         staged' \in [Hosts -> SUBSET Time],
         local'  \in [Hosts -> [LocalNames -> Archives \cup {None, Torn}]],
         ~acceptance => \A g \in Hosts \ {h} : local'[g] = local[g],
         NEW step \in BackupSteps, BackupTo(h, step),
         step # "rest",
         step \in Uploading => bstep[h] \in Uploading /\ Listed(bstep[h]) = Tables,
         step = "archive" /\ ~acceptance => local'[h][<<h, start[h]>>] = Torn,
         step = "upload" /\ ~acceptance /\ ~Shared(h, start[h]) =>
           local'[h][<<h, start[h]>>] = [snap |-> client[h], root |-> AtRoot],
         step \in {"cleanup", "ok"} => bstep[h] \in {"cleanup", "ok"} \/ acceptance
  PROVE  ServicesInv'
<1> USE DEF env_vars, restore_vars
<1>1. bstep' \in [Hosts -> BackupSteps]
  BY DEF BackupTo, ServicesInv, TypeOK
<1>2. bstep'[h] = step /\ \A g \in Hosts \ {h} : bstep'[g] = bstep[g]
  BY DEF BackupTo, ServicesInv, TypeOK
<1>3. TypeOK'
  BY <1>1, FaultType DEF ServicesInv, TypeOK
<1>4. Started' /\ NotStored'
  BY <1>2 DEF ServicesInv, Started, NotStored
<1>5. ListedSince'
  <2>1. Listed(step) \subseteq Tables
    BY DEF Listed, Tables
  <2> QED
    BY <1>2, <2>1 DEF ServicesInv, ListedSince, Since
<1>6. OwnTar'
  BY <1>2 DEF ServicesInv, OwnTar, Shared
<1>7. Found' /\ StoredFresh' /\ Delivered'
  BY <1>2 DEF ServicesInv, Found, StoredFresh, Delivered, Shared
<1> QED
  BY <1>3, <1>4, <1>5, <1>6, <1>7 DEF ServicesInv

\* The local steps of a backup keep the invariant.
LEMMA LocalServices ==
  ASSUME ServicesInv, NEW h \in Hosts,
         WriteLocalFiles(h) \/ CreateArchive(h) \/ FillArchive(h) \/ CleanupBackup(h)
  PROVE  ServicesInv'
<1> USE DEF ServicesInv
<1>1. bstep[h] \in {"write", "create", "archive", "cleanup"}
  BY DEF WriteLocalFiles, CreateArchive, FillArchive, CleanupBackup
<1>2. /\ start[h] \in Time /\ Tar(h) \in LocalNames
      /\ ~acceptance => Tar(h) = <<h, start[h]>>
  BY <1>1, TarType
<1>3. {"create", "archive", "upload", "ok", "error"} \subseteq BackupSteps
  BY DEF BackupSteps, Resting
<1>4. /\ staged \in [Hosts -> SUBSET Time]
      /\ local  \in [Hosts -> [LocalNames -> Archives \cup {None, Torn}]]
  BY DEF TypeOK
<1>5. CASE WriteLocalFiles(h)
  <2>1. staged' \in [Hosts -> SUBSET Time]
    BY <1>2, <1>4, <1>5 DEF WriteLocalFiles
  <2>2. PICK step \in {"create", "error"} : BackupTo(h, step)
    BY <1>5 DEF WriteLocalFiles, BackupError
  <2>3. Fault \/ NoFault
    BY <1>5 DEF WriteLocalFiles, BackupError
  <2> QED
    BY <1>3, <1>4, <1>5, <2>1, <2>2, <2>3, QuietBackup DEF WriteLocalFiles, Uploading, Listed
<1>6. CASE CreateArchive(h)
  <2>1. CASE SetLocal(h, Tar(h), Torn) /\ (BackupTo(h, "archive") \/ BackupTo(h, "error"))
    <3>1. /\ local' \in [Hosts -> [LocalNames -> Archives \cup {None, Torn}]]
          /\ \A g \in Hosts \ {h} : local'[g] = local[g]
          /\ local'[h][Tar(h)] = Torn
      BY <1>2, <1>4, <2>1 DEF SetLocal
    <3>2. PICK step \in {"archive", "error"} : BackupTo(h, step)
      BY <2>1
    <3>3. Fault \/ NoFault
      BY <1>6 DEF CreateArchive, BackupError
    <3> QED
      BY <1>2, <1>3, <1>4, <1>6, <3>1, <3>2, <3>3, QuietBackup
         DEF CreateArchive, Uploading, Listed
  <2>2. CASE UNCHANGED local /\ BackupError(h)
    BY <1>3, <1>4, <1>6, <2>2, QuietBackup DEF CreateArchive, BackupError, Uploading
  <2> QED
    BY <1>6, <2>1, <2>2 DEF CreateArchive, BackupError
<1>7. CASE FillArchive(h)
  <2> DEFINE a == [snap |-> client[h], root |-> AtRoot]
  <2>1. a \in Archives
    BY ServicesAssumption DEF TypeOK, Archives
  <2>2. ~acceptance /\ ~Shared(h, start[h]) => local[h][Tar(h)] # None
    BY <1>2, <1>7, ServicesAssumption DEF FillArchive, OwnTar
  <2>3. ASSUME NEW c \in {a, Torn}, SetLocal(h, Tar(h), c), BackupTo(h, "upload"), NoFault,
               c # a => Contended(h)
        PROVE  ServicesInv'
    <3>1. /\ local' \in [Hosts -> [LocalNames -> Archives \cup {None, Torn}]]
          /\ \A g \in Hosts \ {h} : local'[g] = local[g]
          /\ local'[h][Tar(h)] = c
      BY <1>2, <1>4, <2>1, <2>3 DEF SetLocal
    <3> HIDE DEF a
    <3>2. ~acceptance /\ ~Shared(h, start[h]) => local'[h][<<h, start[h]>>] = a
      BY <1>2, <2>3, <3>1 DEF Contended
    <3> QED
      BY <1>3, <1>4, <1>7, <2>3, <3>1, <3>2, QuietBackup
         DEF FillArchive, Uploading, Listed, a
  <2>4. CASE UNCHANGED local /\ BackupError(h)
    BY <1>3, <1>4, <1>7, <2>4, QuietBackup DEF FillArchive, BackupError, Uploading
  <2>5. CASE /\ UNCHANGED local /\ BackupTo(h, "upload") /\ NoFault
             /\ acceptance \/ Shared(h, start[h])
    BY <1>3, <1>4, <1>7, <2>5, QuietBackup DEF FillArchive, Uploading, Listed
  <2> HIDE DEF a
  <2>6. \/ UNCHANGED local /\ BackupError(h)
        \/ /\ NoFault /\ BackupTo(h, "upload")
           /\ \/ (local[h][Tar(h)] = None \/ Contended(h)) /\ UNCHANGED local
              \/ SetLocal(h, Tar(h), a)
              \/ Contended(h) /\ SetLocal(h, Tar(h), Torn)
    BY <1>7 DEF FillArchive, a
  <2> QED
    BY <2>2, <2>3, <2>4, <2>5, <2>6 DEF Contended
<1>8. CASE CleanupBackup(h)
  <2>1. staged' \in [Hosts -> SUBSET Time]
    BY <1>4, <1>8 DEF CleanupBackup
  <2>2. UNCHANGED local \/ SetLocal(h, Tar(h), None)
    BY <1>8 DEF CleanupBackup
  <2>3. /\ local' \in [Hosts -> [LocalNames -> Archives \cup {None, Torn}]]
        /\ \A g \in Hosts \ {h} : local'[g] = local[g]
    BY <1>2, <1>4, <2>2 DEF SetLocal
  <2>4. Fault \/ NoFault
    BY <1>8 DEF CleanupBackup
  <2> QED
    BY <1>3, <1>8, <2>1, <2>3, <2>4, QuietBackup DEF CleanupBackup, Uploading
<1> QED
  BY <1>5, <1>6, <1>7, <1>8

\* The end of a backup's process keeps the invariant: its client holds nothing any more.
LEMMA KillServices ==
  ASSUME ServicesInv, NEW h \in Hosts, KillBackup(h)
  PROVE  ServicesInv'
<1> USE DEF KillBackup, BackupError, env_vars, restore_vars
<1>1. bstep'[h] = "error" /\ \A g \in Hosts \ {h} : bstep'[g] = bstep[g]
  BY DEF BackupTo, ServicesInv, TypeOK
<1>2. Nothing \in Snapshots
  BY DEF Nothing, Snapshots, Table
<1>3. client' \in [Hosts -> Snapshots] /\ \A g \in Hosts \ {h} : client'[g] = client[g]
  BY <1>2 DEF ServicesInv, TypeOK
<1>4. bstep' \in [Hosts -> BackupSteps]
  BY DEF BackupTo, ServicesInv, TypeOK, BackupSteps, Resting
<1>5. TypeOK'
  BY <1>3, <1>4, FaultType DEF ServicesInv, TypeOK
<1>6. bstep[h] # "rest"
  BY DEF Resting
<1>7. Started' /\ NotStored' /\ ListedSince'
  BY <1>1, <1>3, <1>6 DEF ServicesInv, Started, NotStored, ListedSince, Uploading
<1>8. OwnTar' /\ Found' /\ Delivered' /\ StoredFresh'
  BY <1>1, <1>3 DEF ServicesInv, OwnTar, Found, Delivered, StoredFresh, Shared
<1> QED
  BY <1>5, <1>7, <1>8 DEF ServicesInv

\* What an upload reads back: the backup's own work, unless a restore shares the archive.
LEMMA UploadedContent ==
  ASSUME ServicesInv, ~acceptance, NEW h \in Hosts, bstep[h] = "upload",
         local[h][Tar(h)] # None, NEW content \in ReadBack(h)
  PROVE  /\ content \in Archives \cup {Torn} /\ content # None
         /\ ~Shared(h, start[h]) => content = [snap |-> client[h], root |-> AtRoot]
<1>1. Tar(h) \in LocalNames /\ Tar(h) = <<h, start[h]>>
  BY TarType DEF ServicesInv
<1>2. local[h][Tar(h)] \in Archives \cup {Torn} /\ Torn # None
  BY <1>1, ServicesAssumption DEF ServicesInv, TypeOK
<1>3. ~Shared(h, start[h]) => local[h][Tar(h)] = [snap |-> client[h], root |-> AtRoot]
  BY <1>1 DEF ServicesInv, OwnTar
<1> QED
  BY <1>2, <1>3 DEF ReadBack, Contended

\* An upload stores what was listed since the start, unless a restore shares the archive.
LEMMA UploadServices ==
  ASSUME ServicesInv, NEW h \in Hosts, UploadBackup(h)
  PROVE  ServicesInv'
<1> DEFINE n == <<h, start[h]>>
           a == [snap |-> client[h], root |-> AtRoot]
<1> USE DEF env_vars, restore_vars
<1>1. bstep[h] = "upload" /\ bstep[h] \in Uploading /\ Listed(bstep[h]) = Tables
  BY DEF UploadBackup, StorageUpload, Uploading, Listed
<1>2. /\ start[h] \in Time /\ n \in Names /\ n \in Objects
      /\ ~acceptance => Tar(h) = n
  BY <1>1, TarType DEF ServicesInv
<1>4. {"cleanup", "error"} \subseteq BackupSteps
  BY DEF BackupSteps, Resting
<1>5. ASSUME UNCHANGED store, NEW step \in {"cleanup", "error"}, BackupTo(h, step),
             step = "cleanup" => acceptance
      PROVE  ServicesInv'
  <2>1. UNCHANGED <<env_vars, local, start, again, client, staged, restore_vars>>
        /\ (Fault \/ NoFault)
    BY DEF UploadBackup, BackupError
  <2> QED
    BY <1>1, <1>4, <1>5, <2>1, QuietBackup DEF Uploading, ServicesInv, TypeOK
<1>6. ASSUME ~acceptance, local[h][Tar(h)] # None,
             NEW content \in ReadBack(h), StorageUpload(n, content),
             NEW step \in {"cleanup", "error"}, BackupTo(h, step)
      PROVE  ServicesInv'
  <2>1. /\ content \in Archives \cup {Torn} /\ content # None
        /\ ~Shared(h, start[h]) => content = a
    BY <1>1, <1>2, <1>6, UploadedContent
  <2>2. a \in Archives
    BY ServicesAssumption DEF ServicesInv, TypeOK, Archives
  <2>3. \A t \in Tables : a.snap.at[t] # None /\ a.snap.at[t] >= start[h]
    BY <1>1 DEF ServicesInv, ListedSince, Since
  <2> HIDE DEF a
  <2>4. content # None
    BY <2>1
  <2>5. /\ store' \in [Buckets -> [Objects -> Archives \cup {None, Torn}]]
        /\ \A b \in Buckets, m \in Objects :
             store'[b][m] = store[b][m] \/ (m = n /\ store'[b][m] = content)
        /\ store'[UploadBucket][n] = content
    BY <1>2, <1>6, <2>1, OneBucket DEF StorageUpload, ServicesInv, TypeOK
  <2>6. bstep' \in [Hosts -> BackupSteps] /\ bstep'[h] = step
        /\ \A g \in Hosts \ {h} : bstep'[g] = bstep[g]
    BY <1>4, <1>6 DEF BackupTo, ServicesInv, TypeOK
  <2>7. UNCHANGED <<env_vars, local, start, again, client, staged, restore_vars>>
        /\ (Fault \/ NoFault)
    BY DEF UploadBackup, StorageUpload, BackupError
  <2>8. TypeOK'
    BY <2>5, <2>6, <2>7, FaultType DEF ServicesInv, TypeOK
  <2>9. Started' /\ ListedSince' /\ OwnTar'
    BY <1>1, <2>6, <2>7 DEF ServicesInv, Started, ListedSince, Since, OwnTar, Uploading, Shared
  <2>10. NotStored'
    <3> SUFFICES ASSUME NEW b \in Buckets, NEW g \in Hosts, NEW s \in Time,
                        store'[b][<<g, s>>] # None
                 PROVE  /\ start[g] # None /\ s <= start[g]
                        /\ s = start[g] => bstep'[g] \notin Uploading \/ s \in again[g]
      BY <2>7 DEF NotStored
    <3>1. <<g, s>> \in Objects
      BY DEF Objects, Names
    <3>2. CASE store'[b][<<g, s>>] = store[b][<<g, s>>]
      BY <1>1, <2>6, <3>2 DEF ServicesInv, NotStored, Uploading
    <3>3. CASE <<g, s>> = n
      <4>1. g = h /\ s = start[h]
        BY <3>3
      <4>2. s <= s /\ s # None
        BY <1>2, ServicesAssumption DEF Time
      <4> QED
        BY <2>6, <4>1, <4>2 DEF Uploading
    <3> QED
      BY <2>5, <3>1, <3>2, <3>3
  <2>11. Found'
    <3>1. \A m \in Objects : store[DownloadBucket][m] # None => store'[DownloadBucket][m] # None
      BY <2>4, <2>5, OneBucket
    <3> QED
      BY <2>7, <3>1 DEF ServicesInv, Found
  <2>12. Delivered'
    <3> SUFFICES ASSUME NEW g \in Hosts, bstep'[g] \in {"cleanup", "ok"}
                 PROVE  store'[UploadBucket][<<g, start[g]>>] # None
      BY <2>7 DEF Delivered
    <3>1. CASE g = h
      BY <2>4, <2>5, <3>1
    <3>2. CASE g # h
      <4>1. store[UploadBucket][<<g, start[g]>>] # None /\ start[g] \in Time
        BY <1>6, <2>6, <3>2 DEF ServicesInv, Delivered, Started, TypeOK
      <4>2. <<g, start[g]>> \in Objects
        BY <4>1 DEF Objects, Names
      <4> QED
        BY <2>4, <2>5, <4>1, <4>2, OneBucket
    <3> QED
      BY <3>1, <3>2
  <2>13. StoredFresh'
    <3> SUFFICES ASSUME NEW b \in Buckets, NEW g \in Hosts, NEW s \in Time,
                        store'[b][<<g, s>>] # None, ~Shared(g, s)
                 PROVE  /\ store'[b][<<g, s>>] \in Archives
                        /\ \A t \in Tables : LET at == store'[b][<<g, s>>].snap.at[t]
                                             IN  at # None /\ at >= s
      BY <2>7 DEF StoredFresh, Shared
    <3>1. <<g, s>> \in Objects
      BY DEF Objects, Names
    <3>2. CASE store'[b][<<g, s>>] = store[b][<<g, s>>]
      BY <3>2 DEF ServicesInv, StoredFresh
    <3>3. CASE <<g, s>> = n /\ store'[b][<<g, s>>] = content
      <4>1. g = h /\ s = start[h]
        BY <3>3
      <4>2. store'[b][<<g, s>>] = a
        BY <2>1, <3>3, <4>1
      <4> QED
        BY <2>2, <2>3, <4>1, <4>2
    <3> QED
      BY <2>5, <3>1, <3>2, <3>3
  <2> QED
    BY <2>8, <2>9, <2>10, <2>11, <2>12, <2>13 DEF ServicesInv
<1>7. \/ UNCHANGED store /\ acceptance /\ BackupTo(h, "cleanup")
      \/ UNCHANGED store /\ BackupTo(h, "error")
      \/ /\ ~acceptance /\ local[h][Tar(h)] # None
         /\ \E content \in ReadBack(h) : StorageUpload(n, content)
         /\ BackupTo(h, "cleanup") \/ BackupTo(h, "error")
  BY DEF UploadBackup, BackupError
<1> QED
  BY <1>5, <1>6, <1>7

-----------------------------------------------------------------------------
(* The restores.                                                           *)

\* A step of a restore by which no bucket changes, nor a local file but that of an object
\* which is in a bucket, keeps the invariant.
LEMMA QuietRestore ==
  ASSUME ServicesInv, NEW h \in Restorers,
         UNCHANGED <<now, acceptance, store, backup_vars>>, TypeOK', Found',
         ~acceptance => \A g \in Hosts, m \in Names :
                          \/ local'[g][m] = local[g][m]
                          \/ store[DownloadBucket][m] # None /\ g \in Restorers
  PROVE  ServicesInv'
<1> USE DEF backup_vars
<1>1. Started' /\ NotStored' /\ ListedSince' /\ Delivered' /\ StoredFresh'
  BY DEF ServicesInv, Started, NotStored, ListedSince, Delivered, StoredFresh, Since, Shared
<1>2. OwnTar'
  <2> SUFFICES ASSUME ~acceptance, NEW g \in Hosts, bstep[g] \in {"archive", "upload"},
                      ~Shared(g, start[g])
               PROVE  local'[g][<<g, start[g]>>] = local[g][<<g, start[g]>>]
    BY DEF ServicesInv, OwnTar, Shared
  <2>1. start[g] \in Time /\ <<g, start[g]>> \in Names
    BY TarType DEF ServicesInv
  <2>2. g \in Restorers => store[DownloadBucket][<<g, start[g]>>] = None
    BY <2>1, OneBucket DEF ServicesInv, NotStored, Uploading, Shared
  <2> QED
    BY <2>1, <2>2
<1> QED
  BY <1>1, <1>2 DEF ServicesInv

\* A restore that goes on stays with its object.
LEMMA RestoreToStep ==
  ASSUME TypeOK, NEW h \in Hosts, NEW step \in RestoreSteps, RestoreTo(h, step)
  PROVE  /\ rstep' \in [Hosts -> RestoreSteps] /\ rstep'[h] = step
         /\ \A g \in Hosts \ {h} : rstep'[g] = rstep[g]
  BY DEF TypeOK, RestoreTo

\* The start of a restore keeps the invariant.
LEMMA StartRestoreServices ==
  ASSUME ServicesInv, NEW h \in Restorers, NEW n \in Objects, StartRestore(h, n)
  PROVE  ServicesInv'
<1> USE DEF StartRestore, StorageDownload, env_vars, backup_vars
<1>1. h \in Hosts /\ n \in LocalNames /\ LocalName(n) \in LocalNames
  BY LocalNameType, ServicesAssumption DEF LocalNames
<1>2. {"extract", "error"} \subseteq RestoreSteps
  BY DEF RestoreSteps, Resting
<1>3. PICK step \in {"extract", "error"} : RestoreTo(h, step)
  OBVIOUS
<1>4. /\ rstep' \in [Hosts -> RestoreSteps] /\ rstep'[h] = step
      /\ \A g \in Hosts \ {h} : rstep'[g] = rstep[g]
  BY <1>1, <1>2, <1>3, RestoreToStep DEF ServicesInv
<1>5. /\ rname' \in [Hosts -> LocalNames \cup {None}] /\ rname'[h] = LocalName(n)
      /\ \A g \in Hosts \ {h} : rname'[g] = rname[g]
      /\ failed' \in [Hosts -> BOOLEAN]
  BY <1>1 DEF ServicesInv, TypeOK
<1>6. store[DownloadBucket][n] \in Archives \cup {None, Torn}
  BY OneBucket DEF ServicesInv, TypeOK
<1>7. \/ UNCHANGED local
      \/ /\ ~acceptance /\ store[DownloadBucket][n] # None
         /\ \E c \in {store[DownloadBucket][n], Torn} : SetLocal(h, n, c)
  OBVIOUS
<1>8. /\ local' \in [Hosts -> [LocalNames -> Archives \cup {None, Torn}]]
      /\ \A g \in Hosts, m \in Names :
           \/ local'[g][m] = local[g][m]
           \/ store[DownloadBucket][m] # None /\ g \in Restorers
  <2>1. CASE UNCHANGED local
    BY <2>1 DEF ServicesInv, TypeOK
  <2>2. ASSUME NEW c \in {store[DownloadBucket][n], Torn}, SetLocal(h, n, c),
               store[DownloadBucket][n] # None
        PROVE  /\ local' \in [Hosts -> [LocalNames -> Archives \cup {None, Torn}]]
               /\ \A g \in Hosts, m \in Names :
                    \/ local'[g][m] = local[g][m]
                    \/ store[DownloadBucket][m] # None /\ g \in Restorers
    <3>1. Names \subseteq LocalNames /\ c \in Archives \cup {None, Torn}
      BY <1>6 DEF LocalNames, Objects
    <3> QED
      BY <1>1, <2>2, <3>1, SetLocalType DEF ServicesInv
  <2> QED
    BY <1>7, <2>1, <2>2
<1>9. Fault \/ NoFault
  OBVIOUS
<1>10. TypeOK'
  BY <1>4, <1>5, <1>8, <1>9, FaultType DEF ServicesInv, TypeOK
<1>11. step = "extract" /\ ~acceptance =>
         LocalName(n) = n /\ store[DownloadBucket][n] # None
  BY <1>1, <1>3, <1>4 DEF LocalName, RestoreTo, ServicesInv, TypeOK
<1>12. Found'
  BY <1>1, <1>3, <1>4, <1>5, <1>11 DEF ServicesInv, Found, Resting
<1> QED
  BY <1>8, <1>10, <1>12, QuietRestore

\* What runs between the download and the cleanup touches no local archive.
LEMMA MiddleServices ==
  ASSUME ServicesInv, NEW h \in Restorers,
         \/ ExtractBackup(h) \/ Load(h) \/ FinishPuts(h)
         \/ \E i \in Items : Put(h, i)
  PROVE  ServicesInv'
<1> USE DEF env_vars, backup_vars
<1>1. h \in Hosts
  BY ServicesAssumption
<1>2. UNCHANGED <<now, acceptance, store, local, backup_vars, rname>>
  BY DEF ExtractBackup, Unpacks, Load, FinishPuts, Put
<1>3. /\ rstep[h] \notin Resting /\ {"load", "put", "cleanup"} \subseteq RestoreSteps
      /\ rname[h] \in LocalNames
  BY <1>1 DEF ExtractBackup, Unpacks, Load, FinishPuts, Put, Resting, RestoreSteps, ServicesInv, Found
<1>4. faults' \in 0..MaxFaults
  <2>1. Fault \/ NoFault \/ UNCHANGED faults
    BY DEF ExtractBackup, Unpacks, Load, FinishPuts, Put
  <2> QED
    BY <2>1, FaultType DEF ServicesInv, NoFault
<1>5. CASE ExtractBackup(h)
  <2> DEFINE a == local[h][rname[h]]
  <2>1. PICK step \in {"load", "cleanup"} :
          RestoreTo(h, step) /\ (step = "load" => a \in Archives /\ got' = [got EXCEPT ![h] = a])
    BY <1>5 DEF ExtractBackup, Unpacks, RestoreError
  <2>2. /\ rstep' \in [Hosts -> RestoreSteps] /\ rstep'[h] = step
        /\ \A g \in Hosts \ {h} : rstep'[g] = rstep[g]
    BY <1>1, <1>3, <2>1, RestoreToStep DEF ServicesInv
  <2>3. (UNCHANGED got \/ (a \in Archives /\ got' = [got EXCEPT ![h] = a]))
        /\ UNCHANGED <<consul, loaded, todo>>
    BY <1>5 DEF ExtractBackup, Unpacks
  <2>4. /\ got' \in [Hosts -> Archives \cup {None}] /\ \A g \in Hosts \ {h} : got'[g] = got[g]
        /\ step = "load" => got'[h] \in Archives
    BY <1>1, <2>1, <2>3 DEF ServicesInv, TypeOK
  <2>5. failed' \in [Hosts -> BOOLEAN] /\ out' \in [Hosts -> SUBSET LocalNames]
    BY <1>1, <1>3, <1>5 DEF ExtractBackup, Unpacks, RestoreError, ServicesInv, TypeOK
  <2>6. TypeOK'
    BY <1>2, <1>4, <2>2, <2>3, <2>4, <2>5 DEF ServicesInv, TypeOK
  <2>7. Found'
    BY <1>1, <1>2, <1>3, <2>1, <2>2, <2>4 DEF ServicesInv, Found
  <2> QED
    BY <1>2, <2>6, <2>7, QuietRestore
<1>6. CASE Load(h)
  <2>1. PICK step \in {"put", "cleanup"} : RestoreTo(h, step)
    BY <1>6 DEF Load, RestoreError
  <2>2. /\ rstep' \in [Hosts -> RestoreSteps] /\ rstep'[h] = step
        /\ \A g \in Hosts \ {h} : rstep'[g] = rstep[g]
    BY <1>1, <1>3, <2>1, RestoreToStep DEF ServicesInv
  <2>3. \A tables : ItemsIn(got[h], tables) \subseteq Items
    BY DEF ItemsIn
  <2>4. /\ loaded' \in [Hosts -> SUBSET Tables] /\ todo' \in [Hosts -> SUBSET Items]
        /\ failed' \in [Hosts -> BOOLEAN] /\ UNCHANGED <<consul, got, out>>
    <3>1. \/ UNCHANGED <<loaded, todo>>
          \/ \E tables \in SUBSET Tables :
               /\ loaded' = [loaded EXCEPT ![h] = tables]
               /\ todo'   = [todo   EXCEPT ![h] = ItemsIn(got[h], tables)]
      BY <1>6 DEF Load
    <3>2. failed' = failed \/ failed' = [failed EXCEPT ![h] = TRUE]
      BY <1>6 DEF Load, RestoreError
    <3>3. loaded' \in [Hosts -> SUBSET Tables] /\ todo' \in [Hosts -> SUBSET Items]
      <4>1. CASE UNCHANGED <<loaded, todo>>
        BY <4>1 DEF ServicesInv, TypeOK
      <4>2. ASSUME NEW tables \in SUBSET Tables,
                   loaded' = [loaded EXCEPT ![h] = tables],
                   todo'   = [todo   EXCEPT ![h] = ItemsIn(got[h], tables)]
            PROVE  loaded' \in [Hosts -> SUBSET Tables] /\ todo' \in [Hosts -> SUBSET Items]
        <5> DEFINE left == ItemsIn(got[h], tables)
        <5>1. left \in SUBSET Items
          BY <2>3
        <5> HIDE DEF left
        <5>2. todo' = [todo EXCEPT ![h] = left]
          BY <4>2 DEF left
        <5> QED
          BY <4>2, <5>1, <5>2 DEF ServicesInv, TypeOK
      <4> QED
        BY <3>1, <4>1, <4>2
    <3> QED
      BY <1>6, <3>2, <3>3 DEF Load, ServicesInv, TypeOK
  <2>5. TypeOK'
    BY <1>2, <1>4, <2>2, <2>4 DEF ServicesInv, TypeOK
  <2>6. got[h] \in Archives
    BY <1>1, <1>6 DEF Load, ServicesInv, Found
  <2>7. Found'
    BY <1>1, <1>2, <1>3, <2>2, <2>4, <2>6 DEF ServicesInv, Found
  <2> QED
    BY <1>2, <2>5, <2>7, QuietRestore
<1>7. CASE FinishPuts(h)
  <2>1. /\ rstep' \in [Hosts -> RestoreSteps] /\ rstep'[h] = "cleanup"
        /\ \A g \in Hosts \ {h} : rstep'[g] = rstep[g]
    BY <1>1, <1>3, <1>7, RestoreToStep DEF ServicesInv, FinishPuts
  <2>2. TypeOK'
    BY <1>2, <1>7, <2>1 DEF FinishPuts, ServicesInv, TypeOK
  <2>3. Found'
    BY <1>1, <1>2, <1>3, <1>7, <2>1 DEF FinishPuts, ServicesInv, Found
  <2> QED
    BY <1>2, <2>2, <2>3, QuietRestore
<1>8. ASSUME NEW i \in Items, Put(h, i)
      PROVE  ServicesInv'
  <2>1. got[h].snap.data[i] \in Vals \cup {None}
    <3>1. got[h] \in Archives
      BY <1>1, <1>8 DEF Put, ServicesInv, Found
    <3>2. got[h].snap.data \in Table
      BY <3>1 DEF Archives, Snapshots
    <3> QED
      BY <3>2 DEF Table
  <2>2. consul' \in Table
    BY <1>8, <2>1 DEF Put, ServicesInv, TypeOK, Table
  <2>3. todo' \in [Hosts -> SUBSET Items] /\ failed' \in [Hosts -> BOOLEAN]
    <3>1. todo[h] \subseteq Items
      BY <1>1 DEF ServicesInv, TypeOK
    <3>2. PICK left \in SUBSET Items : todo' = [todo EXCEPT ![h] = left]
      <4>1. CASE todo' = [todo EXCEPT ![h] = @ \ {i}]
        BY <3>1, <4>1
      <4>2. CASE todo' = [todo EXCEPT ![h] = {j \in @ : j[1] # i[1]}]
        <5>1. {j \in todo[h] : j[1] # i[1]} \in SUBSET Items
          BY <3>1
        <5> QED
          BY <4>2, <5>1
      <4> QED
        BY <1>8, <4>1, <4>2 DEF Put
    <3>3. failed' = failed \/ failed' = [failed EXCEPT ![h] = TRUE]
      BY <1>8 DEF Put
    <3> QED
      BY <3>2, <3>3 DEF ServicesInv, TypeOK
  <2>4. UNCHANGED <<rstep, got, loaded, out>>
    BY <1>8 DEF Put
  <2>5. TypeOK'
    BY <1>2, <1>4, <2>2, <2>3, <2>4 DEF ServicesInv, TypeOK
  <2>6. Found'
    BY <1>2, <2>4 DEF ServicesInv, Found
  <2> QED
    BY <1>2, <2>5, <2>6, QuietRestore
<1> QED
  BY <1>5, <1>6, <1>7, <1>8

\* The end of a restore removes at most its own local archive.
LEMMA EndRestoreServices ==
  ASSUME ServicesInv, NEW h \in Restorers, CleanupRestore(h) \/ KillRestore(h)
  PROVE  ServicesInv'
<1> USE DEF env_vars, backup_vars
<1>1. h \in Hosts
  BY ServicesAssumption
<1>2. UNCHANGED <<env_vars, store, backup_vars>> /\ Forget(h)
  BY DEF CleanupRestore, KillRestore
<1>3. /\ rstep[h] \notin Resting /\ {"ok", "error"} \subseteq RestoreSteps
      /\ rname[h] \in LocalNames
      /\ ~acceptance => rname[h] \in Objects /\ store[DownloadBucket][rname[h]] # None
  BY <1>1 DEF CleanupRestore, KillRestore, Resting, RestoreSteps, ServicesInv, Found
<1>4. PICK step \in {"ok", "error"} : RestoreTo(h, step)
  BY DEF CleanupRestore, KillRestore
<1>5. /\ rstep' \in [Hosts -> RestoreSteps] /\ rstep'[h] = step
      /\ \A g \in Hosts \ {h} : rstep'[g] = rstep[g]
  BY <1>1, <1>3, <1>4, RestoreToStep DEF ServicesInv
<1>6. /\ rname'  \in [Hosts -> LocalNames \cup {None}]
      /\ got'    \in [Hosts -> Archives \cup {None}]
      /\ loaded' \in [Hosts -> SUBSET Tables]
      /\ todo'   \in [Hosts -> SUBSET Items]
      /\ failed' \in [Hosts -> BOOLEAN]
      /\ \A g \in Hosts \ {h} : rname'[g] = rname[g] /\ got'[g] = got[g]
  BY <1>1, <1>2 DEF Forget, ServicesInv, TypeOK
<1>7. out' \in [Hosts -> SUBSET LocalNames]
  <2>1. UNCHANGED out \/ out' = [out EXCEPT ![h] = @ \ {rname[h]}]
    BY DEF CleanupRestore, KillRestore
  <2>2. out \in [Hosts -> SUBSET LocalNames]
    BY DEF ServicesInv, TypeOK
  <2>3. ASSUME NEW S \in SUBSET LocalNames, out' = [out EXCEPT ![h] = S]
        PROVE  out' \in [Hosts -> SUBSET LocalNames]
    BY <1>1, <2>2, <2>3
  <2>4. out[h] \ {rname[h]} \in SUBSET LocalNames
    BY <1>1, <2>2
  <2> QED
    BY <2>1, <2>2, <2>3, <2>4
<1>8. UNCHANGED local \/ SetLocal(h, rname[h], None)
  BY DEF CleanupRestore, KillRestore
<1>9. /\ local' \in [Hosts -> [LocalNames -> Archives \cup {None, Torn}]]
      /\ ~acceptance => \A g \in Hosts, m \in Names :
           \/ local'[g][m] = local[g][m]
           \/ store[DownloadBucket][m] # None /\ g \in Restorers
  <2>1. CASE UNCHANGED local
    BY <2>1 DEF ServicesInv, TypeOK
  <2>2. CASE SetLocal(h, rname[h], None)
    <3>1. Names \subseteq LocalNames
      BY DEF LocalNames, Objects
    <3> QED
      BY <1>1, <1>3, <2>2, <3>1, SetLocalType DEF ServicesInv
  <2> QED
    BY <1>8, <2>1, <2>2
<1>10. faults' \in 0..MaxFaults
  BY FaultType DEF CleanupRestore, KillRestore, ServicesInv
<1>11. TypeOK'
  BY <1>2, <1>5, <1>6, <1>7, <1>9, <1>10 DEF ServicesInv, TypeOK
<1>12. Found'
  BY <1>1, <1>2, <1>5, <1>6 DEF ServicesInv, Found, Resting
<1> QED
  BY <1>2, <1>9, <1>11, <1>12, QuietRestore

-----------------------------------------------------------------------------
\* Every step keeps the invariant.
LEMMA NextServices == ServicesInv /\ [Next]_vars => ServicesInv'
<1> SUFFICES ASSUME ServicesInv, [Next]_vars PROVE ServicesInv'
  OBVIOUS
<1>1. CASE Next
  <2>1. CASE Tick \/ \E i \in Items, v \in Vals \cup {None} : UserPut(i, v)
    BY <2>1, OutsideServices
  <2>2. ASSUME NEW h \in Hosts, StartBackup(h) \/ BackupWork(h) \/ KillBackup(h)
        PROVE  ServicesInv'
    BY <2>2, StartBackupServices, ListServices, LocalServices, UploadServices, KillServices
       DEF BackupWork
  <2>3. ASSUME NEW h \in Restorers,
               \/ \E n \in Objects : StartRestore(h, n)
               \/ RestoreWork(h) \/ KillRestore(h)
        PROVE  ServicesInv'
    BY <2>3, StartRestoreServices, MiddleServices, EndRestoreServices DEF RestoreWork
  <2> QED
    BY <1>1, <2>1, <2>2, <2>3 DEF Next
<1>2. CASE UNCHANGED vars
  BY <1>2 DEF vars, env_vars, backup_vars, restore_vars, ServicesInv, TypeOK, Started, NotStored,
              ListedSince, Since, OwnTar, Found, Delivered, StoredFresh, Shared
<1> QED
  BY <1>1, <1>2

\* The state of the services, their files and their buckets is well typed.
THEOREM TypeCorrect == Spec => []TypeOK
<1>1. ServicesInv => TypeOK
  BY DEF ServicesInv
<1> QED
  BY <1>1, InitServices, NextServices, PTL DEF Spec

\* Whatever RunBackup stores was read from consul at or after the second in its name, in
\* all three tables: a list call that fails never lets older data through, nor does a retry
\* in that second, unless a restore works on its files.
THEOREM StoredIsFresh == Spec => []StoredFresh
<1>1. ServicesInv => StoredFresh
  BY DEF ServicesInv
<1> QED
  BY <1>1, InitServices, NextServices, PTL DEF Spec

\* A backup for which RunBackup returned nil is in the bucket that RunRestore reads; and
\* whole, unless a restore works on the files of a second in which its host starts several.
LEMMA ReportedStored == ServicesInv => Reported
<1> SUFFICES ASSUME ServicesInv, NEW h \in Hosts, bstep[h] = "ok", ~acceptance
             PROVE  /\ store[DownloadBucket][<<h, start[h]>>] # None
                    /\ \/ store[DownloadBucket][<<h, start[h]>>] \in Archives
                       \/ Shared(h, start[h])
  BY DEF Reported
<1>1. start[h] \in Time
  BY TarType DEF ServicesInv
<1>2. store[UploadBucket][<<h, start[h]>>] # None
  BY DEF ServicesInv, Delivered
<1> QED
  BY <1>1, <1>2, OneBucket DEF ServicesInv, StoredFresh

\* The same, in every behaviour, though backups and restores share the local files.
THEOREM ReportedIsStored == Spec => []Reported
  BY ReportedStored, InitServices, NextServices, PTL DEF Spec

-----------------------------------------------------------------------------
(* The files that outlive the calls.                                       *)

\* The local archives that a call in progress works on, or that stay for the acceptance test.
InUse(h) == (IF bstep[h] \in Resting THEN {} ELSE {Tar(h)})
              \cup (IF rstep[h] \in Resting THEN {} ELSE {rname[h]})
              \cup (IF acceptance THEN {Fixed} ELSE {})

\* What no call in progress will remove: staging directories, but for those that stay when
\* the archive of one of several backups of a second is gone, archives, .extracted ones.
StagedLeft(h) == staged[h] \ ((IF bstep[h] \in Resting THEN {} ELSE {start[h]}) \cup again[h])
LocalLeft(h)  == {n \in LocalNames : local[h][n] # None} \ InUse(h)
OutLeft(h)    == out[h] \ (IF rstep[h] \in Resting THEN {} ELSE {rname[h]})

\* What makes FilesBounded inductive: a fault accounts for each two of these, while calls
\* are in progress too.
Accounted(h) ==
  \E i, j, k \in Nat :
    /\ AtMost(StagedLeft(h), i) /\ AtMost(LocalLeft(h), j) /\ AtMost(OutLeft(h), k)
    /\ i + j + k <= 2 * faults

FilesInv == \A h \in Hosts : Accounted(h)

\* The variables that decide what a host has left.
host_files(h) == <<bstep[h], start[h], again[h], staged[h], local[h], rstep[h], rname[h], out[h]>>

\* A host of which nothing changes has the same left.
LEMMA SameLeft ==
  ASSUME NEW h \in Hosts, UNCHANGED acceptance, UNCHANGED host_files(h)
  PROVE  /\ StagedLeft(h)' = StagedLeft(h) /\ LocalLeft(h)' = LocalLeft(h)
         /\ OutLeft(h)' = OutLeft(h)
  BY DEF host_files, StagedLeft, LocalLeft, OutLeft, InUse, Tar, LocalName

\* A running backup that changes no files but its own leaves nothing new if it goes on, nor
\* if it ends with them removed; otherwise it leaves its two names at most.
LEMMA BackupLeaves ==
  ASSUME TypeOK, NEW h \in Hosts, bstep[h] \notin Resting,
         UNCHANGED <<acceptance, rstep, rname, out, start, again>>,
         staged'[h] \subseteq staged[h] \cup {start[h]},
         \A n \in LocalNames : local'[h][n] # None => local[h][n] # None \/ n = Tar(h)
  PROVE  /\ OutLeft(h)' = OutLeft(h)
         /\ StagedLeft(h)' \subseteq StagedLeft(h) \cup {start[h]}
         /\ LocalLeft(h)' \subseteq LocalLeft(h) \cup {Tar(h)}
         /\ (\/ bstep'[h] \notin Resting
             \/ /\ start[h] \notin staged'[h] \/ start[h] \in again[h]
                /\ acceptance \/ (Tar(h) \in LocalNames => local'[h][Tar(h)] = None))
              => StagedLeft(h)' \subseteq StagedLeft(h) /\ LocalLeft(h)' \subseteq LocalLeft(h)
<1>1. Tar(h)' = Tar(h) /\ (acceptance => Tar(h) = Fixed)
  BY DEF Tar, LocalName
<1>2. OutLeft(h)' = OutLeft(h)
  BY DEF OutLeft
<1>3. /\ StagedLeft(h)' \subseteq StagedLeft(h) \cup {start[h]}
      /\ (bstep'[h] \notin Resting \/ start[h] \notin staged'[h] \/ start[h] \in again[h])
           => StagedLeft(h)' \subseteq StagedLeft(h)
  BY DEF StagedLeft
<1>4. /\ LocalLeft(h)' \subseteq LocalLeft(h) \cup {Tar(h)}
      /\ (\/ bstep'[h] \notin Resting
          \/ acceptance \/ (Tar(h) \in LocalNames => local'[h][Tar(h)] = None))
           => LocalLeft(h)' \subseteq LocalLeft(h)
  BY <1>1 DEF LocalLeft, InUse, LocalNames, Objects, Names, Time
<1> QED
  BY <1>2, <1>3, <1>4

\* A step of the backup of host h: what it leaves, and what it leaves alone.
LEMMA BackupFiles ==
  ASSUME ServicesInv, NEW h \in Hosts, StartBackup(h) \/ BackupWork(h) \/ KillBackup(h)
  PROVE  /\ UNCHANGED acceptance /\ \A g \in Hosts \ {h} : UNCHANGED host_files(g)
         /\ OutLeft(h)' = OutLeft(h)
         /\ \/ /\ StagedLeft(h)' \subseteq StagedLeft(h) /\ LocalLeft(h)' \subseteq LocalLeft(h)
               /\ faults' \in {faults, faults + 1}
            \/ /\ StagedLeft(h)' \subseteq StagedLeft(h) \cup {start[h]}
               /\ LocalLeft(h)' \subseteq LocalLeft(h) \cup {Tar(h)}
               /\ faults' = faults + 1
<1> DEFINE Quiet == UNCHANGED acceptance /\ \A g \in Hosts \ {h} : UNCHANGED host_files(g)
           Clean == /\ OutLeft(h)' = OutLeft(h)
                    /\ StagedLeft(h)' \subseteq StagedLeft(h)
                    /\ LocalLeft(h)' \subseteq LocalLeft(h)
           Dirty == /\ OutLeft(h)' = OutLeft(h)
                    /\ StagedLeft(h)' \subseteq StagedLeft(h) \cup {start[h]}
                    /\ LocalLeft(h)' \subseteq LocalLeft(h) \cup {Tar(h)}
                    /\ faults' = faults + 1
<1>1. /\ TypeOK /\ Started
      /\ bstep \in [Hosts -> BackupSteps] /\ start \in [Hosts -> Time \cup {None}]
      /\ again \in [Hosts -> SUBSET Time] /\ staged \in [Hosts -> SUBSET Time]
      /\ local \in [Hosts -> [LocalNames -> Archives \cup {None, Torn}]]
  BY DEF ServicesInv, TypeOK
<1> USE DEF env_vars, restore_vars
<1>2. CASE StartBackup(h)
  <2>1. /\ bstep[h] \in Resting /\ bstep'[h] \notin Resting /\ again[h] \subseteq again'[h]
        /\ \A g \in Hosts \ {h} :
             bstep'[g] = bstep[g] /\ start'[g] = start[g] /\ again'[g] = again[g]
        /\ UNCHANGED <<acceptance, faults, local, staged, rstep, rname, out>>
    BY <1>1, <1>2 DEF StartBackup, Begin, BackupTo, Resting
  <2>2. Clean
    BY <2>1 DEF StagedLeft, LocalLeft, OutLeft, InUse
  <2> QED
    BY <2>1, <2>2 DEF host_files
<1> DEFINE step == bstep'[h]
<1>3. ASSUME bstep[h] \notin Resting, UNCHANGED <<acceptance, rstep, rname, out, start, again>>,
             NEW next \in BackupSteps, BackupTo(h, next),
             \A g \in Hosts \ {h} : staged'[g] = staged[g] /\ local'[g] = local[g],
             staged'[h] \subseteq staged[h] \cup {start[h]},
             \A n \in LocalNames : local'[h][n] # None => local[h][n] # None \/ n = Tar(h),
             Fault \/ NoFault,
             \/ Fault
             \/ next \notin Resting
             \/ /\ start[h] \notin staged'[h] \/ start[h] \in again[h]
                /\ acceptance \/ (Tar(h) \in LocalNames => local'[h][Tar(h)] = None)
      PROVE  Quiet /\ ((Clean /\ faults' \in {faults, faults + 1}) \/ Dirty)
  <2>1. bstep'[h] = next /\ \A g \in Hosts \ {h} : bstep'[g] = bstep[g]
    BY <1>1, <1>3 DEF BackupTo
  <2>2. Quiet
    BY <1>3, <2>1 DEF host_files
  <2>3. CASE Fault
    BY <1>1, <1>3, <2>2, <2>3, BackupLeaves DEF Fault
  <2>4. CASE NoFault
    BY <1>1, <1>3, <2>1, <2>2, <2>4, BackupLeaves DEF Fault, NoFault
  <2> QED
    BY <1>3, <2>3, <2>4
<1>4. ASSUME NEW t \in Tables, List(h, t)
      PROVE  Quiet /\ ((Clean /\ faults' \in {faults, faults + 1}) \/ Dirty)
  <2>1. t \notin Resting /\ AfterList[t] \in BackupSteps \ Resting /\ "error" \in BackupSteps
    BY DEF AfterList, Tables, Resting, BackupSteps
  <2> QED
    BY <1>3, <1>4, <2>1 DEF List, BackupError
<1> HIDE DEF step
<1>5. {"create", "archive", "upload", "cleanup"} \subseteq BackupSteps \ Resting
      /\ {"ok", "error"} \subseteq BackupSteps
  BY DEF Resting, BackupSteps
<1>6. CASE WriteLocalFiles(h)
  <2>1. /\ \A g \in Hosts \ {h} : staged'[g] = staged[g]
        /\ staged'[h] \subseteq staged[h] \cup {start[h]}
    BY <1>1, <1>6 DEF WriteLocalFiles
  <2> QED
    BY <1>3, <1>5, <1>6, <2>1 DEF WriteLocalFiles, BackupError, Resting
<1>7. CASE CreateArchive(h) \/ FillArchive(h)
  <2>1. bstep[h] \notin Resting /\ bstep[h] # "rest"
    BY <1>7 DEF CreateArchive, FillArchive, Resting
  <2>2. Tar(h) \in LocalNames
    BY <1>1, <2>1, TarType
  <2>3. UNCHANGED local \/ \E c : SetLocal(h, Tar(h), c)
    BY <1>7 DEF CreateArchive, FillArchive
  <2>4. /\ \A g \in Hosts \ {h} : local'[g] = local[g]
        /\ \A n \in LocalNames : local'[h][n] # None => local[h][n] # None \/ n = Tar(h)
    BY <1>1, <2>2, <2>3 DEF SetLocal
  <2>5. PICK next \in {"archive", "upload", "error"} :
          BackupTo(h, next) /\ (next = "error" => Fault)
    BY <1>7 DEF CreateArchive, FillArchive, BackupError
  <2>6. UNCHANGED <<acceptance, rstep, rname, out, start, again, staged>> /\ (Fault \/ NoFault)
    BY <1>7 DEF CreateArchive, FillArchive, BackupError
  <2> QED
    BY <1>3, <1>5, <2>1, <2>4, <2>5, <2>6
<1>8. CASE UploadBackup(h)
  <2>1. /\ bstep[h] = "upload" /\ bstep[h] \notin Resting
        /\ UNCHANGED <<acceptance, rstep, rname, out, start, again, staged, local>>
        /\ Fault \/ NoFault
    BY <1>8 DEF UploadBackup, BackupError, Resting
  <2>2. CASE local[h][Tar(h)] = None /\ ~acceptance /\ BackupTo(h, "error")
    <3>1. Tar(h) = <<h, start[h]>>
      BY <1>1, <2>1, <2>2, TarType
    <3>2. [snap |-> client[h], root |-> AtRoot] # None
      BY ServicesAssumption DEF ServicesInv, TypeOK, Archives
    <3>3. start[h] \in again[h]
      BY <2>1, <2>2, <3>1, <3>2 DEF ServicesInv, OwnTar, Shared
    <3> QED
      BY <1>1, <1>3, <1>5, <2>1, <2>2, <3>3
  <2>3. CASE BackupTo(h, "cleanup")
    BY <1>3, <1>5, <2>1, <2>3
  <2>4. CASE BackupTo(h, "error") /\ Fault
    BY <1>3, <1>5, <2>1, <2>4
  <2> QED
    BY <1>8, <2>2, <2>3, <2>4 DEF UploadBackup, BackupError
<1>9. CASE KillBackup(h)
  BY <1>3, <1>5, <1>9 DEF KillBackup, BackupError
<1>10. CASE CleanupBackup(h)
  <2>1. bstep[h] \notin Resting /\ bstep[h] # "rest"
    BY <1>10 DEF CleanupBackup, Resting
  <2>2. Tar(h) \in LocalNames
    BY <1>1, <2>1, TarType
  <2>3. /\ \A g \in Hosts \ {h} : staged'[g] = staged[g] /\ local'[g] = local[g]
        /\ staged'[h] \subseteq staged[h]
        /\ \A n \in LocalNames : local'[h][n] # None => local[h][n] # None
    <3>1. UNCHANGED local \/ SetLocal(h, Tar(h), None)
      BY <1>10 DEF CleanupBackup
    <3>2. UNCHANGED staged \/ staged' = [staged EXCEPT ![h] = @ \ {start[h]}]
      BY <1>10 DEF CleanupBackup
    <3> QED
      BY <1>1, <2>2, <3>1, <3>2 DEF SetLocal
  <2>4. \/ Fault
        \/ NoFault /\ start[h] \notin staged'[h] /\ (acceptance \/ local'[h][Tar(h)] = None)
    BY <1>1, <1>10, <2>2 DEF CleanupBackup, SetLocal
  <2>5. BackupTo(h, "ok") /\ UNCHANGED <<acceptance, rstep, rname, out, start, again>>
    BY <1>10 DEF CleanupBackup
  <2> QED
    BY <1>3, <1>5, <2>1, <2>3, <2>4, <2>5
<1> QED
  BY <1>2, <1>4, <1>6, <1>7, <1>8, <1>9, <1>10 DEF BackupWork

\* A running restore that makes no local archive leaves nothing new if it goes on, nor if it
\* ends with its files removed; otherwise it leaves its name, once in each directory.
LEMMA RestoreLeaves ==
  ASSUME NEW h \in Hosts, rstep[h] \notin Resting,
         UNCHANGED <<acceptance, bstep, start, again, staged>>,
         out'[h] \subseteq out[h] \cup {rname[h]},
         \A n \in LocalNames : local'[h][n] # None => local[h][n] # None
  PROVE  /\ StagedLeft(h)' = StagedLeft(h)
         /\ LocalLeft(h)' \subseteq LocalLeft(h) \cup {rname[h]}
         /\ OutLeft(h)' \subseteq OutLeft(h) \cup {rname[h]}
         /\ (\/ rstep'[h] \notin Resting /\ rname'[h] = rname[h]
             \/ /\ rname[h] \notin out'[h]
                /\ rname[h] \in LocalNames => local'[h][rname[h]] = None)
              => LocalLeft(h)' \subseteq LocalLeft(h) /\ OutLeft(h)' \subseteq OutLeft(h)
<1>1. Tar(h)' = Tar(h)
  BY DEF Tar, LocalName
<1>2. StagedLeft(h)' = StagedLeft(h)
  BY DEF StagedLeft
<1>3. LocalLeft(h)' \subseteq LocalLeft(h) \cup {rname[h]}
  BY <1>1 DEF LocalLeft, InUse
<1>4. OutLeft(h)' \subseteq OutLeft(h) \cup {rname[h]}
  BY DEF OutLeft
<1>5. CASE rstep'[h] \notin Resting /\ rname'[h] = rname[h]
  BY <1>1, <1>2, <1>3, <1>4, <1>5 DEF LocalLeft, OutLeft, InUse
<1>6. CASE /\ rname[h] \notin out'[h]
           /\ rname[h] \in LocalNames => local'[h][rname[h]] = None
  <2>1. rname[h] \notin LocalLeft(h)' /\ rname[h] \notin OutLeft(h)'
    BY <1>6 DEF LocalLeft, OutLeft
  <2> QED
    BY <1>2, <1>3, <1>4, <2>1
<1> QED
  BY <1>2, <1>3, <1>4, <1>5, <1>6

\* A step of the restore of host h: what it leaves, and what it leaves alone.
LEMMA RestoreFiles ==
  ASSUME ServicesInv, NEW h \in Restorers,
         \/ \E n \in Objects : StartRestore(h, n)
         \/ RestoreWork(h) \/ KillRestore(h)
  PROVE  /\ UNCHANGED acceptance /\ \A g \in Hosts \ {h} : UNCHANGED host_files(g)
         /\ StagedLeft(h)' = StagedLeft(h)
         /\ \/ /\ LocalLeft(h)' \subseteq LocalLeft(h) /\ OutLeft(h)' \subseteq OutLeft(h)
               /\ faults' \in {faults, faults + 1}
            \/ \E n, m : /\ LocalLeft(h)' \subseteq LocalLeft(h) \cup {n}
                         /\ OutLeft(h)' \subseteq OutLeft(h) \cup {m}
                         /\ faults' = faults + 1
<1> DEFINE Quiet == UNCHANGED acceptance /\ \A g \in Hosts \ {h} : UNCHANGED host_files(g)
           Same  == StagedLeft(h)' = StagedLeft(h)
           Clean == LocalLeft(h)' \subseteq LocalLeft(h) /\ OutLeft(h)' \subseteq OutLeft(h)
           Dirty == \E n, m : /\ LocalLeft(h)' \subseteq LocalLeft(h) \cup {n}
                              /\ OutLeft(h)' \subseteq OutLeft(h) \cup {m}
                              /\ faults' = faults + 1
           Goal  == Quiet /\ Same /\ ((Clean /\ faults' \in {faults, faults + 1}) \/ Dirty)
<1> SUFFICES Goal
  OBVIOUS
<1>1. /\ TypeOK /\ h \in Hosts
      /\ rstep \in [Hosts -> RestoreSteps] /\ rname \in [Hosts -> LocalNames \cup {None}]
      /\ out \in [Hosts -> SUBSET LocalNames]
      /\ local \in [Hosts -> [LocalNames -> Archives \cup {None, Torn}]]
  BY ServicesAssumption DEF ServicesInv, TypeOK
<1> USE DEF env_vars, backup_vars
<1>2. ASSUME NEW n \in Objects, StartRestore(h, n)
      PROVE  Goal
  <2>1. /\ rstep[h] \in Resting /\ n \in LocalNames
        /\ UNCHANGED <<acceptance, bstep, start, again, staged, out>>
    BY <1>2 DEF StartRestore, LocalNames
  <2>2. /\ rname'[h] = LocalName(n)
        /\ \A g \in Hosts \ {h} : rname'[g] = rname[g] /\ rstep'[g] = rstep[g]
    BY <1>1, <1>2 DEF StartRestore, RestoreTo
  <2>3. Tar(h)' = Tar(h) /\ Same /\ OutLeft(h)' \subseteq OutLeft(h)
    BY <2>1 DEF Tar, LocalName, StagedLeft, OutLeft
  <2>4. CASE UNCHANGED local /\ NoFault
    <3>1. LocalLeft(h)' \subseteq LocalLeft(h) /\ Quiet
      BY <2>1, <2>2, <2>3, <2>4 DEF LocalLeft, InUse, host_files
    <3> QED
      BY <2>3, <2>4, <3>1 DEF NoFault
  <2>5. CASE /\ ~acceptance /\ SetLocal(h, n, StorageDownload(n))
             /\ RestoreTo(h, "extract") /\ NoFault
    <3>1. /\ \A g \in Hosts \ {h} : local'[g] = local[g]
          /\ \A m \in LocalNames \ {n} : local'[h][m] = local[h][m]
          /\ rstep'[h] \notin Resting /\ rname'[h] = n
      BY <1>1, <2>1, <2>2, <2>5 DEF SetLocal, RestoreTo, Resting, LocalName
    <3>2. LocalLeft(h)' \subseteq LocalLeft(h) /\ Quiet
      BY <2>1, <2>2, <2>3, <3>1 DEF LocalLeft, InUse, host_files
    <3> QED
      BY <2>3, <2>5, <3>2 DEF NoFault
  <2>6. CASE (SetLocal(h, n, Torn) \/ UNCHANGED local) /\ RestoreTo(h, "error") /\ Fault
    <3>1. /\ \A g \in Hosts \ {h} : local'[g] = local[g]
          /\ \A m \in LocalNames \ {n} : local'[h][m] = local[h][m]
      BY <1>1, <2>1, <2>6 DEF SetLocal
    <3>2. LocalLeft(h)' \subseteq LocalLeft(h) \cup {n} /\ Quiet
      BY <2>1, <2>2, <2>3, <3>1 DEF LocalLeft, InUse, host_files
    <3>3. OutLeft(h)' \subseteq OutLeft(h) \cup {n} /\ faults' = faults + 1
      BY <2>3, <2>6 DEF Fault
    <3> HIDE DEF Quiet, Same
    <3> QED
      BY <2>3, <3>2, <3>3
  <2> HIDE DEF Goal
  <2> QED
    BY <1>2, <2>4, <2>5, <2>6 DEF StartRestore
<1>3. ASSUME rstep[h] \notin Resting, UNCHANGED <<acceptance, bstep, start, again, staged>>,
             NEW next \in RestoreSteps, RestoreTo(h, next),
             \A g \in Hosts \ {h} : rname'[g] = rname[g] /\ out'[g] = out[g] /\ local'[g] = local[g],
             out'[h] \subseteq out[h] \cup {rname[h]},
             \A n \in LocalNames : local'[h][n] # None => local[h][n] # None,
             Fault \/ NoFault,
             \/ Fault
             \/ next \notin Resting /\ rname'[h] = rname[h]
             \/ /\ rname[h] \notin out'[h]
                /\ rname[h] \in LocalNames => local'[h][rname[h]] = None
      PROVE  Goal
  <2>1. rstep'[h] = next /\ \A g \in Hosts \ {h} : rstep'[g] = rstep[g]
    BY <1>1, <1>3, RestoreToStep
  <2>2. Quiet
    BY <1>3, <2>1 DEF host_files
  <2>3. Same
    BY <1>1, <1>3, RestoreLeaves
  <2>4. CASE Fault
    <3>1. Dirty
      BY <1>1, <1>3, <2>4, RestoreLeaves DEF Fault
    <3> QED
      BY <2>2, <2>3, <3>1
  <2>5. CASE NoFault /\ ~Fault
    <3>1. Clean
      BY <1>1, <1>3, <2>1, <2>5, RestoreLeaves
    <3> QED
      BY <2>2, <2>3, <2>5, <3>1 DEF NoFault
  <2> QED
    BY <1>3, <2>4, <2>5
<1>4. {"load", "put", "cleanup"} \subseteq RestoreSteps \ Resting /\ {"ok", "error"} \subseteq RestoreSteps
  BY DEF Resting, RestoreSteps
<1> HIDE DEF Goal
<1>5. CASE ExtractBackup(h)
  <2>1. PICK next \in {"load", "cleanup"} : RestoreTo(h, next)
    BY <1>5 DEF ExtractBackup, RestoreError
  <2>2. /\ out'[h] = out[h] \cup {rname[h]} /\ \A g \in Hosts \ {h} : out'[g] = out[g]
        /\ UNCHANGED <<acceptance, bstep, start, again, staged, local, rname>>
        /\ rstep[h] \notin Resting /\ (Fault \/ NoFault)
    BY <1>1, <1>5 DEF ExtractBackup, Resting
  <2> QED
    BY <1>3, <1>4, <2>1, <2>2
<1>6. CASE Load(h)
  <2>1. PICK next \in {"put", "cleanup"} : RestoreTo(h, next)
    BY <1>6 DEF Load, RestoreError
  <2>2. /\ UNCHANGED <<acceptance, bstep, start, again, staged, local, rname, out>>
        /\ rstep[h] \notin Resting /\ (Fault \/ NoFault)
    BY <1>6 DEF Load, Resting
  <2> QED
    BY <1>3, <1>4, <2>1, <2>2
<1>7. ASSUME NEW i \in Items, Put(h, i)
      PROVE  Goal
  <2>1. /\ UNCHANGED <<acceptance, bstep, start, again, staged, local, rname, out, rstep>>
        /\ rstep[h] = "put" /\ (Fault \/ NoFault)
    BY <1>7 DEF Put
  <2>2. RestoreTo(h, "put")
    BY <1>1, <2>1 DEF RestoreTo
  <2> QED
    BY <1>3, <1>4, <2>1, <2>2
<1>8. CASE FinishPuts(h)
  BY <1>3, <1>4, <1>8 DEF FinishPuts, NoFault, Resting
<1>9. CASE KillRestore(h)
  <2>1. \A g \in Hosts \ {h} : rname'[g] = rname[g]
    BY <1>1, <1>9 DEF KillRestore, Forget
  <2> QED
    BY <1>3, <1>4, <1>9, <2>1 DEF KillRestore
<1>10. CASE CleanupRestore(h)
  <2>1. /\ rstep[h] \notin Resting /\ rname[h] \in LocalNames
        /\ \A g \in Hosts \ {h} : rname'[g] = rname[g]
        /\ UNCHANGED <<acceptance, bstep, start, again, staged>>
    BY <1>1, <1>10 DEF CleanupRestore, Forget, Resting, ServicesInv, Found
  <2>2. PICK next \in {"ok", "error"} : RestoreTo(h, next)
    BY <1>10 DEF CleanupRestore
  <2>3. /\ UNCHANGED local \/ SetLocal(h, rname[h], None)
        /\ UNCHANGED out \/ out' = [out EXCEPT ![h] = @ \ {rname[h]}]
    BY <1>10 DEF CleanupRestore
  <2>4. /\ \A g \in Hosts \ {h} : out'[g] = out[g] /\ local'[g] = local[g]
        /\ out'[h] \subseteq out[h]
        /\ \A n \in LocalNames : local'[h][n] # None => local[h][n] # None
    BY <1>1, <2>1, <2>3 DEF SetLocal
  <2>5. \/ Fault
        \/ NoFault /\ rname[h] \notin out'[h] /\ local'[h][rname[h]] = None
    BY <1>1, <1>10, <2>1 DEF CleanupRestore, SetLocal
  <2> QED
    BY <1>3, <1>4, <2>1, <2>2, <2>4, <2>5
<1> QED
  BY <1>2, <1>5, <1>6, <1>7, <1>8, <1>9, <1>10 DEF RestoreWork

\* In the first state there are no files.
LEMMA InitFiles == Init => FilesInv
<1> SUFFICES ASSUME Init, NEW h \in Hosts PROVE Accounted(h)
  BY DEF FilesInv
<1>1. StagedLeft(h) = {} /\ LocalLeft(h) = {} /\ OutLeft(h) = {}
  BY DEF Init, StagedLeft, LocalLeft, OutLeft
<1>2. 0 + 0 + 0 <= 2 * faults
  BY DEF Init
<1> QED
  BY <1>1, <1>2, NoFiles DEF Accounted

\* A host that is left with nothing new stays accounted for,
LEMMA NothingNew ==
  ASSUME NEW h \in Hosts, Accounted(h), faults \in Nat, faults' \in {faults, faults + 1},
         StagedLeft(h)' \subseteq StagedLeft(h), LocalLeft(h)' \subseteq LocalLeft(h),
         OutLeft(h)' \subseteq OutLeft(h)
  PROVE  Accounted(h)'
<1>1. PICK i \in Nat, j \in Nat, k \in Nat :
        /\ AtMost(StagedLeft(h), i) /\ AtMost(LocalLeft(h), j) /\ AtMost(OutLeft(h), k)
        /\ i + j + k <= 2 * faults
  BY DEF Accounted
<1>2. /\ AtMost(StagedLeft(h)', i) /\ AtMost(LocalLeft(h)', j) /\ AtMost(OutLeft(h)', k)
  BY <1>1, FilesKept
<1>3. i + j + k <= 2 * faults'
  BY <1>1, TwoEach, i + j + k \in Nat
<1> QED
  BY <1>2, <1>3 DEF Accounted

\* and so does one that a fault leaves with one more name in two directories.
LEMMA OneInTwo ==
  ASSUME NEW h \in Hosts, Accounted(h), faults \in Nat, faults' = faults + 1, NEW x, NEW y,
         LocalLeft(h)' \subseteq LocalLeft(h) \cup {y},
         \/ /\ StagedLeft(h)' \subseteq StagedLeft(h) \cup {x}
            /\ OutLeft(h)' \subseteq OutLeft(h)
         \/ /\ StagedLeft(h)' \subseteq StagedLeft(h)
            /\ OutLeft(h)' \subseteq OutLeft(h) \cup {x}
  PROVE  Accounted(h)'
<1>1. PICK i \in Nat, j \in Nat, k \in Nat :
        /\ AtMost(StagedLeft(h), i) /\ AtMost(LocalLeft(h), j) /\ AtMost(OutLeft(h), k)
        /\ i + j + k <= 2 * faults
  BY DEF Accounted
<1>2. i + 1 \in Nat /\ j + 1 \in Nat /\ k + 1 \in Nat
  OBVIOUS
<1>3. AtMost(LocalLeft(h)', j + 1)
  BY <1>1, OneFileAdded
<1>4. (i + 1) + (j + 1) + k <= 2 * faults' /\ i + (j + 1) + (k + 1) <= 2 * faults'
  BY <1>1, TwoEach
<1>5. CASE /\ StagedLeft(h)' \subseteq StagedLeft(h) \cup {x}
           /\ OutLeft(h)' \subseteq OutLeft(h)
  <2>1. AtMost(StagedLeft(h)', i + 1)
    BY <1>1, <1>5, OneFileAdded
  <2>2. AtMost(OutLeft(h)', k)
    BY <1>1, <1>5, FilesKept
  <2> QED
    BY <1>2, <1>3, <1>4, <2>1, <2>2 DEF Accounted
<1>6. CASE /\ StagedLeft(h)' \subseteq StagedLeft(h)
           /\ OutLeft(h)' \subseteq OutLeft(h) \cup {x}
  <2>1. AtMost(StagedLeft(h)', i)
    BY <1>1, <1>6, FilesKept
  <2>2. AtMost(OutLeft(h)', k + 1)
    BY <1>1, <1>6, OneFileAdded
  <2> QED
    BY <1>2, <1>3, <1>4, <2>1, <2>2 DEF Accounted
<1> QED
  BY <1>5, <1>6

\* Every step keeps the account: a call leaves files only on its own host, and two at most.
LEMMA NextFiles ==
  ASSUME ServicesInv, FilesInv, [Next]_vars
  PROVE  FilesInv'
<1>1. faults \in Nat /\ \A h \in Hosts : Accounted(h)
  BY ServicesAssumption DEF ServicesInv, TypeOK, FilesInv
<1>2. ASSUME NEW h \in Hosts, UNCHANGED acceptance, UNCHANGED host_files(h),
             faults' \in {faults, faults + 1}
      PROVE  Accounted(h)'
  BY <1>1, <1>2, SameLeft, NothingNew
<1>3. CASE \/ Tick \/ UNCHANGED vars
           \/ \E i \in Items, v \in Vals \cup {None} : UserPut(i, v)
  <2>1. UNCHANGED <<acceptance, faults, local, backup_vars, restore_vars>>
    BY <1>3 DEF Tick, UserPut, vars, env_vars
  <2>2. \A h \in Hosts : UNCHANGED host_files(h)
    BY <2>1 DEF host_files, backup_vars, restore_vars
  <2> QED
    BY <1>2, <2>1, <2>2 DEF FilesInv
<1>4. ASSUME NEW h \in Hosts, StartBackup(h) \/ BackupWork(h) \/ KillBackup(h)
      PROVE  FilesInv'
  <2>1. Accounted(h)'
    BY <1>1, <1>4, BackupFiles, NothingNew, OneInTwo
  <2>2. \A g \in Hosts \ {h} : Accounted(g)'
    BY <1>2, <1>4, BackupFiles
  <2> QED
    BY <2>1, <2>2 DEF FilesInv
<1>5. ASSUME NEW h \in Restorers,
             \/ \E n \in Objects : StartRestore(h, n)
             \/ RestoreWork(h) \/ KillRestore(h)
      PROVE  FilesInv'
  <2>1. h \in Hosts
    BY ServicesAssumption
  <2>2. Accounted(h)'
    BY <1>1, <1>5, <2>1, RestoreFiles, NothingNew, OneInTwo
  <2>3. \A g \in Hosts \ {h} : Accounted(g)'
    BY <1>2, <1>5, RestoreFiles
  <2> QED
    BY <2>2, <2>3 DEF FilesInv
<1> QED
  BY <1>3, <1>4, <1>5 DEF Next

\* When no call runs on a host, what it has is what calls have left, staging directories of
\* the seconds with several backups, and the archive that stays for the acceptance test.
LEMMA FilesAccounted ==
  ASSUME ServicesInv, FilesInv
  PROVE  FilesBounded
<1> SUFFICES ASSUME NEW h \in Hosts, bstep[h] \in Resting, rstep[h] \in Resting
             PROVE  Left(h) <= 2 * faults + Cardinality(again[h])
                                          + (IF acceptance THEN 1 ELSE 0)
  BY DEF FilesBounded
<1> DEFINE archives == {n \in LocalNames : local[h][n] # None}
<1>1. PICK i \in Nat, j \in Nat, k \in Nat :
        /\ AtMost(StagedLeft(h), i) /\ AtMost(LocalLeft(h), j) /\ AtMost(OutLeft(h), k)
        /\ i + j + k <= 2 * faults
  BY DEF FilesInv, Accounted
<1>2. faults \in Nat
  BY ServicesAssumption DEF ServicesInv, TypeOK
<1>3. staged[h] \subseteq StagedLeft(h) \cup again[h] /\ OutLeft(h) = out[h]
  BY DEF StagedLeft, OutLeft
<1>4. AtMost(archives, j + (IF acceptance THEN 1 ELSE 0))
  <2>1. CASE acceptance
    <3>1. archives \subseteq LocalLeft(h) \cup {Fixed}
      BY DEF LocalLeft, InUse
    <3> HIDE DEF archives
    <3> QED
      BY <1>1, <2>1, <3>1, OneFileAdded
  <2>2. CASE ~acceptance
    <3>1. archives = LocalLeft(h) /\ j + 0 = j
      BY <2>2 DEF LocalLeft, InUse
    <3> HIDE DEF archives
    <3> QED
      BY <1>1, <2>2, <3>1
  <2> QED
    BY <2>1, <2>2
<1> HIDE DEF archives
<1>5. AtMost(again[h], Cardinality(again[h])) /\ Cardinality(again[h]) \in Nat
  <2>1. again[h] \subseteq Time
    BY DEF ServicesInv, TypeOK
  <2>2. IsFiniteSet(Time)
    BY ServicesAssumption, FS_Interval DEF Time
  <2>3. IsFiniteSet(again[h])
    BY <2>1, <2>2, FS_Subset
  <2>4. Cardinality(again[h]) \in Nat
    BY <2>3, FS_CardinalityType
  <2> QED
    BY <2>3, <2>4 DEF AtMost
<1>6. AtMost(staged[h], i + Cardinality(again[h]))
  BY <1>1, <1>3, <1>5, FilesTogether
<1>7. /\ Cardinality(staged[h]) \in Nat
      /\ Cardinality(staged[h]) <= i + Cardinality(again[h])
      /\ Cardinality(out[h]) \in Nat /\ Cardinality(out[h]) <= k
      /\ Cardinality(archives) \in Nat
      /\ Cardinality(archives) <= j + (IF acceptance THEN 1 ELSE 0)
  BY <1>1, <1>3, <1>4, <1>6, FS_CardinalityType DEF AtMost
<1>8. Left(h) = Cardinality(staged[h]) + Cardinality(archives) + Cardinality(out[h])
  BY DEF Left, archives
<1> QED
  BY <1>1, <1>2, <1>5, <1>7, <1>8

\* The calls of a host leave two files for each fault at most, whatever runs beside them, and
\* one for each second in which it starts several backups: what no fault has left is removed
\* when the calls are over, even if they share their files.
THEOREM FilesAreBounded == Spec => []FilesBounded
<1>1. Init => ServicesInv /\ FilesInv
  BY InitServices, InitFiles
<1>2. (ServicesInv /\ FilesInv) /\ [Next]_vars => (ServicesInv /\ FilesInv)'
  BY NextServices, NextFiles
<1>3. ServicesInv /\ FilesInv => FilesBounded
  BY FilesAccounted
<1> QED
  BY <1>1, <1>2, <1>3, PTL DEF Spec

-----------------------------------------------------------------------------
(* What a restore owes its caller, when one host restores and users pause. *)

\* Host h holds an archive to restore, or goes on after no error.
Restoring(h) == rstep[h] = "load" \/ (rstep[h] \in {"put", "cleanup"} /\ ~failed[h])

\* The downloaded archive is the object that was asked for, unless a backup of the same
\* object has removed it, and what was unpacked is that object, if no other backup of its
\* second can replace it; and the items of the tables that were read are in consul once
\* they have been put.
CompleteInv ==
  \A h \in Restorers :
    /\ Once(rname[h]) /\ rstep[h] = "extract" /\ ~acceptance =>
         local[h][rname[h]] \in {store[DownloadBucket][rname[h]], None}
    /\ Once(rname[h]) /\ Restoring(h) => got[h] = Asked(h)
    /\ rstep[h] \in {"put", "cleanup"} /\ ~failed[h] =>
         /\ \A i \in ItemsIn(got[h], loaded[h]) \ todo[h] : consul[i] = got[h].snap.data[i]
         /\ rstep[h] = "cleanup" => todo[h] = {}

\* An object that is in the bucket does not change if it is the only one of its second: its
\* name is stored once, and what works on it while it is not stored is its backup.
LEMMA ObjectsStay ==
  ASSUME ServicesInv, NEW g \in Hosts, BackupWork(g), NEW m \in Objects, Once(m),
         store[DownloadBucket][m] # None
  PROVE  /\ store'[DownloadBucket][m] = store[DownloadBucket][m]
         /\ ~acceptance => \A h \in Hosts : local'[h][m] \in {local[h][m], None}
<1>1. /\ local \in [Hosts -> [LocalNames -> Archives \cup {None, Torn}]]
      /\ store \in [Buckets -> [Objects -> Archives \cup {None, Torn}]]
      /\ m \in LocalNames
  BY DEF ServicesInv, TypeOK, LocalNames
<1>2. bstep[g] \in Uploading => m # <<g, start[g]>>
  <2> SUFFICES ASSUME bstep[g] \in Uploading, m = <<g, start[g]>> PROVE FALSE
    OBVIOUS
  <2>1. start[g] \in Time /\ m \in Names
    BY TarType DEF ServicesInv, Uploading
  <2>2. start[g] \notin again[g]
    BY <2>1 DEF Once
  <2> QED
    BY <2>1, <2>2, OneBucket DEF ServicesInv, NotStored
<1>3. CASE (\E t \in Tables : List(g, t)) \/ WriteLocalFiles(g)
  BY <1>1, <1>3 DEF List, WriteLocalFiles
<1>4. CASE CreateArchive(g) \/ FillArchive(g)
  <2>1. bstep[g] \in Uploading /\ bstep[g] # "rest"
    BY <1>4 DEF CreateArchive, FillArchive, Uploading
  <2>2. Tar(g) \in LocalNames /\ (~acceptance => Tar(g) = <<g, start[g]>>)
    BY <2>1, TarType DEF ServicesInv
  <2>3. UNCHANGED store /\ (UNCHANGED local \/ \E c : SetLocal(g, Tar(g), c))
    BY <1>4 DEF CreateArchive, FillArchive
  <2> QED
    BY <1>1, <1>2, <2>1, <2>2, <2>3 DEF SetLocal
<1>5. CASE UploadBackup(g)
  <2>1. bstep[g] \in Uploading /\ UNCHANGED local
    BY <1>5 DEF UploadBackup, Uploading
  <2>2. UNCHANGED store \/ \E c : StorageUpload(<<g, start[g]>>, c)
    BY <1>5 DEF UploadBackup
  <2>3. store'[DownloadBucket][m] = store[DownloadBucket][m]
    BY <1>1, <1>2, <2>1, <2>2, OneBucket DEF StorageUpload
  <2> QED
    BY <2>1, <2>3
<1>6. CASE CleanupBackup(g)
  <2>1. bstep[g] # "rest" /\ UNCHANGED store
    BY <1>6 DEF CleanupBackup
  <2>2. Tar(g) \in LocalNames
    BY <2>1, TarType DEF ServicesInv
  <2>3. UNCHANGED local \/ SetLocal(g, Tar(g), None)
    BY <1>6 DEF CleanupBackup
  <2> QED
    BY <1>1, <2>1, <2>2, <2>3 DEF SetLocal
<1> QED
  BY <1>3, <1>4, <1>5, <1>6 DEF BackupWork

\* A backup takes nothing from a restore of another second that is past its download.
LEMMA BackupKeepsComplete ==
  ASSUME ServicesInv, CompleteInv, NEW g \in Hosts,
         StartBackup(g) \/ BackupWork(g) \/ KillBackup(g)
  PROVE  CompleteInv'
<1>1. UNCHANGED <<consul, acceptance, restore_vars>>
  BY DEF StartBackup, Begin, BackupWork, KillBackup, List, WriteLocalFiles, CreateArchive,
         FillArchive, UploadBackup, CleanupBackup, env_vars
<1>2. UNCHANGED <<rstep, rname, got, loaded, todo, failed>>
  BY <1>1 DEF restore_vars
<1> DEFINE Same(h) == Once(rname[h])'  \* h restores an object that stays alone in its second
<1>3. ASSUME NEW h \in Restorers, Same(h)
      PROVE  Once(rname[h])
  <2>1. CASE StartBackup(g)
    BY <1>2, <1>3, <2>1 DEF StartBackup, Begin, ServicesInv, TypeOK, Once, Names
  <2>2. CASE BackupWork(g) \/ KillBackup(g)
    <3>1. UNCHANGED again
      BY <2>2 DEF BackupWork, KillBackup, List, WriteLocalFiles, CreateArchive, FillArchive,
                  UploadBackup, CleanupBackup
    <3> QED
      BY <1>2, <1>3, <3>1 DEF Once
  <2> QED
    BY <2>1, <2>2
<1> HIDE DEF Same
<1>4. ASSUME NEW h \in Restorers, Same(h), rstep[h] \notin Resting, ~acceptance
      PROVE  /\ store'[DownloadBucket][rname[h]] = store[DownloadBucket][rname[h]]
             /\ local'[h][rname[h]] \in {local[h][rname[h]], None}
  <2>1. /\ h \in Hosts /\ rname[h] \in Objects
        /\ store[DownloadBucket][rname[h]] # None
    BY <1>4, ServicesAssumption DEF ServicesInv, Found
  <2>2. CASE StartBackup(g) \/ KillBackup(g)
    BY <2>2 DEF StartBackup, Begin, KillBackup
  <2>3. CASE BackupWork(g)
    BY <1>3, <1>4, <2>1, <2>3, ObjectsStay
  <2> QED
    BY <2>2, <2>3
<1> SUFFICES ASSUME NEW h \in Restorers, rstep[h] \notin Resting
             PROVE  /\ Same(h) /\ rstep[h] = "extract" /\ ~acceptance =>
                         local'[h][rname[h]] \in {store'[DownloadBucket][rname[h]], None}
                    /\ Same(h) /\ Restoring(h) => got[h] = Asked(h)'
                    /\ rstep[h] \in {"put", "cleanup"} /\ ~failed[h] =>
                         /\ \A i \in ItemsIn(got[h], loaded[h]) \ todo[h] :
                              consul[i] = got[h].snap.data[i]
                         /\ rstep[h] = "cleanup" => todo[h] = {}
  <2>1. \A h \in Restorers : rstep[h] \in Resting =>
          ~Restoring(h) /\ rstep[h] \notin {"extract", "put", "cleanup"}
    BY DEF Restoring, Resting
  <2>2. \A h \in Restorers : /\ Restoring(h)' = Restoring(h)
                            /\ ItemsIn(got[h], loaded[h])' = ItemsIn(got[h], loaded[h])
    BY <1>2 DEF Restoring, ItemsIn
  <2> QED
    BY <1>1, <1>2, <2>1, <2>2 DEF CompleteInv, Same
<1>5. Same(h) => Asked(h)' = Asked(h)
  BY <1>1, <1>2, <1>4 DEF Asked
<1> QED
  BY <1>3, <1>4, <1>5 DEF CompleteInv

\* The only restore there is keeps to the object, and takes an item from its list only when
\* consul has it, or to fail.
LEMMA RestoreKeepsComplete ==
  ASSUME ServicesInv, CompleteInv, NEW h \in Restorers, \A g \in Restorers : g = h,
         \/ \E n \in Objects : StartRestore(h, n)
         \/ RestoreWork(h) \/ KillRestore(h)
  PROVE  CompleteInv'
<1>1. /\ h \in Hosts
      /\ rstep \in [Hosts -> RestoreSteps] /\ rname \in [Hosts -> LocalNames \cup {None}]
      /\ got \in [Hosts -> Archives \cup {None}] /\ failed \in [Hosts -> BOOLEAN]
      /\ loaded \in [Hosts -> SUBSET Tables] /\ todo \in [Hosts -> SUBSET Items]
      /\ local \in [Hosts -> [LocalNames -> Archives \cup {None, Torn}]]
      /\ consul \in Table
  BY ServicesAssumption DEF ServicesInv, TypeOK
<1>2. UNCHANGED <<acceptance, store, again>>
  BY DEF StartRestore, RestoreWork, KillRestore, ExtractBackup, Load, Put, FinishPuts,
         CleanupRestore, env_vars, backup_vars
<1> DEFINE Held  == Once(rname'[h]) => got'[h] = Asked(h)'
           Items0 == ItemsIn(got'[h], loaded'[h]) \ todo'[h]
           Done  == \A i \in Items0 : consul'[i] = got'[h].snap.data[i]
<1> SUFFICES /\ Once(rname'[h]) /\ rstep'[h] = "extract" /\ ~acceptance =>
                  local'[h][rname'[h]] \in {store[DownloadBucket][rname'[h]], None}
             /\ Restoring(h)' => Held
             /\ rstep'[h] \in {"put", "cleanup"} /\ ~failed'[h] =>
                  Done /\ (rstep'[h] = "cleanup" => todo'[h] = {})
  <2>1. Once(rname[h])' => Once(rname'[h])
    BY <1>2 DEF Once
  <2> QED
    BY <1>2, <2>1 DEF CompleteInv, ItemsIn
<1>3. ASSUME rstep'[h] \in Resting \/ (rstep'[h] = "cleanup" /\ failed'[h])
      PROVE  rstep'[h] \notin {"extract", "load", "put"} /\ ~Restoring(h)'
  BY <1>3 DEF Restoring, Resting
<1>4. ASSUME NEW n \in Objects, StartRestore(h, n)
      PROVE  rstep'[h] = "error" \/
             /\ rstep'[h] = "extract" /\ ~Restoring(h)'
             /\ ~acceptance => local'[h][rname'[h]] = store[DownloadBucket][rname'[h]]
  <2>1. rname'[h] = LocalName(n) /\ n \in LocalNames
    BY <1>1, <1>4 DEF StartRestore, LocalNames
  <2>2. CASE RestoreTo(h, "error")
    BY <1>1, <2>2 DEF RestoreTo
  <2>3. CASE RestoreTo(h, "extract")
    <3>1. rstep'[h] = "extract" /\ rstep'[h] # "error"
      BY <1>1, <2>3 DEF RestoreTo
    <3>2. acceptance \/ SetLocal(h, n, store[DownloadBucket][n])
      BY <1>1, <1>4, <3>1 DEF StartRestore, RestoreTo, StorageDownload
    <3> QED
      BY <1>1, <2>1, <3>1, <3>2 DEF SetLocal, LocalName, Restoring
  <2> QED
    BY <1>4, <2>2, <2>3 DEF StartRestore
<1>5. CASE ExtractBackup(h)
  <2>1. rstep[h] = "extract" /\ UNCHANGED <<local, rname>> /\ rname[h] \in LocalNames
    BY <1>1, <1>5 DEF ExtractBackup, ServicesInv, Found, Resting
  <2>2. CASE RestoreError(h)
    BY <1>1, <1>3, <2>2 DEF RestoreError, RestoreTo
  <2>3. CASE Unpacks(h) /\ got' = [got EXCEPT ![h] = local[h][rname[h]]] /\ RestoreTo(h, "load")
    <3>1. got'[h] = local[h][rname[h]] /\ rstep'[h] = "load" /\ got'[h] # None
      BY <1>1, <2>3, ServicesAssumption DEF RestoreTo, Unpacks
    <3>2. Once(rname[h]) /\ ~acceptance => got'[h] = store[DownloadBucket][rname[h]]
      BY <2>1, <3>1 DEF CompleteInv
    <3>3. Held
      BY <1>2, <2>1, <3>2 DEF Asked
    <3> QED
      BY <3>1, <3>3
  <2> QED
    BY <1>5, <2>2, <2>3 DEF ExtractBackup
<1>6. CASE Load(h)
  <2>1. rstep[h] = "load" /\ UNCHANGED <<got, rname>>
    BY <1>6 DEF Load
  <2>2. CASE RestoreError(h)
    BY <1>1, <1>3, <2>2 DEF RestoreError, RestoreTo
  <2>3. ASSUME RestoreTo(h, "put"), NEW tables \in SUBSET Tables,
               loaded' = [loaded EXCEPT ![h] = tables],
               todo'   = [todo   EXCEPT ![h] = ItemsIn(got[h], tables)]
        PROVE  rstep'[h] = "put" /\ Held /\ Done
    <3>1. rstep'[h] = "put" /\ loaded'[h] = tables
      BY <1>1, <2>3 DEF RestoreTo
    <3>2. todo'[h] = ItemsIn(got[h], tables)
      BY <1>1, <2>3
    <3>3. Done
      BY <2>1, <3>1, <3>2
    <3>4. Held
      BY <1>2, <2>1 DEF CompleteInv, Restoring, Asked
    <3> QED
      BY <3>1, <3>3, <3>4
  <2> QED
    BY <1>6, <2>2, <2>3 DEF Load
<1>7. ASSUME NEW i \in Items, Put(h, i)
      PROVE  rstep'[h] = "put" /\ (~failed'[h] => Held /\ Done)
  <2>1. rstep[h] = "put" /\ UNCHANGED <<rstep, rname, got, loaded>>
    BY <1>7 DEF Put
  <2>2. CASE failed' = [failed EXCEPT ![h] = TRUE]
    BY <1>1, <2>1, <2>2
  <2>3. CASE /\ consul' = [consul EXCEPT ![i] = got[h].snap.data[i]]
             /\ todo' = [todo EXCEPT ![h] = @ \ {i}] /\ UNCHANGED failed
    <3> SUFFICES ASSUME ~failed[h] PROVE Held /\ Done
      BY <2>1, <2>3
    <3>1. Held
      BY <1>2, <2>1 DEF CompleteInv, Restoring, Asked
    <3>2. \A j \in ItemsIn(got[h], loaded[h]) \ todo[h] : consul[j] = got[h].snap.data[j]
      BY <2>1 DEF CompleteInv
    <3>3. ItemsIn(got[h], loaded[h]) \subseteq Items
      BY DEF ItemsIn
    <3>4. /\ consul'[i] = got[h].snap.data[i]
          /\ \A j \in Items \ {i} : consul'[j] = consul[j]
      BY <1>1, <2>3 DEF Table
    <3>5. todo'[h] = todo[h] \ {i}
      BY <1>1, <2>3
    <3>6. Done
      BY <2>1, <3>2, <3>3, <3>4, <3>5
    <3> QED
      BY <3>1, <3>6
  <2> QED
    BY <1>7, <2>2, <2>3 DEF Put
<1>8. CASE FinishPuts(h)
  <2>1. /\ rstep[h] = "put" /\ rstep'[h] = "cleanup" /\ todo'[h] = {}
        /\ UNCHANGED <<consul, rname, got, loaded, todo, failed>>
    BY <1>1, <1>8 DEF FinishPuts, RestoreTo, env_vars
  <2>2. ~failed[h] => Held /\ Done
    BY <1>2, <2>1 DEF CompleteInv, Restoring, Asked
  <2> QED
    BY <2>1, <2>2 DEF Restoring
<1>9. CASE CleanupRestore(h) \/ KillRestore(h)
  <2>1. RestoreTo(h, "ok") \/ RestoreTo(h, "error")
    BY <1>9 DEF CleanupRestore, KillRestore
  <2> QED
    BY <1>1, <1>3, <2>1 DEF RestoreTo, Resting
<1> HIDE DEF Held, Done
<1>10. CASE \E n \in Objects : StartRestore(h, n)
  BY <1>3, <1>4, <1>10 DEF Resting
<1>11. CASE \E i \in Items : Put(h, i)
  BY <1>7, <1>11 DEF Restoring
<1> QED
  BY <1>5, <1>6, <1>8, <1>9, <1>10, <1>11 DEF RestoreWork

\* While users pause, every step keeps what a restore owes.
LEMMA NextComplete ==
  ASSUME UsersPause, \A g, h \in Restorers : g = h, ServicesInv, CompleteInv, [Next]_vars
  PROVE  CompleteInv'
<1>1. CASE Tick \/ UNCHANGED vars
  <2>1. UNCHANGED <<acceptance, consul, store, local, again, rstep, rname, got, loaded, todo, failed>>
    BY <1>1 DEF Tick, vars, env_vars, backup_vars, restore_vars
  <2> QED
    BY <2>1 DEF CompleteInv, Restoring, Asked, ItemsIn, Once
<1>2. ASSUME NEW i \in Items, NEW v \in Vals \cup {None}, UserPut(i, v)
      PROVE  CompleteInv'
  <2>1. \A h \in Restorers : rstep'[h] \in Resting
    BY <1>2, ServicesAssumption DEF UserPut, restore_vars
  <2> QED
    BY <2>1 DEF CompleteInv, Restoring, Resting
<1>3. ASSUME NEW g \in Hosts, StartBackup(g) \/ BackupWork(g) \/ KillBackup(g)
      PROVE  CompleteInv'
  BY <1>3, BackupKeepsComplete
<1>4. ASSUME NEW h \in Restorers,
             \/ \E n \in Objects : StartRestore(h, n)
             \/ RestoreWork(h) \/ KillRestore(h)
      PROVE  CompleteInv'
  BY <1>4, RestoreKeepsComplete
<1> QED
  BY <1>1, <1>2, <1>3, <1>4 DEF Next

\* A restore that is about to return nil has put back every item of the tables it has read,
\* with the value it has in the object that was asked for, if it is the only restore, users
\* pause, and the object is the only one of its second.
THEOREM RestoreIsComplete ==
  ASSUME UsersPause, \A g, h \in Restorers : g = h
  PROVE  Spec => []RestoreComplete
<1>1. Init => ServicesInv /\ CompleteInv
  <2>1. Init => CompleteInv
    BY ServicesAssumption DEF Init, CompleteInv, Restoring
  <2> QED
    BY <2>1, InitServices
<1>2. (ServicesInv /\ CompleteInv) /\ [Next]_vars => (ServicesInv /\ CompleteInv)'
  BY NextServices, NextComplete
<1>3. CompleteInv => RestoreComplete
  BY DEF CompleteInv, RestoreComplete, Restoring
<1> QED
  BY <1>1, <1>2, <1>3, PTL DEF Spec

-----------------------------------------------------------------------------
(* The abstract store.                                                     *)

\* Steps that change neither a bucket nor a backup's step leave the store as it is.
LEMMA StoreStutters ==
  ASSUME UNCHANGED <<acceptance, store, bstep, start, again>>
  PROVE  UNCHANGED <<Kept, Answers, again>>
  BY DEF Kept, Answers

\* What the answers become when one host's backup goes on.
LEMMA AnswersOf ==
  ASSUME TypeOK, NEW h \in Hosts, NEW step \in BackupSteps, BackupTo(h, step),
         UNCHANGED <<acceptance, start>>
  PROVE  Answers' = [Answers EXCEPT ![h] =
                       IF step = "ok" /\ ~acceptance THEN start[h] ELSE None]
  BY DEF TypeOK, BackupTo, Answers

\* The start of a backup asks, in a second of its own or again in that of the last one.
LEMMA StartIsAsk ==
  ASSUME ServicesInv, NEW h \in Hosts, StartBackup(h)
  PROVE  Store!StoreNext
<1>1. UNCHANGED Kept
  BY DEF StartBackup, Begin, Kept
<1>2. Answers' = [Answers EXCEPT ![h] = None]
  BY DEF ServicesInv, TypeOK, StartBackup, Begin, BackupTo, Answers, env_vars
<1>3. CASE start[h] = now
  <2>1. now \in Time /\ again' = [again EXCEPT ![h] = @ \cup {now}]
    BY <1>3 DEF StartBackup, Begin, ServicesInv, TypeOK
  <2>2. \A s \in Time : Kept[<<h, s>>] # None => s <= now
    <3> SUFFICES ASSUME NEW s \in Time, Kept[<<h, s>>] # None PROVE s <= now
      OBVIOUS
    <3>1. store[DownloadBucket][<<h, s>>] # None
      BY DEF Kept, Names
    <3> QED
      BY <1>3, <3>1, OneBucket DEF ServicesInv, NotStored
  <2>3. Store!AskAgain(h, now)
    BY <1>1, <1>2, <2>1, <2>2 DEF Store!AskAgain
  <2> QED
    BY <2>1, <2>3 DEF Store!StoreNext
<1>4. CASE start[h] # now
  <2>1. UNCHANGED again
    BY <1>4 DEF StartBackup, Begin
  <2> QED
    BY <1>1, <1>2, <2>1 DEF Store!StoreNext, Store!Ask
<1> QED
  BY <1>3, <1>4

\* An upload that takes effect keeps a backup under a new name, or replaces the object of
\* another one of its second.
LEMMA UploadIsKeep ==
  ASSUME ServicesInv, NEW h \in Hosts, UploadBackup(h)
  PROVE  Store!StoreNext \/ UNCHANGED <<Kept, Answers, again>>
<1> DEFINE n == <<h, start[h]>>
           a == [snap |-> client[h], root |-> AtRoot]
<1>1. bstep[h] = "upload" /\ UNCHANGED <<acceptance, start, again, client, local>>
  BY DEF UploadBackup, env_vars
<1>2. start[h] \in Time /\ n \in Names /\ n \in Objects /\ (~acceptance => Tar(h) = n)
  BY <1>1, TarType DEF ServicesInv
<1>3. PICK step \in {"cleanup", "error"} : BackupTo(h, step)
  BY DEF UploadBackup, BackupError
<1>4. UNCHANGED Answers
  BY <1>1, <1>3 DEF ServicesInv, TypeOK, BackupTo, Answers
<1>5. CASE UNCHANGED store
  BY <1>1, <1>4, <1>5 DEF Kept
<1>6. ASSUME ~acceptance, local[h][Tar(h)] # None,
             NEW content \in ReadBack(h), StorageUpload(n, content)
      PROVE  Store!StoreNext
  <2>1. content # None /\ (~Shared(h, start[h]) => content = a)
    BY <1>1, <1>6, UploadedContent
  <2>2. a \in ReadFrom[start[h]]
    <3>1. \A t \in Tables : a.snap.at[t] # None /\ a.snap.at[t] >= start[h]
      BY <1>1 DEF ServicesInv, ListedSince, Since, Uploading, Listed
    <3>2. a \in Archives
      BY ServicesAssumption DEF ServicesInv, TypeOK, Archives
    <3> HIDE DEF a
    <3> QED
      BY <1>2, <3>1, <3>2 DEF ReadFrom
  <2> HIDE DEF a
  <2>3. Kept' = [Kept EXCEPT ![n] = content]
    <3>1. \A m \in Names : store'[DownloadBucket][m] = IF m = n THEN content
                                                    ELSE store[DownloadBucket][m]
      BY <1>2, <1>6, OneBucket DEF StorageUpload, ServicesInv, TypeOK, Objects
    <3> QED
      BY <1>2, <3>1 DEF Kept
  <2>4. Kept'[n] = content
    BY <1>2, <2>3 DEF Kept
  <2>5. \A s \in Time : Kept[<<h, s>>] # None =>
                          s <= start[h] /\ (s = start[h] => start[h] \in again[h])
    <3> SUFFICES ASSUME NEW s \in Time, Kept[<<h, s>>] # None
                 PROVE  s <= start[h] /\ (s = start[h] => start[h] \in again[h])
      OBVIOUS
    <3>1. store[DownloadBucket][<<h, s>>] # None
      BY DEF Kept, Names
    <3> QED
      BY <1>1, <3>1, OneBucket DEF ServicesInv, NotStored, Uploading
  <2>6. CASE start[h] \in again[h]
    <3>1. h \notin Restorers => Kept'[n] \in ReadFrom[start[h]]
      BY <2>1, <2>2, <2>4 DEF Shared
    <3>2. Store!Replace(h, start[h])
      BY <1>1, <1>4, <2>1, <2>3, <2>4, <2>5, <2>6, <3>1 DEF Store!Replace
    <3> QED
      BY <1>2, <3>2 DEF Store!StoreNext
  <2>7. CASE start[h] \notin again[h]
    <3>1. Kept'[n] \in ReadFrom[start[h]]
      BY <2>1, <2>2, <2>4, <2>7 DEF Shared
    <3>2. \A s \in Time : Kept[<<h, s>>] # None => s < start[h]
      BY <1>2, <2>5, <2>7 DEF Time
    <3>3. Store!Keep(h, start[h])
      BY <1>1, <1>4, <2>3, <2>4, <2>7, <3>1, <3>2 DEF Store!Keep
    <3> QED
      BY <1>2, <3>3 DEF Store!StoreNext
  <2> QED
    BY <2>6, <2>7
<1> QED
  BY <1>5, <1>6 DEF UploadBackup

\* The end of a backup reports one that is there.
LEMMA CleanupIsReport ==
  ASSUME ServicesInv, NEW h \in Hosts, CleanupBackup(h)
  PROVE  Store!StoreNext \/ UNCHANGED <<Kept, Answers, again>>
<1>1. /\ bstep[h] = "cleanup" /\ "ok" \in BackupSteps /\ BackupTo(h, "ok")
      /\ UNCHANGED <<acceptance, start, again, store>>
  BY DEF CleanupBackup, env_vars, BackupSteps, Resting
<1>2. UNCHANGED Kept
  BY <1>1 DEF Kept
<1>3. Answers' = [Answers EXCEPT ![h] = IF ~acceptance THEN start[h] ELSE None]
  BY <1>1, AnswersOf DEF ServicesInv
<1>4. CASE acceptance
  BY <1>1, <1>2, <1>3, <1>4 DEF Store!StoreNext, Store!Ask
<1>5. CASE ~acceptance
  <2>1. start[h] \in Time /\ <<h, start[h]>> \in Names
    BY <1>1, TarType DEF ServicesInv
  <2>2. Kept[<<h, start[h]>>] # None
    BY <1>1, <1>5, <2>1, OneBucket DEF Kept, ServicesInv, Delivered
  <2> QED
    BY <1>1, <1>2, <1>3, <1>5, <2>1, <2>2 DEF Store!StoreNext, Store!Report
<1> QED
  BY <1>4, <1>5

\* A step of the services is a step of the store or leaves it as it is.
LEMMA StepIsStoreStep ==
  ASSUME ServicesInv, [Next]_vars
  PROVE  Store!StoreNext \/ UNCHANGED <<Kept, Answers, again>>
<1>1. TypeOK /\ bstep \in [Hosts -> BackupSteps]
  BY DEF ServicesInv, TypeOK
<1>2. CASE UNCHANGED <<acceptance, store, bstep, start, again>>
  BY <1>2, StoreStutters
<1>3. ASSUME NEW h \in Hosts, BackupWork(h) \/ KillBackup(h),
             ~UploadBackup(h), ~CleanupBackup(h)
      PROVE  UNCHANGED <<Kept, Answers, again>>
  <2>1. UNCHANGED <<acceptance, store, start, again>> /\ bstep[h] # "ok"
    BY <1>3 DEF BackupWork, KillBackup, List, WriteLocalFiles, CreateArchive, FillArchive,
                env_vars, Tables, Resting
  <2>2. \E step \in BackupSteps \ {"ok"} : BackupTo(h, step)
    <3>1. \A t \in Tables : AfterList[t] \in BackupSteps \ {"ok"}
      BY DEF AfterList, Tables, BackupSteps, Resting
    <3>2. {"create", "archive", "upload", "error"} \subseteq BackupSteps \ {"ok"}
      BY DEF BackupSteps, Resting
    <3> QED
      BY <1>3, <3>1, <3>2 DEF BackupWork, KillBackup, List, WriteLocalFiles, CreateArchive,
                              FillArchive, BackupError
  <2> QED
    BY <1>1, <2>1, <2>2 DEF Kept, Answers, BackupTo
<1>4. ASSUME NEW h \in Restorers,
             \/ \E n \in Objects : StartRestore(h, n)
             \/ RestoreWork(h) \/ KillRestore(h)
      PROVE  UNCHANGED <<acceptance, store, bstep, start, again>>
  BY <1>4 DEF StartRestore, RestoreWork, KillRestore, ExtractBackup, Load, Put, FinishPuts,
              CleanupRestore, env_vars, backup_vars
<1>5. CASE \/ Tick \/ UNCHANGED vars
           \/ \E i \in Items, v \in Vals \cup {None} : UserPut(i, v)
  BY <1>2, <1>5 DEF Tick, UserPut, vars, env_vars, backup_vars
<1> QED
  BY <1>2, <1>3, <1>4, <1>5, StartIsAsk, UploadIsKeep, CleanupIsReport DEF Next, BackupWork

\* Whatever fails, and though the backups and restores of a host share its local files and
\* the backups of a second their names: no object is ever removed, or replaced but by another
\* backup of its host and second; each was read at or after that second, unless it is of
\* several in one second of a host that restores too; and no caller is told of a backup that
\* is not there.
THEOREM ServicesImplementStore == Spec => ImplementsStore
<1>1. Init => Store!StoreInit
  <2> SUFFICES ASSUME Init PROVE Store!StoreInit
    OBVIOUS
  <2>1. \A n \in Names : store[DownloadBucket][n] = None
    BY OneBucket, ServicesAssumption DEF Init, Objects
  <2>2. Kept = [n \in Hosts \X Time |-> None]
    BY <2>1 DEF Kept, Names
  <2>3. Answers = [h \in Hosts |-> None] /\ again = [h \in Hosts |-> {}]
    BY DEF Init, Answers
  <2> QED
    BY <2>2, <2>3 DEF Store!StoreInit
<1>2. ServicesInv /\ [Next]_vars => [Store!StoreNext]_<<Kept, Answers, again>>
  BY StepIsStoreStep
<1> QED
  BY InitServices, NextServices, <1>1, <1>2, PTL DEF Spec, ImplementsStore, Store!StoreSpec
=============================================================================
