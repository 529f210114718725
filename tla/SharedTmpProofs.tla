--------------------------- MODULE SharedTmpProofs ---------------------------
(***************************************************************************)
(* Proofs about SharedTmp, for any number of processes and any bound.      *)
(***************************************************************************)
EXTENDS SharedTmp, TLAPS

-----------------------------------------------------------------------------
(* Type correctness.                                                       *)

\* What the constants are not.
LEMMA Apartness ==
  /\ 0 \in Time /\ Time \subseteq Nat /\ None \notin Time /\ None \notin Procs
  /\ None # Empty /\ None # Torn /\ Empty # Torn
  /\ None \notin Snapshots /\ Empty \notin Snapshots /\ Torn \notin Snapshots
  BY SharedTmpAssumption DEF Time

\* A process that is in a round has a start second.
Started == \A p \in Procs : pc[p] # "rest" => start[p] # None

\* A process that writes its files has listed.
HasListed == \A p \in Procs : pc[p] \notin {"rest", "list"} => data[p] # None

\* A process that writes its archive has it open.
HasOpen == \A p \in Procs : pc[p] = "archive" => inode[p] # None

\* An archive that has a name, or is open, was created, and is never empty of a state.
Created ==
  /\ \A s \in Time : tar[s] # None => bytes[s][tar[s]] # None
  /\ \A p \in Procs : pc[p] = "archive" => bytes[start[p]][inode[p]] # None

\* An acknowledged object is stored.
Stored ==
  /\ \A p \in Procs : pc[p] = "ack" => bucket[start[p]] # None
  /\ key # None => bucket[key] # None

BaseInv == TypeOK /\ Started /\ HasListed /\ HasOpen /\ Created /\ Stored

\* The initial states have their types, and nothing runs.
LEMMA InitBase == Init => BaseInv
<1> SUFFICES ASSUME Init PROVE BaseInv
  OBVIOUS
<1> USE DEF Init
<1>1. file \in [Time -> Snapshots]
  BY DEF Snapshots, Contents
<1>2. TypeOK
  BY <1>1, Apartness DEF TypeOK, Steps, Tables
<1> QED
  BY <1>2 DEF BaseInv, Started, HasListed, HasOpen, Created, Stored

\* A process goes to another step.
LEMMA GoToType ==
  ASSUME TypeOK, NEW p \in Procs, NEW step \in Steps, GoTo(p, step)
  PROVE  /\ pc' \in [Procs -> Steps] /\ pc'[p] = step
         /\ \A q \in Procs \ {p} : pc'[q] = pc[q]
  BY DEF TypeOK, GoTo

\* A file is given contents.
LEMMA FileType ==
  ASSUME TypeOK, NEW s \in Time, NEW t \in Tables, NEW c \in Contents,
         file' = [file EXCEPT ![s][t] = c]
  PROVE  /\ file' \in [Time -> Snapshots] /\ file'[s][t] = c
         /\ \A r \in Time, u \in Tables : r # s \/ u # t => file'[r][u] = file[r][u]
  BY DEF TypeOK, Snapshots

\* An archive is given contents.
LEMMA BytesType ==
  ASSUME TypeOK, NEW s \in Time, NEW i \in Procs,
         NEW c \in Snapshots \cup {None, Empty, Torn},
         bytes' = [bytes EXCEPT ![s][i] = c]
  PROVE  /\ bytes' \in [Time -> [Procs -> Snapshots \cup {None, Empty, Torn}]]
         /\ bytes'[s][i] = c
         /\ \A r \in Time, j \in Procs : r # s \/ j # i => bytes'[r][j] = bytes[r][j]
  BY DEF TypeOK

\* Before the archive: the steps keep the invariant.
LEMMA FilesBase ==
  ASSUME BaseInv, NEW p \in Procs,
         Start(p) \/ List(p) \/ MkDir(p) \/ Open(p) \/ Write(p) \/ Sum(p)
  PROVE  BaseInv'
<1> USE DEF BaseInv, disk_vars
<1>1. UNCHANGED <<now, inode, tar, bytes, bucket, key>>
  BY DEF Start, List, MkDir, Open, Write, Sum
<1>2. {"list", "mkdir", "open", "write", "sum", "remove", "rest"} \subseteq Steps
  BY DEF Steps
<1>3. PICK step \in {"list", "mkdir", "open", "write", "sum", "remove", "rest"} : GoTo(p, step)
  BY DEF Start, List, MkDir, Open, Write, Sum, Die
<1>4. /\ pc' \in [Procs -> Steps] /\ pc'[p] = step
      /\ \A q \in Procs \ {p} : pc'[q] = pc[q]
  BY <1>2, <1>3, GoToType
<1>5. /\ start' \in [Procs -> Time \cup {None}]
      /\ \A q \in Procs \ {p} : start'[q] = start[q]
      /\ start'[p] # None
  BY Apartness DEF Start, List, MkDir, Open, Write, Sum, Started, TypeOK
<1>6. /\ data' \in [Procs -> Time \cup {None}]
      /\ \A q \in Procs \ {p} : data'[q] = data[q]
      /\ step \notin {"rest", "list"} => data'[p] # None
  <2>1. CASE List(p)
    BY <2>1, Apartness DEF List, TypeOK
  <2>2. CASE Start(p)
    BY <1>4, <2>2 DEF Start, GoTo, TypeOK
  <2>3. CASE MkDir(p) \/ Open(p) \/ Write(p) \/ Sum(p)
    BY <2>3 DEF MkDir, Open, Write, Sum, HasListed, TypeOK
  <2> QED
    BY <2>1, <2>2, <2>3
<1>7. start[p] \in Time \/ Start(p)
  BY DEF List, MkDir, Open, Write, Sum, Started, TypeOK
<1>8. file' \in [Time -> Snapshots]
  <2>1. CASE UNCHANGED file
    BY <2>1 DEF TypeOK
  <2>2. CASE Open(p) /\ file' = [file EXCEPT ![Dir(p)][table[p]] = Empty]
    BY <1>7, <2>2, FileType DEF Open, Start, Dir, TypeOK, Contents
  <2>3. CASE Write(p)
    <3>1. PICK new \in Contents : file' = [file EXCEPT ![Dir(p)][table[p]] = new]
      BY <2>3 DEF Write, Written, HasListed, TypeOK, Contents
    <3> QED
      BY <1>7, <2>3, <3>1, FileType DEF Write, Start, Dir, TypeOK
  <2> QED
    BY <2>1, <2>2, <2>3 DEF Start, List, MkDir, Open, Sum
<1>9. dirs' \subseteq Time /\ table' \in [Procs -> Tables]
  <2>1. dirs' \subseteq Time
    BY <1>7 DEF Start, List, MkDir, Open, Write, Sum, Dir, TypeOK
  <2>2. \A t \in Tables \ {"acl"} : AfterTable[t] \in Tables
    BY DEF AfterTable, Tables
  <2>3. CASE Sum(p)
    <3>1. UNCHANGED table \/ table' = [table EXCEPT ![p] = AfterTable[table[p]]]
      BY <2>3 DEF Sum
    <3>2. table[p] # "acl" => AfterTable[table[p]] \in Tables
      BY <2>2 DEF TypeOK
    <3>3. table[p] = "acl" => UNCHANGED table
      BY <2>3 DEF Sum
    <3> QED
      BY <2>1, <3>1, <3>2, <3>3 DEF TypeOK
  <2>4. CASE MkDir(p)
    BY <2>1, <2>4 DEF MkDir, TypeOK, Tables
  <2>5. CASE Start(p) \/ List(p) \/ Open(p) \/ Write(p)
    BY <2>1, <2>5 DEF Start, List, Open, Write, TypeOK
  <2> QED
    BY <2>1, <2>3, <2>4, <2>5
<1>10. TypeOK'
  BY <1>1, <1>4, <1>5, <1>6, <1>8, <1>9 DEF TypeOK
<1>11. Started' /\ HasListed' /\ HasOpen'
  BY <1>1, <1>4, <1>5, <1>6 DEF Started, HasListed, HasOpen
<1>12. Created' /\ Stored'
  BY <1>1, <1>4, <1>5 DEF Created, Stored
<1> QED
  BY <1>10, <1>11, <1>12

\* From the archive on: the steps keep the invariant.
LEMMA ArchiveBase ==
  ASSUME BaseInv, NEW p \in Procs,
         \/ Remove(p) \/ Create(p) \/ Archive(p) \/ Upload(p) \/ Ack(p)
         \/ RemoveTar(p) \/ RemoveDir(p) \/ Kill(p)
  PROVE  BaseInv'
<1> USE DEF BaseInv, disk_vars
<1>1. (UNCHANGED <<now, table, start, data>> /\ pc[p] \notin {"rest", "list"}) \/ Kill(p)
  BY DEF Remove, Create, Archive, Upload, Ack, RemoveTar, RemoveDir
<1>2. pc[p] # "rest" /\ start[p] \in Time /\ UNCHANGED <<now, table, start, data>>
  BY DEF Remove, Create, Archive, Upload, Ack, RemoveTar, RemoveDir, Kill, Started, TypeOK
<1>3. {"rest", "create", "archive", "upload", "ack", "rmtar", "rmdir"} \subseteq Steps
  BY DEF Steps
<1>4. PICK step \in {"rest", "create", "archive", "upload", "ack", "rmtar", "rmdir"} :
        pc' = [pc EXCEPT ![p] = step]
  BY DEF Remove, Create, Archive, Upload, Ack, RemoveTar, RemoveDir, Kill, Die, GoTo, TypeOK
<1>5. /\ pc' \in [Procs -> Steps] /\ pc'[p] = step
      /\ \A q \in Procs \ {p} : pc'[q] = pc[q]
  BY <1>3, <1>4, GoToType DEF GoTo
<1>6. Started' /\ HasListed'
  BY <1>1, <1>2, <1>5 DEF Started, HasListed, Kill, Die, GoTo, TypeOK
<1>7. CASE Remove(p) \/ RemoveTar(p) \/ RemoveDir(p) \/ Kill(p)
  <2>1. UNCHANGED <<inode, bytes, bucket, key>> /\ dirs' \subseteq Time
    BY <1>7 DEF Remove, RemoveTar, RemoveDir, Kill, TypeOK
  <2>2. /\ tar' \in [Time -> Procs \cup {None}]
        /\ \A s \in Time : tar'[s] # None => tar'[s] = tar[s]
    BY <1>2, <1>7 DEF Remove, RemoveTar, RemoveDir, Kill, TarName, TypeOK
  <2>3. file' \in [Time -> Snapshots]
    <3>1. CASE UNCHANGED file
      BY <3>1 DEF TypeOK
    <3>2. ASSUME NEW t \in Tables, file' = [file EXCEPT ![Dir(p)][t] = None]
          PROVE  file' \in [Time -> Snapshots]
      BY <1>2, <3>2, FileType DEF Dir, Contents
    <3> QED
      BY <1>7, <3>1, <3>2 DEF Remove, RemoveTar, RemoveDir, Kill
  <2>4. TypeOK'
    BY <1>2, <1>5, <2>1, <2>2, <2>3 DEF TypeOK
  <2>5. pc'[p] \notin {"archive", "ack"}
    BY <1>7 DEF Remove, RemoveTar, RemoveDir, Kill, Die, GoTo, TypeOK
  <2>6. HasOpen' /\ Created' /\ Stored'
    BY <1>2, <1>5, <2>1, <2>2, <2>5 DEF HasOpen, Created, Stored
  <2> QED
    BY <1>6, <2>4, <2>6
<1>8. CASE Create(p)
  <2>1. PICK i \in Procs : /\ tar'   = [tar   EXCEPT ![start[p]] = i]
                          /\ inode' = [inode EXCEPT ![p] = i]
                          /\ bytes' = [bytes EXCEPT ![start[p]][i] = Empty]
    BY <1>2, <1>8 DEF Create, TarName, TypeOK
  <2>2. UNCHANGED <<dirs, file, bucket, key>> /\ pc'[p] = "archive"
    BY <1>5, <1>8 DEF Create, GoTo, TypeOK
  <2>3. /\ bytes' \in [Time -> [Procs -> Snapshots \cup {None, Empty, Torn}]]
        /\ bytes'[start[p]][i] = Empty
        /\ \A r \in Time, j \in Procs : r # start[p] \/ j # i => bytes'[r][j] = bytes[r][j]
    BY <1>2, <2>1, BytesType
  <2>4. /\ tar' \in [Time -> Procs \cup {None}] /\ tar'[start[p]] = i
        /\ \A s \in Time \ {start[p]} : tar'[s] = tar[s]
        /\ inode' \in [Procs -> Procs \cup {None}] /\ inode'[p] = i
        /\ \A q \in Procs \ {p} : inode'[q] = inode[q]
    BY <1>2, <2>1 DEF TypeOK
  <2>5. TypeOK'
    BY <1>2, <1>5, <2>2, <2>3, <2>4 DEF TypeOK
  <2>6. HasOpen' /\ Stored'
    BY <1>2, <1>5, <2>2, <2>4, Apartness DEF HasOpen, Stored
  <2>7. \A r \in Time, j \in Procs : bytes[r][j] # None => bytes'[r][j] # None
    BY <2>3, Apartness
  <2>8. \A q \in Procs : pc[q] = "archive" => start[q] \in Time /\ inode[q] \in Procs
    BY DEF Started, HasOpen, TypeOK
  <2>9. \A s \in Time : tar[s] # None => tar[s] \in Procs
    BY DEF TypeOK
  <2>10. Created'
    <3>1. \A s \in Time : tar'[s] # None => bytes'[s][tar'[s]] # None
      BY <1>2, <2>3, <2>4, <2>7, <2>9, Apartness DEF Created
    <3>2. bytes'[start[p]][inode'[p]] # None
      BY <2>3, <2>4, Apartness
    <3>3. \A q \in Procs \ {p} : pc'[q] = "archive" => bytes'[start[q]][inode'[q]] # None
      BY <1>5, <2>4, <2>7, <2>8 DEF Created
    <3> QED
      BY <1>2, <3>1, <3>2, <3>3 DEF Created
  <2> QED
    BY <1>6, <2>5, <2>6, <2>10
<1>9. CASE Archive(p)
  <2>1. inode[p] \in Procs
    BY <1>9 DEF Archive, HasOpen, TypeOK
  <2>2. UNCHANGED <<dirs, file, tar, inode, bucket, key>> /\ pc'[p] \in {"upload", "rest"}
    BY <1>5, <1>9 DEF Archive, Die, GoTo, TypeOK
  <2>3. /\ bytes' \in [Time -> [Procs -> Snapshots \cup {None, Empty, Torn}]]
        /\ \A r \in Time, j \in Procs : bytes[r][j] # None => bytes'[r][j] # None
    <3>1. CASE UNCHANGED bytes
      BY <3>1 DEF TypeOK
    <3>2. ASSUME NEW new \in Written(bytes[start[p]][inode[p]], file[Dir(p)]),
                 bytes' = [bytes EXCEPT ![start[p]][inode[p]] = new]
          PROVE  /\ bytes' \in [Time -> [Procs -> Snapshots \cup {None, Empty, Torn}]]
                 /\ \A r \in Time, j \in Procs : bytes[r][j] # None => bytes'[r][j] # None
      <4>1. new \in Snapshots \cup {Torn}
        BY <1>2 DEF Written, Dir, TypeOK
      <4>2. new # None
        BY <4>1, Apartness
      <4>3. /\ bytes' \in [Time -> [Procs -> Snapshots \cup {None, Empty, Torn}]]
            /\ bytes'[start[p]][inode[p]] = new
            /\ \A r \in Time, j \in Procs :
                 r # start[p] \/ j # inode[p] => bytes'[r][j] = bytes[r][j]
        <5>1. new \in Snapshots \cup {None, Empty, Torn}
          BY <4>1
        <5>2. PICK s \in Time, i \in Procs : s = start[p] /\ i = inode[p]
          BY <1>2, <2>1
        <5>3. bytes' = [bytes EXCEPT ![s][i] = new]
          BY <3>2, <5>2
        <5>4. /\ bytes' \in [Time -> [Procs -> Snapshots \cup {None, Empty, Torn}]]
              /\ bytes'[s][i] = new
              /\ \A r \in Time, j \in Procs : r # s \/ j # i => bytes'[r][j] = bytes[r][j]
          BY <5>1, <5>3 DEF TypeOK
        <5> QED
          BY <5>2, <5>4
      <4> QED
        BY <4>2, <4>3
    <3> QED
      BY <1>9, <3>1, <3>2 DEF Archive
  <2>4. TypeOK'
    BY <1>2, <1>5, <2>2, <2>3 DEF TypeOK
  <2>5. HasOpen' /\ Stored'
    BY <1>2, <1>5, <2>2 DEF HasOpen, Stored
  <2>6. \A q \in Procs : pc[q] = "archive" => start[q] \in Time /\ inode[q] \in Procs
    BY DEF Started, HasOpen, TypeOK
  <2>7. \A s \in Time : tar[s] # None => tar[s] \in Procs
    BY DEF TypeOK
  <2>8. Created'
    BY <1>2, <1>5, <2>2, <2>3, <2>6, <2>7 DEF Created
  <2> QED
    BY <1>6, <2>4, <2>5, <2>8
<1>10. CASE Upload(p)
  <2>1. UNCHANGED <<dirs, file, tar, bytes, inode, key>> /\ pc'[p] \in {"ack", "rest"}
    BY <1>5, <1>10 DEF Upload, Die, GoTo, TypeOK
  <2>2. \/ UNCHANGED bucket /\ pc'[p] = "rest"
        \/ /\ tar[start[p]] # None
           /\ bucket' = [bucket EXCEPT ![start[p]] = bytes[start[p]][tar[start[p]]]]
    BY <1>5, <1>10 DEF Upload, Die, GoTo, TarName, TypeOK
  <2>3. /\ bucket' \in [Time -> Snapshots \cup {None, Empty, Torn}]
        /\ pc'[p] = "ack" => bucket'[start[p]] # None
        /\ \A s \in Time : bucket[s] # None => bucket'[s] # None
    <3>1. CASE UNCHANGED bucket /\ pc'[p] = "rest"
      BY <3>1 DEF TypeOK
    <3>2. CASE /\ tar[start[p]] # None
               /\ bucket' = [bucket EXCEPT ![start[p]] = bytes[start[p]][tar[start[p]]]]
      <4> DEFINE new == bytes[start[p]][tar[start[p]]]
      <4>1. new \in Snapshots \cup {None, Empty, Torn} /\ new # None
        BY <1>2, <3>2 DEF TypeOK, Created
      <4> HIDE DEF new
      <4>2. bucket' = [bucket EXCEPT ![start[p]] = new]
        BY <3>2 DEF new
      <4> QED
        BY <1>2, <4>1, <4>2 DEF TypeOK
    <3> QED
      BY <2>2, <3>1, <3>2
  <2>4. TypeOK'
    BY <1>2, <1>5, <2>1, <2>3 DEF TypeOK
  <2>5. HasOpen' /\ Created'
    BY <1>2, <1>5, <2>1 DEF HasOpen, Created
  <2>6. \A q \in Procs : pc[q] = "ack" => start[q] \in Time
    BY DEF Started, TypeOK
  <2>7. key # None => key \in Time
    BY DEF TypeOK
  <2>8. Stored'
    BY <1>2, <1>5, <2>1, <2>3, <2>6, <2>7 DEF Stored
  <2> QED
    BY <1>6, <2>4, <2>5, <2>8
<1>11. CASE Ack(p)
  <2>1. UNCHANGED <<inode, dirs, file, tar, bytes, bucket>> /\ key' = start[p] /\ pc'[p] = "rmtar"
        /\ pc[p] = "ack"
    BY <1>5, <1>11 DEF Ack, GoTo, TypeOK
  <2>2. TypeOK'
    BY <1>2, <1>5, <2>1 DEF TypeOK
  <2>3. HasOpen' /\ Created' /\ Stored'
    BY <1>2, <1>5, <2>1 DEF HasOpen, Created, Stored
  <2> QED
    BY <1>6, <2>2, <2>3
<1> QED
  BY <1>7, <1>8, <1>9, <1>10, <1>11

\* Every step keeps the invariant.
LEMMA NextBase == BaseInv /\ [Next]_vars => BaseInv'
<1> SUFFICES ASSUME BaseInv, [Next]_vars PROVE BaseInv'
  OBVIOUS
<1>1. CASE Tick
  BY <1>1, SharedTmpAssumption
     DEF Tick, disk_vars, BaseInv, TypeOK, Time, Started, HasListed, HasOpen, Created, Stored
<1>2. CASE UNCHANGED vars
  BY <1>2 DEF vars, disk_vars, BaseInv, TypeOK, Started, HasListed, HasOpen, Created, Stored
<1> QED
  BY <1>1, <1>2, FilesBase, ArchiveBase DEF Next, Round

\* The state of the processes and their files is well typed.
THEOREM TypeCorrect == Spec => []TypeOK
<1>1. BaseInv => TypeOK
  BY DEF BaseInv
<1> QED
  BY <1>1, InitBase, NextBase, PTL DEF Spec

\* The key LastBackup names an object that is stored, though the processes of one second
\* remove each other's files: what was removed is not uploaded, and then not acknowledged.
THEOREM AckedIsStored == Spec => []AckedStored
<1>1. BaseInv => AckedStored
  BY DEF BaseInv, Stored, AckedStored
<1> QED
  BY <1>1, InitBase, NextBase, PTL DEF Spec

-----------------------------------------------------------------------------
(* Rounds of different seconds.  A step of a process touches nothing but   *)
(* what is named by its own second, so that a round finds at each step     *)
(* what it left at the one before.                                         *)

\* A snapshot that can be restored.
Whole == [Tables -> Time]

\* No two processes have the same second, unless it is shared.
Exclusive == \A p, q \in Procs : start[p] \in Time \ Shared /\ start[p] = start[q] => p = q

\* What p has written of its files.
OwnFiles(p) ==
  /\ pc[p] \in {"open", "write", "sum"} =>
       \A t \in Tables : (table[p] = "acl" /\ t # "acl") \/ (table[p] = "pq" /\ t = "kv")
                          => file[start[p]][t] \in Time
  /\ pc[p] = "write" => file[start[p]][table[p]] = Empty
  /\ pc[p] = "sum"   => file[start[p]][table[p]] \in Time
  /\ pc[p] \in {"remove", "create", "archive"} => file[start[p]] \in Whole

\* What p has made of its archive and its object.
OwnTar(p) ==
  /\ pc[p] = "create"  => tar[start[p]] = None
  /\ pc[p] = "archive" => /\ inode[p] = p /\ tar[start[p]] = p
                         /\ bytes[start[p]][p] = Empty
  /\ pc[p] = "upload"  => tar[start[p]] = p /\ bytes[start[p]][p] \in Whole
  /\ pc[p] = "ack"     => bucket[start[p]] \in Whole

WholeInv ==
  /\ BaseInv /\ Exclusive /\ AckedWhole
  /\ \A p \in Procs : start[p] \notin Shared => OwnFiles(p) /\ OwnTar(p)

\* In the initial states nothing runs.
LEMMA InitWhole == Init => WholeInv
<1> SUFFICES ASSUME Init PROVE WholeInv
  OBVIOUS
<1>1. key = None /\ \A p \in Procs : pc[p] = "rest" /\ start[p] = None
  BY DEF Init
<1>2. Exclusive /\ AckedWhole
  BY <1>1, Apartness DEF Exclusive, AckedWhole
<1>3. \A p \in Procs : OwnFiles(p) /\ OwnTar(p)
  BY <1>1 DEF OwnFiles, OwnTar
<1> QED
  BY <1>2, <1>3, InitBase DEF WholeInv

\* A step of p after its start changes nothing that is named by another second, nor the
\* memory of another process.
LEMMA OwnSecond ==
  ASSUME BaseInv, NEW p \in Procs, Round(p) \/ Kill(p), ~Start(p)
  PROVE  /\ start' = start /\ start[p] \in Time
         /\ \A s \in Time \ {start[p]} :
              /\ file'[s] = file[s] /\ tar'[s] = tar[s]
              /\ bytes'[s] = bytes[s] /\ bucket'[s] = bucket[s]
         /\ \A q \in Procs \ {p} :
              pc'[q] = pc[q] /\ table'[q] = table[q] /\ inode'[q] = inode[q]
<1> USE DEF disk_vars
<1>1. start' = start /\ start[p] \in Time
  BY DEF Round, List, MkDir, Open, Write, Sum, Remove, Create, Archive, Upload, Ack, RemoveTar,
         RemoveDir, Kill, BaseInv, Started, TypeOK
<1>2. \A s \in Time \ {start[p]} : file'[s] = file[s]
  BY DEF Round, List, MkDir, Open, Write, Sum, Remove, Create, Archive, Upload, Ack, RemoveTar,
         RemoveDir, Kill, Dir, BaseInv, TypeOK
<1>3. \A s \in Time \ {start[p]} : tar'[s] = tar[s]
  BY DEF Round, List, MkDir, Open, Write, Sum, Remove, Create, Archive, Upload, Ack, RemoveTar,
         RemoveDir, Kill, TarName, BaseInv, TypeOK
<1>4. \A s \in Time \ {start[p]} : bytes'[s] = bytes[s]
  BY DEF Round, List, MkDir, Open, Write, Sum, Remove, Create, Archive, Upload, Ack, RemoveTar,
         RemoveDir, Kill, BaseInv, TypeOK
<1>5. \A s \in Time \ {start[p]} : bucket'[s] = bucket[s]
  BY DEF Round, List, MkDir, Open, Write, Sum, Remove, Create, Archive, Upload, Ack, RemoveTar,
         RemoveDir, Kill, BaseInv, TypeOK
<1>6. \A q \in Procs \ {p} : pc'[q] = pc[q] /\ table'[q] = table[q] /\ inode'[q] = inode[q]
  BY DEF Round, List, MkDir, Open, Write, Sum, Remove, Create, Archive, Upload, Ack, RemoveTar,
         RemoveDir, Kill, Die, GoTo, BaseInv, TypeOK
<1> QED
  BY <1>1, <1>2, <1>3, <1>4, <1>5, <1>6

\* While p writes its files, it keeps to what it has written.
LEMMA OwnFilesStep ==
  ASSUME WholeInv, NEW p \in Procs, start[p] \notin Shared,
         List(p) \/ MkDir(p) \/ Open(p) \/ Write(p) \/ Sum(p)
  PROVE  OwnFiles(p)' /\ OwnTar(p)'
<1> USE DEF WholeInv, BaseInv, disk_vars
<1>1. OwnFiles(p) /\ start[p] \in Time /\ UNCHANGED start
  BY DEF List, MkDir, Open, Write, Sum, Started, TypeOK
<1>2. table[p] \in Tables
  BY DEF TypeOK
<1>3. CASE List(p) \/ MkDir(p)
  BY <1>1, <1>3 DEF List, MkDir, GoTo, OwnFiles, OwnTar, TypeOK
<1>4. CASE Open(p)
  <2>1. CASE pc'[p] = "rest"
    BY <2>1 DEF OwnFiles, OwnTar
  <2>2. CASE pc'[p] = "write" /\ file' = [file EXCEPT ![Dir(p)][table[p]] = Empty]
    <3>1. /\ file'[start[p]][table[p]] = Empty
          /\ \A t \in Tables \ {table[p]} : file'[start[p]][t] = file[start[p]][t]
      BY <1>1, <1>2, <2>2 DEF Dir, TypeOK, Snapshots
    <3> QED
      BY <1>1, <1>4, <2>2, <3>1 DEF Open, OwnFiles, OwnTar
  <2> QED
    BY <1>4, <2>1, <2>2 DEF Open, GoTo, Die, TypeOK
<1>5. CASE Write(p)
  <2>1. file[start[p]][table[p]] = Empty /\ data[p] \in Time /\ pc'[p] = "sum"
    BY <1>1, <1>5 DEF Write, GoTo, OwnFiles, HasListed, TypeOK
  <2>2. file' = [file EXCEPT ![Dir(p)][table[p]] = data[p]]
    BY <1>5, <2>1, Apartness DEF Write, Written, Dir
  <2>3. /\ file'[start[p]][table[p]] = data[p]
        /\ \A t \in Tables \ {table[p]} : file'[start[p]][t] = file[start[p]][t]
    BY <1>1, <1>2, <2>1, <2>2 DEF Dir, TypeOK, Snapshots
  <2> QED
    BY <1>1, <1>5, <2>1, <2>3 DEF Write, OwnFiles, OwnTar
<1>6. CASE Sum(p)
  <2>1. file[start[p]][table[p]] \in Time /\ UNCHANGED file
    BY <1>1, <1>6 DEF Sum, OwnFiles
  <2>2. CASE table[p] = "acl"
    <3>1. file[start[p]] \in Whole
      BY <1>1, <1>6, <2>1, <2>2 DEF Sum, OwnFiles, Whole, TypeOK, Snapshots, Tables
    <3>2. pc'[p] \in {"rest", "remove"}
      BY <1>6, <2>2 DEF Sum, GoTo, Die, TypeOK
    <3> QED
      BY <1>1, <2>1, <3>1, <3>2 DEF OwnFiles, OwnTar
  <2>3. CASE table[p] # "acl"
    <3>1. pc'[p] \in {"rest", "open"}
      BY <1>6, <2>3 DEF Sum, GoTo, Die, TypeOK
    <3>2. pc'[p] = "open" => table'[p] = AfterTable[table[p]]
      BY <1>6, <2>1, <2>3, Apartness DEF Sum, Dir, TypeOK
    <3> QED
      BY <1>1, <1>2, <1>6, <2>1, <2>3, <3>1, <3>2 DEF Sum, OwnFiles, OwnTar, AfterTable, Tables
  <2> QED
    BY <2>2, <2>3
<1> QED
  BY <1>3, <1>4, <1>5, <1>6

\* From then on, it keeps to its archive, and uploads and acknowledges what is whole.
LEMMA OwnTarStep ==
  ASSUME WholeInv, NEW p \in Procs, start[p] \notin Shared,
         \/ Remove(p) \/ Create(p) \/ Archive(p) \/ Upload(p) \/ Ack(p)
         \/ RemoveTar(p) \/ RemoveDir(p) \/ Kill(p)
  PROVE  OwnFiles(p)' /\ OwnTar(p)'
<1> USE DEF WholeInv, BaseInv, disk_vars
<1>1. OwnFiles(p) /\ OwnTar(p) /\ start[p] \in Time /\ UNCHANGED start
  BY DEF Remove, Create, Archive, Upload, Ack, RemoveTar, RemoveDir, Kill, Started, TypeOK
<1>2. CASE Remove(p)
  BY <1>1, <1>2 DEF Remove, GoTo, TarName, OwnFiles, OwnTar, TypeOK
<1>3. CASE Create(p)
  <2>1. tar[start[p]] = None /\ pc'[p] = "archive" /\ UNCHANGED file
    BY <1>1, <1>3 DEF Create, OwnTar, GoTo, TypeOK
  <2>2. /\ tar'   = [tar   EXCEPT ![start[p]] = p]
        /\ inode' = [inode EXCEPT ![p] = p]
        /\ bytes' = [bytes EXCEPT ![start[p]][p] = Empty]
    BY <1>3, <2>1 DEF Create, TarName
  <2>3. tar'[start[p]] = p /\ inode'[p] = p /\ bytes'[start[p]][p] = Empty
    BY <1>1, <2>2 DEF TypeOK
  <2> QED
    BY <1>1, <1>3, <2>1, <2>3 DEF Create, OwnFiles, OwnTar
<1>4. CASE Archive(p)
  <2>1. /\ inode[p] = p /\ tar[start[p]] = p /\ bytes[start[p]][p] = Empty
        /\ file[start[p]] \in Whole /\ UNCHANGED tar
        /\ pc'[p] \in {"rest", "upload"}
    BY <1>1, <1>4 DEF Archive, OwnFiles, OwnTar, GoTo, Die, TypeOK
  <2>2. pc'[p] = "upload" => bytes' = [bytes EXCEPT ![start[p]][p] = file[start[p]]]
    BY <1>4, <2>1, Apartness DEF Archive, Written, Dir, Die, GoTo, TypeOK
  <2>3. pc'[p] = "upload" => bytes'[start[p]][p] = file[start[p]]
    BY <1>1, <2>2 DEF TypeOK
  <2> QED
    BY <1>1, <2>1, <2>3 DEF OwnFiles, OwnTar
<1>5. CASE Upload(p)
  <2>1. tar[start[p]] = p /\ bytes[start[p]][p] \in Whole /\ p # None
    BY <1>1, <1>5, Apartness DEF Upload, OwnTar
  <2>2. pc'[p] = "ack" /\ bucket' = [bucket EXCEPT ![start[p]] = bytes[start[p]][p]]
    BY <1>5, <2>1 DEF Upload, TarName, GoTo, TypeOK
  <2>3. bucket'[start[p]] \in Whole
    BY <1>1, <2>1, <2>2 DEF TypeOK
  <2> QED
    BY <1>1, <2>2, <2>3 DEF OwnFiles, OwnTar
<1>6. CASE Ack(p) \/ RemoveTar(p) \/ RemoveDir(p) \/ Kill(p)
  <2>1. pc'[p] \in {"rmtar", "rmdir", "rest"}
    BY <1>6 DEF Ack, RemoveTar, RemoveDir, Kill, Die, GoTo, TypeOK
  <2> QED
    BY <2>1 DEF OwnFiles, OwnTar
<1> QED
  BY <1>2, <1>3, <1>4, <1>5, <1>6

\* A step of p keeps what other processes rely on.
LEMMA OtherStep ==
  ASSUME WholeInv, NEW p \in Procs, Round(p) \/ Kill(p), ~Start(p),
         NEW q \in Procs, q # p, start[q] \notin Shared
  PROVE  OwnFiles(q)' /\ OwnTar(q)'
<1>1. OwnFiles(q) /\ OwnTar(q) /\ BaseInv /\ Exclusive
  BY DEF WholeInv
<1>2. /\ start' = start /\ start[p] \in Time
      /\ pc'[q] = pc[q] /\ table'[q] = table[q] /\ inode'[q] = inode[q]
  BY <1>1, OwnSecond
<1>3. CASE pc[q] = "rest"
  BY <1>2, <1>3 DEF OwnFiles, OwnTar
<1>4. CASE pc[q] # "rest"
  <2>1. start[q] \in Time \ {start[p]}
    BY <1>1, <1>2, <1>4, Apartness DEF BaseInv, Started, Exclusive, TypeOK
  <2>2. /\ file'[start[q]] = file[start[q]] /\ tar'[start[q]] = tar[start[q]]
        /\ bytes'[start[q]] = bytes[start[q]] /\ bucket'[start[q]] = bucket[start[q]]
    BY <1>1, <2>1, OwnSecond
  <2> QED
    BY <1>1, <1>2, <2>2 DEF OwnFiles, OwnTar
<1> QED
  BY <1>3, <1>4

\* A process starts in a second of its own, or in a shared one.
LEMMA StartWhole ==
  ASSUME WholeInv, NEW p \in Procs, Start(p)
  PROVE  WholeInv'
<1> USE DEF WholeInv, disk_vars
<1>1. BaseInv'
  BY NextBase DEF Next, Round
<1>2. /\ start'[p] = now /\ pc'[p] = "list"
      /\ \A q \in Procs \ {p} : start'[q] = start[q] /\ pc'[q] = pc[q]
      /\ now \notin Shared => \A q \in Procs : start[q] # now
      /\ UNCHANGED <<table, inode, file, tar, bytes, bucket, key>>
  BY DEF Start, GoTo, BaseInv, TypeOK
<1>3. Exclusive'
  BY <1>2 DEF Exclusive
<1>4. \A q \in Procs : start'[q] \notin Shared => OwnFiles(q)' /\ OwnTar(q)'
  BY <1>2 DEF OwnFiles, OwnTar
<1>5. AckedWhole'
  BY <1>2 DEF AckedWhole
<1> QED
  BY <1>1, <1>3, <1>4, <1>5

\* The other steps of a process keep the invariant.
LEMMA RoundWhole ==
  ASSUME WholeInv, NEW p \in Procs, Round(p) \/ Kill(p), ~Start(p)
  PROVE  WholeInv'
<1>1. BaseInv /\ BaseInv'
  BY NextBase DEF WholeInv, Next
<1>2. Exclusive'
  BY <1>1, OwnSecond DEF WholeInv, Exclusive
<1>3. \A q \in Procs : start'[q] \notin Shared => OwnFiles(q)' /\ OwnTar(q)'
  BY <1>1, OwnSecond, OwnFilesStep, OwnTarStep, OtherStep DEF Round
<1>4. AckedWhole'
  <2>1. CASE Ack(p)
    <3>1. /\ key' = start[p] /\ UNCHANGED bucket
          /\ start[p] \notin Shared => bucket[start[p]] \in Whole
      BY <2>1 DEF Ack, WholeInv, OwnTar
    <3> QED
      BY <3>1 DEF AckedWhole, Whole
  <2>2. CASE Upload(p)
    <3>1. start[p] \notin Shared => bucket'[start[p]] \in Whole
      <4> SUFFICES ASSUME start[p] \notin Shared PROVE bucket'[start[p]] \in Whole
        OBVIOUS
      <4>1. tar[start[p]] = p /\ bytes[start[p]][p] \in Whole /\ start[p] \in Time /\ p # None
        BY <1>1, <2>2, OwnSecond, Apartness DEF Upload, WholeInv, OwnTar
      <4>2. bucket' = [bucket EXCEPT ![start[p]] = bytes[start[p]][p]]
        BY <2>2, <4>1 DEF Upload, TarName
      <4> QED
        BY <1>1, <4>1, <4>2 DEF BaseInv, TypeOK
    <3>2. UNCHANGED key /\ (key # None => key \in Time)
      BY <1>1, <2>2 DEF Upload, BaseInv, TypeOK
    <3>3. \A s \in Time \ {start[p]} : bucket'[s] = bucket[s]
      BY <1>1, OwnSecond
    <3> QED
      BY <3>1, <3>2, <3>3 DEF WholeInv, AckedWhole, Whole
  <2>3. CASE UNCHANGED <<bucket, key>>
    BY <2>3 DEF WholeInv, AckedWhole
  <2> QED
    BY <2>1, <2>2, <2>3
       DEF Round, List, MkDir, Open, Write, Sum, Remove, Create, Archive, RemoveTar, RemoveDir, Kill
<1> QED
  BY <1>1, <1>2, <1>3, <1>4 DEF WholeInv

\* Every step keeps the invariant.
LEMMA NextWhole == WholeInv /\ [Next]_vars => WholeInv'
<1> SUFFICES ASSUME WholeInv, [Next]_vars PROVE WholeInv'
  OBVIOUS
<1>1. CASE Tick \/ UNCHANGED vars
  <2>1. /\ UNCHANGED <<pc, table, start, inode, file, tar, bytes, bucket, key>>
        /\ BaseInv'
    BY <1>1, NextBase DEF Tick, vars, disk_vars, WholeInv, Next
  <2> QED
    BY <2>1 DEF WholeInv, Exclusive, AckedWhole, OwnFiles, OwnTar
<1> QED
  BY <1>1, StartWhole, RoundWhole DEF Next, Round

\* The backup that the key names can be restored in full if no other round started in its
\* second, whichever processes are killed at whichever step, and whatever becomes of the
\* rounds that did share a second.
THEOREM AckedIsWhole == Spec => []AckedWhole
<1>1. WholeInv => AckedWhole
  BY DEF WholeInv
<1> QED
  BY <1>1, InitWhole, NextWhole, PTL DEF Spec
=============================================================================
