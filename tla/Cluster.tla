------------------------------ MODULE Cluster ------------------------------
(***************************************************************************)
(* What the programs of consul-snapshot act on and do not own: the wall    *)
(* clock, the tables of the consul cluster, and the buckets that hold the  *)
(* archives.  A table operation is one request to the consul agent, so it  *)
(* is one step.  The health endpoint reads only this state, so what it     *)
(* answers is a state predicate here.                                      *)
(*                                                                         *)
(* Faults (a failed call, a killed process) are drawn from one budget.     *)
(***************************************************************************)
EXTENDS Naturals

CONSTANTS
  Keys,        \* keys users keep in consul
  Vals,        \* values of those keys
  PQTables,    \* contents the prepared-query table can have
  ACLTables,   \* contents the ACL table can have; a cluster with ACLs off lists as one
               \* that has none
  LastBackup,  \* the key service/consul-snapshot/lastbackup
  None,        \* no such key, no such object, nothing listed yet
  Procs,       \* backup processes, each on a host of its own
  Buckets,     \* the buckets of the configuration
  Legacy,      \* names of the objects left by earlier versions of the program
  Password,    \* CRYPTO_PASSWORD is set
  MaxAge,      \* the age at which /health turns to 500 (3600 s)
  MaxTime,     \* bound on the clock
  MaxFaults    \* bound on the faults of a behaviour

Tables  == {"kv", "pq", "acl"}
Time    == 0..MaxTime
AllKeys == Keys \cup {LastBackup}

\* The object name is prefix/year/month/day/hostname.consul.snapshot.start.tar.gz: the
\* host and the start second decide it.
Names == Procs \X Time

ASSUME ClusterAssumption ==
  /\ MaxAge \in Nat /\ MaxTime \in Nat /\ MaxFaults \in Nat
  /\ Buckets \subseteq {"s3", "gcs"} /\ Buckets # {}
  /\ LastBackup \notin Keys
  /\ Password \in BOOLEAN
  /\ Vals \cap Nat = {} /\ None \notin Vals \cup Nat
  /\ Legacy \cap Names = {}
  /\ PQTables # {} /\ ACLTables # {} /\ (Keys # {} => Vals # {})

KVTables == {f \in [AllKeys -> Vals \cup Time \cup {None}] : f[LastBackup] \in Time \cup {None}}
Contents == KVTables \cup PQTables \cup ACLTables

\* The answer to one list call: the contents, and the second at which consul held them.
\* The second is not in the program; the properties compare it with the start time.
Listing == [val : Contents, at : Time]

\* An archive: what each json file in it holds (None is the json null of a table that was
\* never listed), whether it is encrypted, and whether it is a 0.1.x one (gzip, no tar).
Archives == [data : [Tables -> Listing \cup {None}], sealed : BOOLEAN, v1 : BOOLEAN]

ASSUME NoneAssumption == None \notin Listing /\ None \notin Archives

VARIABLES
  now,     \* the wall clock, in seconds
  kv,      \* the key-value table
  pq,      \* the prepared-query table
  acl,     \* the ACL table
  bucket,  \* bucket[b][n] is the object named n in bucket b, or None
  faults   \* faults so far

cluster_vars == <<now, kv, pq, acl, bucket, faults>>

ClusterTypeOK ==
  /\ now \in Time
  /\ kv \in KVTables
  /\ pq \in PQTables
  /\ acl \in ACLTables
  /\ bucket \in [Buckets -> [Names \cup Legacy -> Archives \cup {None}]]
  /\ faults \in 0..MaxFaults

-----------------------------------------------------------------------------
EmptyKV == [k \in AllKeys |-> None]

\* What earlier versions left: a 0.1.x backup, the key-value pairs alone, or one of a
\* version that did encrypt.  Of a cluster that had a value for each key of its users.
LegacyKV == [k \in AllKeys |-> IF k = LastBackup THEN None ELSE CHOOSE v \in Vals : TRUE]

LegacyArchive(is_v1) ==
  [data   |-> [t \in Tables |-> IF t = "kv" THEN [val |-> LegacyKV, at |-> 0] ELSE None],
   sealed |-> ~is_v1,
   v1     |-> is_v1]

ClusterInit ==
  /\ now = 0
  /\ kv = EmptyKV
  /\ pq \in PQTables
  /\ acl \in ACLTables
  /\ \E is_v1 \in BOOLEAN :
       bucket = [b \in Buckets |-> [n \in Names \cup Legacy |->
                   IF n \in Legacy THEN LegacyArchive(is_v1) ELSE None]]
  /\ faults = 0

Fault   == faults < MaxFaults /\ faults' = faults + 1
NoFault == UNCHANGED faults

\* The contents of table t.
Content(t) == IF t = "kv" THEN kv ELSE IF t = "pq" THEN pq ELSE acl

\* The object name n is in every configured bucket.
Stored(n) == \A b \in Buckets : bucket[b][n] # None

-----------------------------------------------------------------------------
(* The rest of the world.                                                  *)

\* A user of the cluster writes or deletes a key of theirs.
UserPut(k, v) ==
  /\ kv' = [kv EXCEPT ![k] = v]
  /\ UNCHANGED <<now, pq, acl, bucket, faults>>

\* A user changes the prepared queries or the ACLs.
EditPQ ==
  /\ pq' \in PQTables \ {pq}
  /\ UNCHANGED <<now, kv, acl, bucket, faults>>

EditACL ==
  /\ acl' \in ACLTables \ {acl}
  /\ UNCHANGED <<now, kv, pq, bucket, faults>>

Tick ==
  /\ now < MaxTime
  /\ now' = now + 1
  /\ UNCHANGED <<kv, pq, acl, bucket, faults>>

Environment ==
  \/ \E k \in Keys, v \in Vals \cup {None} : UserPut(k, v)
  \/ EditPQ
  \/ EditACL
  \/ Tick

-----------------------------------------------------------------------------
(* The answer of /health.                                                  *)

\* The handler reads the key, and answers 200 unless there is none, it is no number, or
\* it is more than MaxAge seconds old.
Healthy == kv[LastBackup] \in Nat /\ now <= kv[LastBackup] + MaxAge
=============================================================================
