\* One daemon with both buckets: faults and kills anywhere, list calls that may fail.
SPECIFICATION FairSpec

CONSTANTS
  k1 = k1
  v1 = v1
  q1 = q1
  q2 = q2
  acl1 = acl1
  acl2 = acl2
  d1 = d1
  d2 = d2
  c1 = c1
  LastBackup = LastBackup
  None = None

  Keys = {}
  Vals = {v1}
  PQTables = {q1}
  ACLTables = {acl1}
  Procs = {d1}
  Once = {}
  Buckets = {"s3", "gcs"}
  Legacy = {}
  Interval = 1
  Password = FALSE
  ListMayFail = TRUE
  MaxAge = 1
  MaxTime = 3
  MaxFaults = 2

INVARIANTS
  TypeOK
  LastBackupStored
  TempFilesBounded

PROPERTIES
  OverwriteKeepsNewer
  RoundEnds
  TickBacksUp

CHECK_DEADLOCK FALSE
