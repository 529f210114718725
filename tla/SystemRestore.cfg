SPECIFICATION FairSystemSpec

CONSTANTS
  k1 = k1
  v1 = v1
  v2 = v2
  q1 = q1
  acl1 = acl1
  d1 = d1
  d2 = d2
  c1 = c1
  r1 = r1
  old = old
  LastBackup = LastBackup
  None = None

  Keys = {k1}
  Vals = {v1}
  PQTables = {q1}
  ACLTables = {acl1}
  Procs = {d1}
  Once = {}
  Buckets = {"s3", "gcs"}
  Legacy = {old}
  Interval = 1
  Password = TRUE
  ListMayFail = FALSE
  MaxAge = 1
  MaxTime = 2
  MaxFaults = 1
  UsersPause = TRUE
  Restorers = {r1}

INVARIANTS
  SystemTypeOK
  CapturedStored
  HealthSound
  OnlyWholeFilesRestored

PROPERTIES
  ImplementsLog
  RestoreExact
  RestoreEnds
  TickBacksUp
