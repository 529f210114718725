\* A password is configured.
SPECIFICATION Spec

CONSTANTS
  k1 = k1
  v1 = v1
  q1 = q1
  q2 = q2
  acl1 = acl1
  acl2 = acl2
  d1 = d1
  d2 = d2
  c1 = c1
  LastBackup = LastBackup
  None = None

  Keys = {k1}
  Vals = {v1}
  PQTables = {q1}
  ACLTables = {acl1}
  Procs = {d1}
  Once = {}
  Buckets = {"s3"}
  Legacy = {}
  Interval = 1
  Password = TRUE
  ListMayFail = FALSE
  MaxAge = 1
  MaxTime = 3
  MaxFaults = 2

INVARIANTS
  EncryptedAtRest
