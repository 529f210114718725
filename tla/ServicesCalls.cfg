SPECIFICATION Spec

CONSTANTS
  h1 = h1
  k1 = k1
  v1 = v1
  old = old
  None = None
  Torn = Torn
  Fixed = Fixed

  Hosts = {h1}
  Restorers = {h1}
  Keys = {k1}
  Queries = {}
  Tokens = {}
  Vals = {v1}
  Buckets = {"s3", "gcs"}
  Foreign = {old}
  AtRoot = TRUE
  UsersPause = TRUE
  MaxTime = 1
  MaxFaults = 1

INVARIANTS
  TypeOK
  Reported
  StoredFresh
  FilesBounded
  RestoreComplete

PROPERTIES
  ImplementsStore
