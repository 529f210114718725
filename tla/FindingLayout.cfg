SPECIFICATION Spec

CONSTANTS
  h1 = h1
  k1 = k1
  v1 = v1
  old = old
  None = None
  Torn = Torn
  Fixed = Fixed

  Hosts = {h1}
  Restorers = {h1}
  Keys = {k1}
  Queries = {}
  Tokens = {}
  Vals = {v1}
  Buckets = {"s3"}
  Foreign = {}
  AtRoot = FALSE
  UsersPause = FALSE
  MaxTime = 0
  MaxFaults = 0

PROPERTIES
  RoundTrip
