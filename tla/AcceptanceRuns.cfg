SPECIFICATION Spec

CONSTANTS
  k1 = k1
  v1 = v1
  v2 = v2
  None = None
  Torn = Torn

  Keys = {k1}
  Vals = {v1, v2}
  OneAtATime = TRUE
  MaxTime = 2
  MaxFaults = 2

INVARIANTS
  TypeOK
  RoundTrip
