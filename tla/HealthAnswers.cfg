SPECIFICATION FairSpec

CONSTANTS
  h1 = h1
  h2 = h2
  q1 = q1
  q2 = q2
  None = None
  Junk = Junk

  Hosts = {h1, h2}
  Here = h1
  Requests = {q1}
  MaxAge = 1
  Skew = 1
  MaxTime = 3
  MaxFaults = 1

INVARIANTS
  TypeOK

PROPERTIES
  TrueAnswer
  NoFalseAlarm
  RequestsEnd
