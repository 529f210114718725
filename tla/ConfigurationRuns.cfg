SPECIFICATION Spec

CONSTANTS
  NoNumber = NoNumber
  Unset = Unset

  Names = {0, 2}
  Seconds <- TestSeconds
  Second = 2
  MaxDuration = 7
  Default = 2
  MaxFaults = 1

INVARIANTS
  TypeOK
  ReportedIsHeld
  TicksAsAsked

PROPERTIES
  RestoreFinds
  OnceHonest
