\* Drivers of every kind.
SPECIFICATION DriverSpec
CONSTANTS
  Kinds <- AllKinds
  Interval = 2
  Attempts = 3
INVARIANTS
  DriverTypeOK
  PauseHeals
PROPERTY
  FallbackStaysConnected
