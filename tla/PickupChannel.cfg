SPECIFICATION FairSpec
CONSTANTS
  NumPickups = 2
  NumCounters = 1
  BitsPerCounter = 2
  AmountBits = 3
INVARIANTS
  TypeOK
  NoLostCheck
  NoInventedCheck
PROPERTIES
  BodyNeverOverwritten
  ImplementsReporting
  EventuallyChecked
