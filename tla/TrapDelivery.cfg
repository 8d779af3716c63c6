SPECIFICATION FairSpec
CONSTANTS
  Pool = {"Damage Trap", "Ammo Depletion Trap", "other"}
  First = 1
  MaxItems = 3
  MaxGets = 2
INVARIANTS
  TypeOK
  AtMostOnce
  NothingSkipped
  EffectAfterMemo
PROPERTIES
  EventuallyApplied
