SPECIFICATION FairSpec
CONSTANTS
  EnergyTankCap = 2
  Data <- MCData
  Pool = {"Missile Launcher", "Energy Tank", "Damage Trap"}
  Start <- MCStart
  BodyBudget = 1
  MaxItems = 3
  MaxLoads = 2
INVARIANTS
  TypeOK
  NoOverGrant
PROPERTIES
  EventuallyGranted
