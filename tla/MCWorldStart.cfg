SPECIFICATION MCSpec
CONSTANTS
  DbNodes <- MCNodes
  NodeOrder <- MCOrder
  Mlvl <- MCMlvl
  Associated <- MCAssociated
  Weaknesses <- MCWeaknesses
  VanillaGates <- MCGates
  DbStartingLocation = "Landing"
  NoMlvl = NoMlvl
  None = None
  Unlocked = Unlocked
  CreditsEventNode = "Credits"
  PregrantedEvents = {"Intro"}
  AbsentItems = {"Cannon"}
  SkyTempleKeys = {"Key1", "Key2"}
  GatewayKeyNode = "Gateway"
  GatewayKeyTarget = "SkyLift"
  CacheReplacements <- MCCaches
  DoorCanChangeFrom = {"Normal Door", "Missile Blast Shield", "Seeker Blast Shield"}
  DoorCanChangeTo = {"Normal Door", "Missile Blast Shield", "Seeker Blast Shield (patched)"}
  ElevatorExcluded = {"SkyLift"}
  DefaultStartingItems = {"Scan"}
  AllItems <- MCItems
  MinSphereZeroPickups = 1
  OptionSets <- MCOptions
  TranslatorColors = {"Violet", "Amber"}
  LoreHolograms = {7}
  AttemptLimit = 2
INVARIANT StartIsProbed
CHECK_DEADLOCK FALSE
