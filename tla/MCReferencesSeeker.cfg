SPECIFICATION Spec
CONSTANTS
  NumPickups = 5
  NumCounters = 2
  BitsPerCounter = 3
  AmountBits = 4
  EnergyTankCap = 2
  MaxReceived = 3
  Bonuses = {0, 15}
  NumLocations = 119
  NumFillers = 33
  NumReals = 76
  MinExpansions = 13
  MaxTanks = 14
  MaxScans = 2
  None = None
  OptionSets <- MCOptionSets
  Self <- MCSelf
  Placements <- MCPlacements
  HintSettings <- MCHintSettings
  KeyNames <- MCKeyNames
  KeyScans <- MCKeyScans
  LoreScans <- MCLoreScans
  ItemScans <- MCItemScans
  DisguiseName <- MCDisguiseName
  LockBroken = "Lock"
  Events = {"E1", "Lock"}
  Trees <- MCTrees
  Templates <- MCTemplates
  Pregranted <- MCPregranted
  AbsentItems <- MCAbsentItems
  Reductions <- MCReductions
  ItemKind <- MCItemKind
  Depth <- MCDepth
  Contexts <- MCContexts
  MaxCount <- MCMaxCount
INVARIANT StartInventoryMatches
CHECK_DEADLOCK FALSE
