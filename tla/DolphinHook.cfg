SPECIFICATION FairSpec
PROPERTIES
  SparesOtherGames
  FindsItsGame
