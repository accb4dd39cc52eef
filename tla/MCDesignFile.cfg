SPECIFICATION FairSpec
CONSTANTS
  Requests <- MCRequests
  Kind <- MCKind
  Edits <- MCEdits
  Initial <- PlateAndBoss
  MaxKills = 1

  
PROPERTIES
  Linearizable
  EveryRequestTold
