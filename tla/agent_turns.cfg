SPECIFICATION Spec
CONSTANTS
p1=p1 p2=p2 p3=p3 b1=b1 b2=b2
  Prompts <- ThreePrompts
  MaxResponses = 3
  MaxTurnTrouble = 3
  Turns <- TwoTurns
  Routed <- FirstRouted
  Places <- TwoPlaces
  OriginOf <- OwnPlace
  Staff <- OneWorker
  ToolActions <- Delegate
  RetryTimes = 1
  MaxOutRows = 4
  MaxLag = 1
  MaxRouteTrouble = 1
  Boxes <- TwoBoxes
  Settings <- AllSettings
  Dormant <- OneDormant
  Skills <- TwoSkills
  LeanSkills <- OneSkill
  OwnSkills <- OwnOrShadowing
  Requests <- TwoMounts
  MaxEdits = 1
  MaxSpawns = 2
  MaxSpawnTrouble = 1
SYMMETRY PromptsAlike
CHECK_DEADLOCK FALSE
INVARIANT ConversationKept
 
 
