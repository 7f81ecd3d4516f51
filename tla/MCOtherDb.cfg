SPECIFICATION FairSpec
CONSTANTS
  DB <- TwoDbs
  TimerId <- OneTimer
  MaxEvents = 2
  MaxFaults = 1
  SizeMod = 8
  Key <- OneKey
  Mask <- MCMask
  MatchedBy <- MCMatchedBy
  MaxMasks = 2
  NoMessage = NoMessage
  InitialMasks <- OwnMask
  InitialSizes <- Unlimited
  ConfigArgs <- NoArgs
  SizeArgs <- NoArgs
  MaskArgs <- NoArgs
  Commands <- NoCommands
  RoleChanges = FALSE
CHECK_DEADLOCK FALSE
PROPERTY SentWhenConnectionReturns
