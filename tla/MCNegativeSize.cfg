SPECIFICATION Spec
CONSTANTS
  DB <- OneDb
  TimerId <- OneTimer
  MaxEvents = 1
  MaxFaults = 1
  SizeMod = 8
  Key <- OneKey
  Mask <- MCMask
  MatchedBy <- MCMatchedBy
  MaxMasks = 2
  NoMessage = NoMessage
  InitialMasks <- OwnMask
  InitialSizes <- TurnedOff
  ConfigArgs <- NoArgs
  SizeArgs <- NoArgs
  MaskArgs <- NoArgs
  Commands <- NoCommands
  RoleChanges = FALSE
CHECK_DEADLOCK FALSE
INVARIANT NegativeSizeStoresNothing
