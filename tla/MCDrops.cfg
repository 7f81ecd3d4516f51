SPECIFICATION Spec
CONSTANTS
  DB <- OneDb
  TimerId <- OneTimer
  MaxEvents = 4
  MaxFaults = 2
  SizeMod = 8
  Key <- OneKey
  Mask <- MCMask
  MatchedBy <- MCMatchedBy
  MaxMasks = 2
  NoMessage = NoMessage
  InitialMasks <- OwnMask
  InitialSizes <- AtMostTwo
  ConfigArgs <- NoArgs
  SizeArgs <- NoArgs
  MaskArgs <- NoArgs
  Commands <- NoCommands
  RoleChanges = FALSE
CHECK_DEADLOCK FALSE
PROPERTY DropsOnlyWhenFull
