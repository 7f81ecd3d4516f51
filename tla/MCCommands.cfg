SPECIFICATION Spec
CONSTANTS
  DB <- OneDb
  TimerId <- TwoTimers
  MaxEvents = 2
  MaxFaults = 2
  SizeMod = 8
  Key <- TwoKeys
  Mask <- MCMask
  MatchedBy <- MCMatchedBy
  MaxMasks = 3
  NoMessage = NoMessage
  InitialMasks <- OwnOrNoMask
  InitialSizes <- UnlimitedOrTwo
  ConfigArgs <- AllArgs
  SizeArgs <- TurnedOff
  MaskArgs <- AddedMasks
  Commands <- AllCommands
  RoleChanges = TRUE
INVARIANTS TypeOK TimerHandleIsPending HeartbeatIsScheduled DisconnectSticks AllMaskComesFirst NoDuplicates
PROPERTIES LossOnlyOnTheWire 
