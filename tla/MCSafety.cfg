SPECIFICATION RestartSpec
CONSTANTS
  DB <- TwoDbs
  TimerId <- TwoTimers
  MaxEvents = 3
  MaxFaults = 1
  MaxCrashes = 2
  SizeMod = 8
  Key <- OneKey
  Mask <- MCMask
  MatchedBy <- MCMatchedBy
  MaxMasks = 2
  NoMessage = NoMessage
  InitialMasks <- OwnMask
  InitialSizes <- UnlimitedOrTwo
  ConfigArgs <- PlainArgs
  SizeArgs <- NoArgs
  MaskArgs <- NoArgs
  Commands <- ConnectCommands
  RoleChanges = FALSE
INVARIANTS CopiesAreBounded StorageInOrder OnlyRestoredEventsWait
PROPERTY LossOnlyOnTheWireOrUnsaved
