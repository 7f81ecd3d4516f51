SPECIFICATION Spec
CONSTANTS
  n1 = n1
  n2 = n2
  n3 = n3
  Node <- ThreeNodes
  Operators <- ThreeNodes
  NumberOf <- MCNumberOf
  SlotSize <- MCSlotSize
  NameOf <- MCNameOf
  LoadArgs <- MCLoadArgs
  CommandArgs <- MCCommandArgs
  MaxCommands = 3
  MaxFailures = 1
SYMMETRY Symmetry
CHECK_DEADLOCK FALSE
INVARIANTS SettledNodesAgree DisconnectReachesAll
