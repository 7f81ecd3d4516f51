SPECIFICATION Spec
CONSTANTS
  n1 = n1
  n2 = n2
  n3 = n3
  Node <- ThreeNodes
  Operators <- OneOperator
  NumberOf <- MCNumberOf
  SlotSize <- MCSlotSize
  NameOf <- MCNameOf
  LoadArgs <- MCLoadArgs
  CommandArgs <- KeymaskSetOnly
  MaxCommands = 1
  MaxFailures = 0
CHECK_DEADLOCK FALSE
INVARIANT NodesAgree
