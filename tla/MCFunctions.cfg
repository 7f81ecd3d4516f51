SPECIFICATION Spec
CONSTANTS
  MaskChar = {"a", ".", "*", "^", "$"}
  KeyChar = {"a", "b", "$", "*"}
  MaxMask = 5
  MaxKey = 3
  Argument <- MCArgument
  MaxArgs = 3
  MaxFrames = 3
CHECK_DEADLOCK FALSE
INVARIANTS MatchAgreesWithLanguage BusCarriesTransportable ClosedConnectionIsNoticed ReturnsUnlessFrameIsStale
