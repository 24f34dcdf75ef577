SPECIFICATION Spec
CONSTANTS
  Width = 10
  PhysicalBits = 9
  Entries = 16
  FixedLimit = 2
  Fixed <- FixedRuns
  MtrrSettings <- Few
PROPERTIES FixedRangesUsed
