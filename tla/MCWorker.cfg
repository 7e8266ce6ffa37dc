CONSTANTS
  Contents <- MCContents
  WellFormed <- MCWellFormed
  Elements <- MCElements
  Core <- MCCore
  Calls <- MCCalls
  OffsetMax = 3
  Scans <- MCScans
  NoContent = "none"
  Decoded <- MCDecoded
  IntHalf = 8
  MaxAsks = 4
SPECIFICATION Spec
INVARIANT RowsDeliveredOnce
PROPERTIES KeepsRowByRow EveryCallEnds
CHECK_DEADLOCK FALSE
