CONSTANTS
  Blobs <- MCBlobs
  RulesUsed = {"ber", "der"}
  Callers = {"parse_rules"}
  MaxNesting = 2
  TagMax = 255
  MaxLengthOctets = 3
  UsizeMax = 65535
SPECIFICATION RSpec
INVARIANTS ReencodingIsDer ReencodingKeepsTheTree DerIsFixed
CHECK_DEADLOCK FALSE
