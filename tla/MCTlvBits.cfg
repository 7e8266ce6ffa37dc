CONSTANTS
  Blobs <- BitStrings
  RulesUsed = {"ber"}
  Callers = {"parse_rules"}
  MaxNesting = 3
  TagMax = 255
  MaxLengthOctets = 3
  UsizeMax = 65535
  WordOctets = 2
  ArcModulus = 2097152
  Alphabet = {0}
  Longest = 0
SPECIFICATION Spec
INVARIANTS DecodingIsTotal
CHECK_DEADLOCK FALSE
