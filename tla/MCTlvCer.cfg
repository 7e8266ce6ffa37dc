CONSTANTS
  Blobs <- ReaderBlobs
  RulesUsed = {"cer"}
  Callers = {"parse_rules"}
  MaxNesting = 3
  TagMax = 255
  MaxLengthOctets = 3
  UsizeMax = 65535
  WordOctets = 2
  ArcModulus = 16384
  Alphabet = {0, 2, 48, 128}
  Longest = 4
SPECIFICATION Spec
INVARIANTS CerIsMinimal
CHECK_DEADLOCK FALSE
