CONSTANTS
  Blobs <- MCBlobs
  RulesUsed = {"ber", "cer", "der"}
  Callers = {"parse_rules", "parse_all"}
  MaxNesting = 3
  TagMax = 255
  MaxLengthOctets = 3
  UsizeMax = 65535
  WordOctets = 2
  ArcModulus = 16384
  Alphabet = {0, 2, 31, 48, 128, 129}
  Longest = 6
SPECIFICATION Spec
INVARIANTS TypeOK ElementsTile ElementsNest CallsNest ErrorBehindElements DerIsMinimal AcceptsTheGrammar RowsFollowTheBlob PathsLeadBack OidsAreListed OidsThatFitNameTheirOctets ProjectionsAgree IntegersKeepTheirValue BitStringsKeepTheirBits
PROPERTIES KeepsContract Termination
CHECK_DEADLOCK FALSE
