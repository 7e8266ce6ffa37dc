CONSTANTS
  Labels = {"CERTIFICATE", "KEY"}
  Texts <- MCTexts
  Longest = 5
SPECIFICATION Spec
INVARIANTS TypeOK BlocksAreNumbered BlocksAreApart BundlesAreSplit
PROPERTIES Termination
CHECK_DEADLOCK FALSE
