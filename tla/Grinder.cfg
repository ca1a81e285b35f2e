CONSTANTS
  Order = 5
  Field = 4
  Bytes32 <- MCBytes32
  CaseBytes <- MCCaseBytes
  NumCases = 2
  Nil = Nil
  Solvable <- MCSolvable
  Workers = {w1, w2}
  maxResults = 2
  Vanity = {1}
  MaxFinds = 5
  MaxLoads = 2
SPECIFICATION FairSpec
CHECK_DEADLOCK FALSE
INVARIANTS
  ResultsAccounted
  PrintedKeysRestore
  KeypairConsistent
PROPERTY
  Terminates
