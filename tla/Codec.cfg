CONSTANTS
  Base = 4
  HashLen = 2
  SigLen = 2
  Bin32Max = 2
  MaxAltered = 40
  Names <- MCNames
SPECIFICATION Spec
INVARIANTS RoundTrip BytesStopAtFirstError RefusedOnlyWhenTooLong TruncationNoticed Reencodes
CHECK_DEADLOCK FALSE
