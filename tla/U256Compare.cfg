SPECIFICATION Spec
CONSTANTS
  Base = 3
  Digits = 3
INVARIANT OnlyValidSharesMet
