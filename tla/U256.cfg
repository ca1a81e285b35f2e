SPECIFICATION Spec
CONSTANTS
  Base = 3
  Digits = 3
INVARIANTS LoopInv StrictAnswersRight
PROPERTIES Modular
