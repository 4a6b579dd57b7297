CONSTANTS
  MaxThreads = 2
  MaxInputs = 4
  Reports <- OneWrong
SPECIFICATION Spec
INVARIANTS
  AtLeastOneStopped
