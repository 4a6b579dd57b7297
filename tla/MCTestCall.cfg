CONSTANTS
  MaxThreads = 2
  MaxInputs = 3
  Reports <- Distinct
SPECIFICATION FairSpec
INVARIANTS
  Inv
  StopHasCause
  SkippedOnlyAfterFailure
  ErrorOnlyAfterRetries
  FailuresBounded
  ResultsBelongToInputs
PROPERTIES
  ImplementsContract
  StepsRunOut
  TestReturns
