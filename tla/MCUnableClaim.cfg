CONSTANTS
  Names = {"d1", "d2", "d3"}
  Length <- LengthOfPath
  Codes = {"good", "bad"}
  Compiles <- Accepted
  WithFunctions <- Functional
  MaxCalls = 2
SPECIFICATION Spec
INVARIANTS
  UnableIsAnError
