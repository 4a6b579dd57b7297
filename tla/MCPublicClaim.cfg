CONSTANTS
  MaxProblems = 1
  MaxSolutions = 2
  MaxTests = 2
  SampleSize = 1
  Ks = {1, 2}
SPECIFICATION Spec
INVARIANTS
  PublicPassesFound
