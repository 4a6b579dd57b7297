CONSTANTS
  MaxProblems = 3
  MaxSolutions = 2
  MaxTests = 2
  SampleSize = 1
  Ks = {1, 2, 3}
SPECIFICATION Spec
INVARIANTS
  Inv
  CountersMatchResults
  RecordTruthful
  MetricsDescribeResults
  EstimateIsShare
