CONSTANTS
  PipeCapacity = 2
  MaxBlocks = 3
SPECIFICATION FairSpec
INVARIANTS
  Inv
  OneOwner
  OutputComplete
  OnlyFullPipeStalls
PROPERTIES
  DescriptorsGivenBack
  ImplementsContract
  StepsRunOut
  RunReturns
  OnlyCompilerStalls
