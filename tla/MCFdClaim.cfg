CONSTANTS
  PipeCapacity = 1
  MaxBlocks = 1
SPECIFICATION Spec
INVARIANTS
  DescriptorsClosed
