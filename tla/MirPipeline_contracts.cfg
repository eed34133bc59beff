SPECIFICATION PipelineSpec
CONSTANTS
  Half = 8
  Programs <- VoidMethods
  HeapNames = {"s", "xs"}
  MaxDepth = 4
  Inputs = {0, 2}
  MaxEvents = 6
  MaxSteps = 60
INVARIANT ContractsTested
