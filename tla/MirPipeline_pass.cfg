SPECIFICATION PipelineSpec
CONSTANTS
  Half = 8
  Programs <- MCPrograms
  HeapNames = {"s", "xs"}
  MaxDepth = 4
  Inputs = {0, 2}
  MaxEvents = 6
  MaxSteps = 100
INVARIANTS
  OptimizingKept
  MeaningKept
  ScopesPaired
  RegionsPaired
  CodeMeaningKept
  NeededKept
