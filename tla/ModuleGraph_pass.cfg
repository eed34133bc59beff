CONSTANTS
  main = main
  a = a
  b = b
  c = c
  none = none
  Files <- MCFiles
  Entry = main
  Missing = none
  SharedFolders <- MCSharedFolders
  MaxPerFile = 2
  MaxImports = 4
SPECIFICATION FairSpec
INVARIANTS CycleShown EntryUnimported DegreesExact
PROPERTIES ImplementsPlan BuildEnds
CHECK_DEADLOCK FALSE
