SPECIFICATION FairSpec
CONSTANTS
  main = main
  library = library
  x = x
  wide = wide
  newline = newline
  formfeed = formfeed
  NewLine = newline
  FurtherBreaks <- MCFurtherBreaks
  Wide <- MCWide
  NoText = NoText
  Uris = {main, library}
  Placements <- MCPlacements
  Concurrency = 2
  Opened <- MCOpened
  Inserted <- MCInserted
  MaxLength = 3
  MaxSent = 3
  MaxAsked = 1
INVARIANTS DiagnosesText AnswersOfText ShownIsLatest SafeWhenPaced
PROPERTY SettlesOrStops
\* The editor may stop.
CHECK_DEADLOCK FALSE
