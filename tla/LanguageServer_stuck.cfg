SPECIFICATION FairSpec
CONSTANTS
  main = main
  library = library
  x = x
  wide = wide
  newline = newline
  formfeed = formfeed
  NewLine = newline
  FurtherBreaks <- MCFurtherBreaks
  Wide <- MCWide
  NoText = NoText
  Uris = {main, library}
  Placements <- MCPlacements
  Concurrency = 4
  Opened <- MCOneLine
  Inserted <- MCInserted
  MaxLength = 2
  MaxSent = 3
  MaxAsked = 0
PROPERTY Reported
\* The editor may stop.
CHECK_DEADLOCK FALSE
