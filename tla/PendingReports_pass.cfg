\* Two fair threads, a directory for two reports, and enough reports to exceed
\* what two threads can put into it.
SPECIFICATION FairSpec
CONSTANTS
  p1 = p1
  p2 = p2
  Procs = {p1, p2}
  MaxReports = 4
  Cap = 2
  PerCycle = 1
  MaxFaults = 1
  MaxCrashes = 1
INVARIANTS
  NothingLost
  QueueBounded
PROPERTIES
  ImplementsOutbox
  PendingSettles
