\* tty_ui.c: two runs, each of which may be killed at any point
CONSTANTS
  m1 = m1
  m2 = m2
  h = h
  NULL = NULL
  Mirrors <- MCMirrors
  Hosts <- MCHosts
  HostOf <- MCHostOf
  Published <- MCPublished
  NumRoots = 2
  Top <- MCTop
  MaxRuns = 2
SPECIFICATION FairSpec
INVARIANTS
  TtyTypeOK
  RunsInOrder
  CheckedMeansIntact
  GivesUpLast
  NoArchiveLeft
  StatusCounts
PROPERTIES
  ImplementsUpdateRun
  RunEnds
CHECK_DEADLOCK FALSE
