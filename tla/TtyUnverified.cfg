\* tty_ui.c: is every archive checked before it is executed?
CONSTANTS
  m1 = m1
  m2 = m2
  h = h
  NULL = NULL
  Mirrors <- MCMirrors
  Hosts <- MCHosts
  HostOf <- MCHostOf
  Published <- MCPublished
  NumRoots = 2
  Top <- MCTop
  MaxRuns = 1
SPECIFICATION Spec
INVARIANTS
  VerifiedBeforeRun
CHECK_DEADLOCK FALSE
