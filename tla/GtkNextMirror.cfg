CONSTANTS
  m1 = m1
  m2 = m2
  m3 = m3
  h1 = h1
  NULL = NULL
  UNKNOWN = UNKNOWN
  Mirrors <- MCMirrors
  Hosts <- MCHosts
  HostOf <- MCHostOf
  NumProducts = 3
  Top <- MCTop
  Published <- MCPublished
SPECIFICATION MainSpec
INVARIANT MirrorWishKept
CHECK_DEADLOCK FALSE
