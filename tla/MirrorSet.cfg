\* urlset.c: mirrors added, shuffled, handed out, failed, preferred, reloaded
CONSTANTS
  m1 = m1
  m2 = m2
  m3 = m3
  disk = disk
  h1 = h1
  h2 = h2
  NULL = NULL
  Mirrors <- MCMirrors
  Hosts <- MCHosts
  HostOf <- MCHostOf
SPECIFICATION RotationSpec
INVARIANTS
  MirrorTypeOK
  NoMirrorLost
  DiskBeforeNetwork
  FairRotation
PROPERTIES
  SavedSiteFirst
