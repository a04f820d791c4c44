\* patchset.c: an upgrade of an add-on is unticked
CONSTANTS
  Game = Game
  Addon = Addon
  Pack = Pack
  NULL = NULL
  Components <- MCComponents
  Main = Game
  Installed <- PackInstalled
  Entries <- WellFormed
  MaxEntries = 4
SPECIFICATION Spec
CONSTRAINT Distinct
PROPERTIES
  FallsBackInOwnTree
CHECK_DEADLOCK FALSE
