\* patchset.c: lists in any order, then the user's and the updater's choices
CONSTANTS
  Game = Game
  Addon = Addon
  Pack = Pack
  NULL = NULL
  Components <- MCComponents
  Main = Game
  Installed <- PackInstalled
  Entries <- WellFormed
  MaxEntries = 4
SPECIFICATION Spec
CONSTRAINT Distinct
INVARIANTS
  PatchTypeOK
  TreeOrdered
  OfferedIffAvailable
  PathsAreShortest
  PathsKeepTheirPatches
  SelectionIsToggled
PROPERTIES
  NewestSelected
  GivenUpStaysOut
CHECK_DEADLOCK FALSE
