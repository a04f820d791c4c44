\* load_patchset.c: one list after another, with errors and other products
CONSTANTS
  game = game
  tool = tool
  m1 = m1
  m2 = m2
  Products = {game, tool}
  OnDisk = {tool}
  Texts <- MCTexts
  Entries <- MCEntries
  Orders <- MCOrders
  MaxEntries = 3
  Machine = {"any", "x86"}
SPECIFICATION Spec
INVARIANTS
  ListTypeOK
  EntriesAsWritten
  NothingLeaks
  MirrorsAsWritten
