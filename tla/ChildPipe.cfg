\* gpg_verify.c, update.c: the parent, its child and the pipe between them
CONSTANTS
  Servers = 2
  Output <- MCOutput
  PipeCapacity = 2
SPECIFICATION FairSpec
INVARIANTS
  PipeTypeOK
  AnswerIsTheChilds
  StatusIsTheChilds
  NoChildLeft
PROPERTIES
  Returns
CHECK_DEADLOCK FALSE
