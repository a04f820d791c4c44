\* gpg_verify.c: gpg ends between the timeout of select() and waitpid()
CONSTANTS
  Servers = 2
  Output <- MCOutput
  PipeCapacity = 2
SPECIFICATION Spec
INVARIANTS
  VerdictIsHeard
CHECK_DEADLOCK FALSE
