\* Round robin, command integrity and service of flagged commands, with two
\* slots, taken by the first connection's growth of all_users[] and by a free-slot reuse.
CONSTANTS
  MAX_TEXT = 16
  Slots = {0, 1}
  GROW = 2
  Chunks <- MC_ChunksRR
  SetCallModes = {FALSE, TRUE}
  MaxKeys = 3
  MaxConnects = 2
SPECIFICATION Spec
INVARIANT TypeOK
INVARIANT RoundRobin
INVARIANT CommandsAsTyped
PROPERTY CommandFlagServed
CHECK_DEADLOCK FALSE
