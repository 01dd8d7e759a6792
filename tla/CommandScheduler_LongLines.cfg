\* One connection typing lines long enough to fill ip->text: compaction and
\* reset in get_user_data() and the integrity of the commands served.
CONSTANTS
  MAX_TEXT = 16
  Slots = {0}
  GROW = 1
  Chunks <- MC_ChunksLong
  SetCallModes = {}
  MaxKeys = 16
  MaxConnects = 1
SPECIFICATION Spec
INVARIANT TypeOK
INVARIANT CommandsAsTyped
CHECK_DEADLOCK FALSE
