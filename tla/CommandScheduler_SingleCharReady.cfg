\* spec.md 4.4 single-character readiness: a byte buffered in line mode
\* before set_call() turns single-character mode on.
CONSTANTS
  MAX_TEXT = 16
  Slots = {0}
  GROW = 1
  Chunks <- MC_ChunksRR
  SetCallModes = {TRUE}
  MaxKeys = 3
  MaxConnects = 1
SPECIFICATION Spec
PROPERTY ReadyServed
CHECK_DEADLOCK FALSE
