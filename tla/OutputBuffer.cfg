\* The ring buffer implements the abstract output stream.
CONSTANTS
  MESSAGE_BUF_SIZE = 3
  KernelCap = 2
  Messages <- MC_Messages
  MaxCalls = 4
SPECIFICATION Spec
INVARIANT TypeOK
PROPERTY OutputStreamRefined
\* The server really sits idle once no more output is produced and the
\* peer stops reading.
CHECK_DEADLOCK FALSE
