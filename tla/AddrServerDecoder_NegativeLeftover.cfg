\* A valid request read in three pieces drives num_bytes below zero.
CONSTANTS
  W = 2
  IN_BUF_SIZE = 28
  DATALEN = 3
  NAMEBYIP = 1
  IPBYNAME = 2
  Requests <- MC_Requests
  Resolvable <- MC_Resolvable
  Digits <- MC_Digits
  MaxRequests = 3
  SplitReads = TRUE
SPECIFICATION Spec
INVARIANT LeftoverWithinBuffer
\* The driver stops after MaxRequests requests; the server then idles.
CHECK_DEADLOCK FALSE
