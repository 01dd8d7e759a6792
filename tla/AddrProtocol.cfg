\* The driver and the address server over one connection, with the
\* driver's writes split into reads anywhere and several reply lines
\* returned by one read: every callback carries its query's answer and
\* goes to a live object, whatever the server decoded or dropped, and
\* through the server's crash on a negative leftover.
CONSTANTS
  W = 2
  IN_BUF_SIZE = 12
  DATALEN = 3
  NAMEBYIP = 1
  IPBYNAME = 2
  Resolvable <- MC_Resolvable
  Digits <- MC_Digits
  MaxRequests = 2
  SplitReads = TRUE
  Queries <- MC_Queries
  UserAddrs <- MC_UserAddrs
  ResolveTo <- MC_ResolveTo
  QBUF = 12
  IPSIZE = 2
  Objects <- MC_Objects1
  o1 = o1
  o2 = o2
  NoObject = NoObject
  Undef = Undef
  MaxQueries = 2
  CoalescedReads = TRUE
SPECIFICATION Spec
INVARIANT TypeOK
INVARIANT CallbackAnswersQuery
 
\* The driver stops after MaxQueries and MaxRequests; both loops then idle.
CHECK_DEADLOCK FALSE
