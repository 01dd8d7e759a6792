\* The address server's loop with a batch limit above the number of events
\* one select() can produce (1 + MAX_CONNS): fds never go stale, the
\* server never reads a blocking socket with nothing to read, and every
\* request is read.
CONSTANTS
  Conns <- MC_Conns
  k1 = k1
  k2 = k2
  k3 = k3
  NoFd = NoFd
  MAX_CONNS = 2
  MAX_EVENTS_TO_PROCESS = 3
  ConnFd = 3
  FirstFd = 4
  MaxData = 2
SPECIFICATION Spec
INVARIANT TypeOK
INVARIANT StaleFdNotLive
INVARIANT NeverBlocks
PROPERTY RequestsRead
