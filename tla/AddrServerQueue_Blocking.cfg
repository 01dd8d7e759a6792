\* With a batch limit of 2, two readable connections and a new one fill
\* one select() with three events; the third stays queued, the next
\* select() queues the same fd again, and its second CONN event reads a
\* drained socket that accept() left blocking.
CONSTANTS
  Conns <- MC_Conns
  k1 = k1
  k2 = k2
  k3 = k3
  NoFd = NoFd
  MAX_CONNS = 2
  MAX_EVENTS_TO_PROCESS = 2
  ConnFd = 3
  FirstFd = 4
  MaxData = 2
SPECIFICATION Spec
INVARIANT NeverBlocks
