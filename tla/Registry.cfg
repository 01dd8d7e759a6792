\* The registry with the mudlib calling snoop(), exec() and destruct()
\* between driver steps and inside net_dead(), and connect() returning any
\* object: the snoop links stay symmetric and acyclic and all_users and
\* num_user track the live interactives, up to the first write through
\* freed memory.
CONSTANTS
  m = m  o1 = o1  o2 = o2  c1 = c1  c2 = c2  c3 = c3
  None = None
  Objects <- MC_Objects
  Master = m
  Conns <- MC_Conns
  GROW = 2
SYMMETRY MC_Symmetry
SPECIFICATION Spec
INVARIANT TypeOK
INVARIANT SnoopLinksSymmetric
INVARIANT NoSnoopCycle
INVARIANT SlotsTrackLive
\* The mudlib may stop calling; the driver then idles.
CHECK_DEADLOCK FALSE
