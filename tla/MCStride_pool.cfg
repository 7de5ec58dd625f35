SPECIFICATION FairSpec
CONSTANTS
  Proc = {p1, p2, p3}
  Sleeper = {}
  Forked = {}
  Priority = {0, 2, 6}
  Half = 6
  idleproc = idleproc
  NULL = NULL
PROPERTIES
  ImplementsStridePool
  Served
