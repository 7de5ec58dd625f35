SPECIFICATION Spec
CONSTANTS
  Proc = {p1, p2, p3}
  Sleeper = {p3}
  Forked = {}
  Priority = {0, 3}
  Half = 4
  idleproc = idleproc
  NULL = NULL
PROPERTIES
  PicksFirst
