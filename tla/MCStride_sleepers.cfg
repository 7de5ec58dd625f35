SPECIFICATION Spec
CONSTANTS
  Proc = {p1, p2, p3, p4}
  Sleeper = {p3}
  Forked = {p4}
  Priority = {0, 3}
  Half = 4
  idleproc = idleproc
  NULL = NULL
INVARIANTS
  HeapExact
  HeapOrdered
