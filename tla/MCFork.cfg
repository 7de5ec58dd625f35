SPECIFICATION Spec
SYMMETRY MCSymmetry
CHECK_DEADLOCK FALSE
CONSTANTS
  p1 = p1
  p2 = p2
  Proc = {p1, p2}
  initproc = initproc
  NFrame = 8
  KSTACKPAGE = 2
  MAX_PID = 5
  MAX_PROCESS = 4
  EXEC_MAX_ARG_NUM = 2
  MaxPages = 2
INVARIANTS
  FramesExact
  AllocatesIfItCan
  PidsDistinct
