SPECIFICATION Spec
SYMMETRY MCSymmetry
CHECK_DEADLOCK FALSE
CONSTANTS
  p1 = p1
  p2 = p2
  f1 = f1
  f2 = f2
  stdin = stdin
  Proc = {p1, p2}
  initproc = initproc
  Fd <- MCFd
  File = {f1, f2}
  Device = {stdin}
  root = root
  NoNode = NoNode
  MAX_INODE_COUNT = 6
  MaxLeak = 1
INVARIANTS
  RefExact
  InMemory
  AssertsHold
