CONSTANTS
  u1 = u1
  u2 = u2
  k1 = k1
  Proc = {u1, u2, k1}
  KThread <- MCKThread
  initproc = initproc
  idleproc = idleproc
  NoProc = NoProc
  AnyChild = AnyChild
  Killable = {u1, u2, k1, initproc}
  MaxSleep = 2
  MAX_TIME_SLICE = 2
  STDIN_BUFSIZE = 2
SPECIFICATION Spec
SYMMETRY UserSymmetry
INVARIANTS
  TypeOK RunQueueExact NoLostWakeup StackLinksLive
  NoPanic NoDanglingProc ParentAlive NrProcessExact
PROPERTIES
  ImplementsSleepTimers ReapedByParent
