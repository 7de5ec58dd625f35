CONSTANTS
  u1 = u1
  u2 = u2
  k1 = k1
  Proc = {u1, u2}
  KThread <- MCKThread
  initproc = initproc
  idleproc = idleproc
  NoProc = NoProc
  AnyChild = AnyChild
  Killable = {u1, u2, initproc}
  MaxSleep = 1
  MAX_TIME_SLICE = 1
  STDIN_BUFSIZE = 1
SPECIFICATION FairSpec
PROPERTIES KilledDies
