SPECIFICATION FairSpec
CONSTANTS
  N = 4
  TIMES = 2
  NoThread = NoThread
INVARIANTS
  OneOwner
  NoStoredSignal
  SignalledEats
PROPERTIES
  ImplementsDining
  AllQuit
