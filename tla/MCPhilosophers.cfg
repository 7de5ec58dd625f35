SPECIFICATION FairSpec
CONSTANTS
  N = 4
  TIMES = 2
  NoThread = NoThread
INVARIANTS
  TypeOK
  ForksAnnounced
PROPERTIES
  ImplementsDining
  AllQuit
