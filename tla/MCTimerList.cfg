SPECIFICATION Spec
CONSTANTS
  Sleeper = {p1, p2, p3, p4, p5}
  MaxTicks = 4
SYMMETRY SleeperSymmetry
INVARIANTS
  AssertHolds
PROPERTY
  ImplementsSleepTimers
