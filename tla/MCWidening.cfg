CONSTANTS
  INF = 32767
  N = 3
  MaxIters = 1000
  Systems <- GrowingLoop
SPECIFICATION Spec
INVARIANT GrowthReachesInfinity
