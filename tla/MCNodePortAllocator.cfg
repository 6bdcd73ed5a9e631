CONSTANTS
  minAPIServerPort = 1
  maxAPIServerPort = 4
SPECIFICATION Spec
INVARIANT GetFreeNodePortIsSmallestFree
