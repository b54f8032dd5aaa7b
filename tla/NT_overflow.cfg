CONSTANTS
  NEIGHBOR_TABLE_SIZE = 2
  Addr = {1, 2, 3}
INIT MCInit
NEXT MCNext
INVARIANT NeighborNumInBounds
