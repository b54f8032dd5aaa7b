CONSTANTS
  NEIGHBOR_TABLE_SIZE = 5
  Addr = {1, 2, 3, 4, 5}
INIT MCInit
NEXT MCNext
INVARIANTS TypeOK HeardNeighborsRecorded
PROPERTY NeighborListRefined
