CONSTANTS
  NETDEV_PKT_QUEUE_SIZE = 2
  NETDEV_NETAPI_MSG_QUEUE_SIZE = 8
  NEIGHBOR_TABLE_SIZE = 2
  ENABLE_BROADCAST_QUEUEING = FALSE
  Addr <- MCAddr
  MAX_RETRIES = 1
  MAX_CSMA_BACKOFFS = 1
  UnicastOutcomes = {"TX_COMPLETE", "TX_COMPLETE_DATA_PENDING", "TX_NOACK", "TX_MEDIUM_BUSY"}
  MaxSends = 1
  MaxRx = 0
  MaxCtl = 0
SPECIFICATION Spec
PROPERTY RadioEventuallyFree
CHECK_DEADLOCK FALSE
