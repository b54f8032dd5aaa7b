CONSTANTS
  NETDEV_PKT_QUEUE_SIZE = 2
  NETDEV_NETAPI_MSG_QUEUE_SIZE = 8
  NEIGHBOR_TABLE_SIZE = 2
  MAX_RETRIES = 1
  MAX_CSMA_BACKOFFS = 1
  UnicastOutcomes = {"TX_COMPLETE", "TX_NOACK", "TX_MEDIUM_BUSY"}
  MaxSends = 2
  MaxRx = 1
  MaxRxQueueing = 1
  MaxCtl = 1
  MaxCtlQueueing = 0
SPECIFICATION LiveSpec
PROPERTY RadioEventuallyFree
CHECK_DEADLOCK FALSE
