CONSTANTS
  Children = {c1, c2, c3}
  TxOutcomes = {"TX_COMPLETE", "TX_COMPLETE_DATA_PENDING", "TX_NOACK", "TX_MEDIUM_BUSY"}
  StrictCaller = TRUE
  Channels = {11, 26}
  Powers = {0, 4}
  PanIds = {43981}
  ShortAddrs = {4660}
SPECIFICATION Spec
INVARIANTS TypeOK AckPendingMatchesTables DriverConfigMatchesCaller
PROPERTY TxDoneReported
