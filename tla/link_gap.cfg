\* As link_repair, with packets of unreliable data only in between.
CONSTANTS
  Window = 5
  FlushAt = 1
  Capacity = 1
  Unreliable = TRUE
  MaxMsgs = 3
  MaxSeq = 5
  MaxLoss = 1
  MaxDup = 0
  Disconnect = Disconnect
SPECIFICATION Spec
PROPERTIES MissedIsRetransmitted
CHECK_DEADLOCK FALSE
