\* Every packet carries reliable data and keeps its slot; one datagram is lost.
CONSTANTS
  Window = 4
  FlushAt = 1
  Capacity = 2
  Unreliable = FALSE
  MaxMsgs = 3
  MaxSeq = 4
  MaxLoss = 1
  MaxDup = 1
  Disconnect = Disconnect
SPECIFICATION FairSpec
PROPERTIES MissedArrives
\* The session ends, and the bounds stop the server.
CHECK_DEADLOCK FALSE
