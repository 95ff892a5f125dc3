\* Two slots and five packets: every slot is used twice and more.
CONSTANTS
  Window = 2
  FlushAt = 1
  Capacity = 1
  Unreliable = TRUE
  MaxMsgs = 3
  MaxSeq = 5
  MaxLoss = 1
  MaxDup = 1
  Disconnect = Disconnect
SPECIFICATION Spec
INVARIANTS
  TypeOK
  AppliedAtMostOnce
  FaithfulPackets
PROPERTIES ImplementsDelivery
\* The session ends, and the bounds stop the server.
CHECK_DEADLOCK FALSE
