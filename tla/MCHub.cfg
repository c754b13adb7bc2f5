\* Two streams, two broadcasts at a time, channels for one message.
SPECIFICATION HubFairSpec
CONSTANTS
  Streams = {s1, s2}
  Broadcasts = {b1, b2}
  Capacity = 1
  MaxVersion = 2
CHECK_DEADLOCK FALSE
INVARIANTS HubTypeOK NoSendOnClosed NewestIsSeen
PROPERTY GoneMeansReturned
