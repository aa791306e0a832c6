SPECIFICATION FairSpec
CONSTANTS
  NET_PARENT_BUFFER_SIZE = 2
  BUFHDR_SIZE = 1
  MAX_BUFFERS = 3
  PacketSizes = {1, 6}
  EmptyTails = TRUE
  MaxSends <- Sends_2_1
INVARIANTS WireFits TxPointerLive NoLostWakeup BuffersConserved TotalLength
PROPERTIES ImplementsChannel QueueDrains
