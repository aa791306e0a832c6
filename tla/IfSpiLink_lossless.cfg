SPECIFICATION FairSpec
CONSTANTS
  NET_PARENT_BUFFER_SIZE = 2
  BUFHDR_SIZE = 1
  MAX_BUFFERS = 6
  PacketSizes = {1, 4}
  EmptyTails = FALSE
  MaxSends <- Sends_2_1
PROPERTIES ImplementsLosslessChannel EventuallyReceived
