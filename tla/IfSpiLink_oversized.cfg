SPECIFICATION Spec
CONSTANTS
  NET_PARENT_BUFFER_SIZE = 2
  BUFHDR_SIZE = 1
  MAX_BUFFERS = 3
  PacketSizes = {5}
  EmptyTails = FALSE
  MaxSends <- Sends_1_0
INVARIANT NeverOversized
