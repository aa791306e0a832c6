SPECIFICATION FairSpec
CONSTANT ifspi = ifspi
CONSTANT DMA_LENGTH_CONTINUOUS = 5
CONSTANT Task <- OneTask
CONSTANTS Words = 5 MaxTransfers = 4
\* It ends after MaxTransfers.
CHECK_DEADLOCK FALSE
INVARIANTS TypeOK NoOverrun BufferInOrder
PROPERTIES AllButLastWords TransferReceived
