SPECIFICATION Spec
CONSTANT ifspi = ifspi
CONSTANT DMA_LENGTH_CONTINUOUS = 5
CONSTANT Task <- OneTask
CONSTANTS Words = 3 MaxTransfers = 2
CHECK_DEADLOCK FALSE
PROPERTY BlocksForCompletion
