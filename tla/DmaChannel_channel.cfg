SPECIFICATION FairSpec
CONSTANTS t1 = t1 t2 = t2 t3 = t3 ch = ch
CONSTANT Channel = {ch}
CONSTANT DMA_LENGTH_CONTINUOUS = 5
CONSTANT Task = {t1, t2, t3}
CONSTANT Calls <- Calls_all
CONSTANT Errors = {"TE", "DME"}
\* After an error, a refusal or a continuous transfer all tasks may wait.
CHECK_DEADLOCK FALSE
INVARIANTS TypeOK ChannelBalance RequestQueued SetupFindsIdle EventHasWaiter RequestsInOrder
PROPERTY CallsReturn
