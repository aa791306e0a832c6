SPECIFICATION Spec
CONSTANTS
  None = None
  Ifspi = Ifspi
  other = other
  spi1 = spi1
  spi2 = spi2
  stream_tx = stream_tx
  stream_rx = stream_rx
  spi_tx = spi_tx
  spi_rx = spi_rx
  adc = adc
  spi_bus_name = spi1
  Client <- Clients
  Name <- Names
  BusIndex = {0}
  DevIndex = {0, 1}
  MaxBuses = 2
  DmaDev <- Streams
  Peri <- Peris
  StreamMap <- TheStreamMap
  DmaIntf <- TheDmaIntf
  CbIndex = {0, 1}
  User = {0, 1}
  MaxAttempts = 2
  MaxCalls = 6
INVARIANTS TypeOK HandleIsOwn SlotsAccounted OpensCounted HolderHasChannel TaskHasResources
PROPERTIES FailureIsFinal LostDevice
CHECK_DEADLOCK FALSE
