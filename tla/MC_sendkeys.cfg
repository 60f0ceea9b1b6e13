CONSTANTS
  Groups = {0, 1}
  Pins = {4, 17, 31}
  Expanders = {0}
  Ports = {0, 1}
  Keys = {30, 48}
  GpioKey <- PinKeys
  XioKey <- PortsKeys
  LastPin = 31
  Regno <- RegnoBits
  BusErrors = TRUE
  WriteErrors = TRUE
  NULL = NULL
SPECIFICATION FairSpec
INVARIANTS TypeOK AllKeysInOrder StuckOnlyByFailure
PROPERTIES CallReturns KeepsPromise
CHECK_DEADLOCK FALSE
