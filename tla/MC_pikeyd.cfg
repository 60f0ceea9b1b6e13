CONSTANTS
  Pins = {4, 17}
  MatCnt = 1
  RptFlg <- NoRepeat
  KeyRepeat = FALSE
  BounceTime = 1
  Tick = 4
  RptTime <- CodeTimes
  Expanders = {0}
  Ports = {0}
  Keys = {30, 48}
  GpioKey <- PinKeys
  XioKey <- PortKey
  LastPin = 17
  Regno <- RegnoBits
  BusErrors = TRUE
  WriteErrors = FALSE
  NULL = NULL
  XioMask = {17}
  Wired <- Switches
  Enabled <- AllEnabled
SPECIFICATION FairSpec
INVARIANTS TypeOK NoPortChangeMissed
PROPERTIES NoGhostPress PressIsSent InterruptIsAnswered
