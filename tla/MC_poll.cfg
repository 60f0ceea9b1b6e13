CONSTANTS
  Pins = {4, 17}
  MatCnt = 1
  GpioMask <- PollMask
  RptFlg <- PollRpt
  KeyRepeat = FALSE
  XioPins = {4}
  XioMask = {4}
  BounceTime = 2
  Tick = 4
  RptTime <- ScaledTimes
SPECIFICATION HFairSpec
INVARIANTS HTypeOK DebounceInv RepeatInv
PROPERTIES Refines KeyFromOwnContact PressIsReported HeldKeyRepeats InterruptIsServed
