CONSTANTS
  Keys = {30}
  MatTags = {M1, M2}
  XioTags = {X1}
  PinTexts <- ValidTexts
  PortTexts = {0}
  Pins = {8, 17}
  Ports = {0, 1}
  Modes = {0, 2}
  MaxXioDevs = 2
  MaxEvents = 2
  None = None
SPECIFICATION Spec
INVARIANTS InterruptsAreRead
