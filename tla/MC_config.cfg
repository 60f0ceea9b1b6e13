CONSTANTS
  Keys = {30}
  MatTags = {M1, M2}
  XioTags = {X1, X2, X3}
  PinTexts <- MixedTexts
  PortTexts = {0, 1, 8}
  Pins = {8, 17}
  Ports = {0, 1}
  Modes = {0, 2}
  MaxXioDevs = 3
  MaxEvents = 3
  None = None
SPECIFICATION Spec
INVARIANTS TypeOK PinsHaveOneUse ReadyForPolling InterruptsMarked ExpandersApart HandsOver
PROPERTIES ConfigOnlyGrows
SYMMETRY Interchangeable
