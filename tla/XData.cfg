SPECIFICATION MCSpec
CONSTANTS
  din = din
  upper = upper
  dout = dout
  pd = pd
  pq = pq
  main = main
  extra = extra
  None = None
  Signals = {din, upper, dout}
  Pins = {pd, pq}
  NativePins = {pd}
  Ports = {main, extra}
  Names = {"d", "u", "q"}
  Under = {"d"}
  Ints = {3}
  Levels = {3}
  MaxCalls = 2
  MaxSetup = 1
  DeviceValues <- MCDevice
  Reaction <- MCReaction
  Texts <- MCTexts
  PinWidth <- MCPinWidth
  MaxSteps = 32
  mWidth <- MCWidth
  Wire <- MCWire
  Peer <- MCPeer
  NameOrder <- MCOrder
  Attached <- MCAttached
INVARIANTS
  TypeOK
  ObserverIsCurrent
  EdgeDelivers

  
