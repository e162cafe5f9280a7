SPECIFICATION Spec
CONSTANTS
  octavo = octavo
  stm = stm
  NoNode = NoNode
  NodeOrder <- OneStm
  OnOpd = {stm}
  CanOpen = {stm}
  Processor <- ProcessorOf
  AlwaysOn = {stm}
  Child <- Childless
  MaxResets = 2
  BootTimeout <- Boot2
  HbTimeout = 1
  ProbeEvery = 1
  FlightMode = TRUE
  Commands = {"enable","disable","opd","sysenable","scan","probe","cut"}
  Flashed = {stm}
  Upsets = {"trip", "hang", "lose", "brownout", "bus"}
  MaxUpsets = 1
INVARIANTS TypeOK
PROPERTIES ShieldHolds RetiredStaysOff
