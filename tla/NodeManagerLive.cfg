SPECIFICATION FairSpec
CONSTANTS
  octavo = octavo
  stm = stm
  NoNode = NoNode
  NodeOrder <- OneOctavo
  OnOpd = {octavo}
  CanOpen = {octavo}
  Processor <- ProcessorOf
  AlwaysOn = {octavo}
  Child <- Childless
  MaxResets = 1
  BootTimeout <- Boot1
  HbTimeout = 0
  ProbeEvery = 2
  FlightMode = TRUE
  Commands = {"disable","power","reset","probe"}
  Flashed = {octavo}
  Upsets = {"hang","lose","brownout","bus"}
  MaxUpsets = 1
PROPERTIES RetiredIsCut HungIsDealtWith AlwaysOnPowered
