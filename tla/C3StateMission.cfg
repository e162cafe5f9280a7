SPECIFICATION FairSpec
CONSTANTS
  PreDeployTimeout = 1
  Attempts = 2
  ReattemptTimeout = 0
  TxTimeout = 1
  EdlTimeout = 1
  ResetTimeout = 1
  StoreEvery = 2
  FlightMode = TRUE
  BatteryGood = TRUE
  Writers = {}
  FramOrder <- StatusFirst
  ClockSteps <- NoSteps
  MaxAhead = 0
  OperatorStates = {}
  Environment = {"packet","update"}
  Upsets = {"crash", "fault", "reset", "factory"}
  MaxUpsets = 2
  Never = Never
  NoKey = NoKey
  Keys = {k1}
INVARIANTS NoRefire KeyKept
PROPERTIES ImplementsMission EventuallyOperational ResetHappens FailedIsReset
