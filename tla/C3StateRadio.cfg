SPECIFICATION Spec
CONSTANTS
  PreDeployTimeout = 1
  Attempts = 0
  ReattemptTimeout = 0
  TxTimeout = 1
  EdlTimeout = 1
  ResetTimeout = 1
  StoreEvery = 2
  FlightMode = TRUE
  BatteryGood = TRUE
  Writers = {edl}
  FramOrder <- StatusOnly
  ClockSteps <- StepBack
  MaxAhead = 1
  OperatorStates = {"INVALID"}
  Environment = {"packet","beacon"}
  Upsets = {}
  MaxUpsets = 0
  Never = Never
  NoKey = NoKey
  Keys = {}
INVARIANTS TypeOK AtMostOneLateBeacon NoBeaconWhenStale SessionEntersEdl NoResetInSession
