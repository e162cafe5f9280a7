SPECIFICATION FairSpec
CONSTANTS
  PackLevels <- Charges
  MaxUpsets = 1
  Missions = {"beecon", "prism", "osiris_b1"}
  OperatorStates = {0, 1, 3, 255}
PROPERTIES NoBounce OffObeyed PowersaveCuts GpsRests
