SPECIFICATION FairSpec
CONSTANTS
  Nobody = Nobody
  Retries = 1
  Bills = {1}
  CostCap = 4
  TokenCap = 3
CHECK_DEADLOCK FALSE
PROPERTIES ParkKept
