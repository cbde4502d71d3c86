SPECIFICATION FairSpec
CONSTANTS
  Nobody = Nobody
  Retries = 1
  Bills = {1, 2, 5}
  CostCap = 4
  TokenCap = 3
CHECK_DEADLOCK FALSE
INVARIANTS TypeOK NoChildLeft TotalsAgree CapsHold ToldOnce
PROPERTIES RunnerEnds
