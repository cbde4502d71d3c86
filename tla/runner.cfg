SPECIFICATION FairSpec
CONSTANTS
  Tiers = {"M"}
  IterationCap <- CapsOfTiers
  CostCap = 2
  CostBump = 1
  Interactive = TRUE
  MaxFallbacks = 1
  Diligent = TRUE
  MaxCritical = 1
  MaxStarts = 2
CHECK_DEADLOCK FALSE
INVARIANTS TypeOK ApprovalCurrent AnswersHeeded
PROPERTIES CapStops WorkKept Terminates
