SPECIFICATION Spec
CONSTANTS
  None = None
  MaxRounds = 3
  Confs <- MCConfs
CHECK_DEADLOCK FALSE
INVARIANTS TypeOK Escalated QuotaSpared LimitsReported LedgerCovered
