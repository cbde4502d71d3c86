SPECIFICATION FairSpec
CONSTANTS
  t1 = t1
  t2 = t2
  None = None
  Tasks = {t1, t2}
  AutoResumes = 1
  Bound <- Few
  MaxEvents = 3
CHECK_DEADLOCK FALSE
INVARIANTS AnswersMatch ResumesPaid
PROPERTIES PauseEnds
