SPECIFICATION FairSpec
CONSTANTS
  r1 = r1
  r2 = r2
  Nobody = Nobody
  Rooms = {r1, r2}
  Budget = 100
  TurnsAllowed = 2
  Limit = 1
  MaxParseRetries = 1
  Models <- Masks
  Backend <- MaskBackend
  Floor <- MaskFloor
  Bills = {60}
  Markup = 2
  FilesLeft = {0, 2}
  FilesSent = 1
CHECK_DEADLOCK FALSE
INVARIANTS TypeOK SlotsAccounted AnsweredOrDeaf BillsCovered PaidWorkDelivered
PROPERTIES RoomConcludes KeepsContract
