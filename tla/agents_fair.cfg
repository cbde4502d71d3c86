SPECIFICATION FairSpec
CONSTANTS
  a1 = a1
  a2 = a2
  m1 = m1
  m2 = m2
  pa = pa
  pb = pb
  None = None
  Tasks = {a1}
  Messages = {m1, m2}
  Projects = {pa}
  Roles = {"subagent"}
  RoleOf <- Same
  Prompts = {"q1"}
  MaxHops = 2
  MaxTotal = 2
  MaxPerRole = 2
  MaxRepeat = 1
  MaxPicks = 1
  MaxKills = 1
CHECK_DEADLOCK FALSE
PROPERTIES QueueDrains
