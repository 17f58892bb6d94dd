CONSTANTS
  Users = {u1, u2}
  SuperUsers = {}
  Nobody = Nobody
  NoCode = NoCode
  MaxCodes = 1
  MaxDrops = 1
  MaxFaults = 0
  MaxResets = 0
  MaxInbox = 1
SPECIFICATION Spec
INVARIANTS CodeUsedOnce
CHECK_DEADLOCK FALSE
