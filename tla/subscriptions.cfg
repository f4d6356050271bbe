SPECIFICATION FairSpec
CONSTANTS
  Users = {u1}
  Calls = {c1, c2}
  Sweeps = {s1, s2}
  MaxRows = 2
  MaxFails = 1
  NoUser = NoUser
INVARIANTS TypeOK
PROPERTIES CacheFollowsRows ExtensionsHold LapsedRowsEnd
CHECK_DEADLOCK FALSE
