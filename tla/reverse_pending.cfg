SPECIFICATION MCSpec
CONSTANTS
  u1 = u1
  u2 = u2
  u3 = u3
  u4 = u4
  Users = {u1, u2}
  Scenes = {"pair"}
  Overlap = 1
  Handlers = {1, 2, 3}
  MaxBusy = 2
  Refused <- NobodyRefused
  MayBlock <- NoBlocks
  MaxPending = 2
  NoUser = NoUser
  NoHandler = NoHandler
PROPERTIES FriendsOweNothing
CHECK_DEADLOCK FALSE
