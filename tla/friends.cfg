SPECIFICATION MCSpec
CONSTANTS
  u1 = u1
  u2 = u2
  u3 = u3
  u4 = u4
  Users = {u1, u2, u3, u4}
  Handlers = {1, 2, 3, 4, 5}
  Scenes = {"pair", "crossed", "crowd", "capped"}
  MaxBusy = 3
  Overlap = 2
  Refused <- NobodyRefused
  MayBlock <- OneBlock
  MaxPending = 1
  NoUser = NoUser
  NoHandler = NoHandler
INVARIANTS TypeOK
PROPERTIES FriendsByConsent SealedByBlock CooldownSeals CapBounded DecisionsSettle CallsAnswered
CHECK_DEADLOCK FALSE
