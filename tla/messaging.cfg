SPECIFICATION MCSpec
CONSTANTS
  Calls = {c1, c2}
  Sweepers = {s1, s2}
  Viewers = {bob}
  Assets = {m1}
  MaxMessages = 2
  MaxBusy = 2
  MaxFails = 1
  Scenes = {"page", "media", "friends_media"}
  None = None
INVARIANTS ActiveHasBytes
PROPERTIES EndSeals GoneIsTold  MessagesReach
CHECK_DEADLOCK FALSE
