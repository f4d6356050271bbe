SPECIFICATION MCSpec
CONSTANTS
  Users = {u1, u2}
  NCalls = 3
  MaxBusy = 2
  MaxFails = 1
  Replies = {r1}
  Options = {o1, o2}
  Names = {n1, n2}
  Tries = 2
  Post = post
  NoUser = NoUser
  None = None
INVARIANTS CountersExact ReactionsExact OneHandleForEver
PROPERTIES GoneIsClosed CallsAnswered
CHECK_DEADLOCK FALSE
