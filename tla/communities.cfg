SPECIFICATION MCSpec
CONSTANTS
  Users = {u1, u2, u3}
  NCalls = 4
  MaxBusy = 2
  Invites = {i1}
  Posts = {p1}
  Visibilities <- AllVisibilities
  MaxCount = 4
  NoUser = NoUser
  NoId = NoId
SYMMETRY UserSymmetry
INVARIANTS TypeOK OneOwner ReactionsExact MemberCountIsExact
PROPERTIES InviteOnlyIsClosed SilentOutside
CHECK_DEADLOCK FALSE
