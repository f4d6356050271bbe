SPECIFICATION Spec
CONSTANTS
  u1 = u1
  u2 = u2
  u3 = u3
  Users = {u1, u2, u3}
  Reqs = {r1, r2, r3, r4}
  Modes = {"text"}
  Genders = {"other", "female"}
  Gender <- TwoGenders
  Prefs = {"all", "female"}
  Kinds = {"join", "leave_queue"}
  MayBlock <- OneBlock
  MaxFails = 0
  MaxCrashes = 0
  NoUser = NoUser
  NoReq = NoReq
SYMMETRY ReqSymmetry
INVARIANTS NoStrandedPair
CHECK_DEADLOCK FALSE
PROPERTIES BlockSealsPairing
