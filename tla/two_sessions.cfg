SPECIFICATION Spec
CONSTANTS
  u1 = u1
  u2 = u2
  u3 = u3
  Users = {u1, u2, u3}
  Reqs = {r1, r2, r3, r4}
  Modes = {"text"}
  Genders = {"other"}
  Gender <- OneGender
  Prefs = {"all"}
  Kinds = {"join"}
  MayBlock <- NoBlocks
  MaxFails = 0
  MaxCrashes = 0
  NoUser = NoUser
  NoReq = NoReq
SYMMETRY ReqUserSymmetry
INVARIANTS OneActiveSession
CHECK_DEADLOCK FALSE
