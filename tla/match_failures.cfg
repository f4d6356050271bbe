SPECIFICATION FairSpec
CONSTANTS
  u1 = u1
  u2 = u2
  u3 = u3
  Users = {u1, u2}
  Reqs = {r1, r2, r3}
  Modes = {"text"}
  Genders = {"other"}
  Gender <- OneGender
  Prefs = {"all"}
  Kinds = {"join", "leave_queue", "leave_session", "report", "disconnect", "connect", "heartbeat"}
  MayBlock <- NoBlocks
  MaxFails = 2
  MaxCrashes = 1
  NoUser = NoUser
  NoReq = NoReq
INVARIANTS TypeOK SessionsOfThisBoot
PROPERTIES GhostsSwept ReportedSessionsEnd
CHECK_DEADLOCK FALSE
