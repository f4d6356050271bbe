SPECIFICATION MCSpec
CONSTANTS
  Tabs = {h1, h2}
  Admins = {a1}
  Sweepers = {s1, s2}
  Tokens = {t1, t2}
  Bans = {b1}
  Penalties = {"suspended", "banned"}
  MaxBusy = 2
  None = None
INVARIANTS BrowserGoesOn
PROPERTIES TeardownSeals PenaltyHolds BlockedLosesAccess BansLapse
CHECK_DEADLOCK FALSE
