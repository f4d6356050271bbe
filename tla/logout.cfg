SPECIFICATION MCSpec
CONSTANTS
  Tabs = {h1}
  Admins = {}
  Sweepers = {s1}
  Tokens = {t1, t2}
  Bans = {}
  Penalties = {}
  MaxBusy = 1
  None = None
PROPERTIES LogoutRevokes
CHECK_DEADLOCK FALSE
