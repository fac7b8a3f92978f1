SPECIFICATION Spec
CONSTANTS
  Accounts = {"owner"}
  NoOne = "nobody"
  MaxPairs = 1
  Tabs = {1}
  CookieEnds = TRUE
INVARIANT SignedInIsLetIn
CHECK_DEADLOCK FALSE
