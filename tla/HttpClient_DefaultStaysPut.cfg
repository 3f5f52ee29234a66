SPECIFICATION Spec
CONSTANTS
  Call = {c1}
  Url = {u1, u2}
  MaxRetries = 1
  MaxHops = 1
  Unwritable = {}
INVARIANT DefaultStaysPut
CHECK_DEADLOCK FALSE
