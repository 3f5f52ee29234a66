SPECIFICATION Spec
CONSTANTS
  Call = {c1, c2}
  Url = {u1, u2}
  MaxRetries = 1
  MaxHops = 1
  Unwritable = {c2}
INVARIANTS TypeOK AuditAgrees StaysPut RequestsBounded
PROPERTIES CallsEnd ImplementsAuditedCalls
CHECK_DEADLOCK FALSE
