SPECIFICATION LiveSpec
CONSTANTS
  SessionIds = {tab1, tab2}
  Users = {ann, bob}
  Nobody = Nobody
  Never = Never
  Batch = 1
  MaxDelay = 1
  IdleDelay = 1
  Ttls = {2}
  MaxTtl = 2
  MaxRows = 2
  WriteFailures = TRUE
INVARIANTS
  OnlyMembersConnected
  AuditTrail
  AuditShown
PROPERTIES
  ExpiredAreClosed
  UnusedRoomsClose
