SPECIFICATION FairSpec
CONSTANTS
  Contacts = {c1}
  Kits = {kit1}
  Requests = {r1, r2, r3}
  None = none
  CodeTtl = 1
  TokenTtl = 1
  Window = 2
  MaxChallenges = 2
  MaxAttempts = 2
CHECK_DEADLOCK FALSE
INVARIANTS TypeOK QuotaHolds KitOnlyForCode
PROPERTY LimitLifts
