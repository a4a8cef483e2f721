SPECIFICATION MCSpec
CONSTANTS
  a1 = a1
  a2 = a2
  r1 = r1
  Actors = {a1, a2}
  LockThreshold = 5
  BaseLock = 1
  MaxLock = 6
  MaxCount = 8
  MaxAge = 1
  Passwords = {p1, p2}
  None = None
  Ids = {i1, i2}
  PathOf <- OneFile
  Secrets = {s1, s2}
  Oversize = {s2}
  Clients = {d1, d2}
  Absent = Absent
  Torn = Torn
  Services = {v1, v2}
  Servers = {w1}
  NoFile = NoFile
  NoToken = NoToken
  MaxTokens = 2
  Runs = {r1, r2}
  Accts = {k1, k2}
  Names <- AppNames
  Within <- AppWithin
  Letters <- TwoLetters
  MaxWord = 4
  Known <- KnownCommands
INVARIANTS CounterExact BackoffServed LockBounded RevealedForPassword LoadsStored TokensAgree CredentialsRemoved DeletesNamed SuggestsNearest
PROPERTY LockEnds
CHECK_DEADLOCK FALSE
