SPECIFICATION FairSpec
CONSTANTS
  Conns = {c1, c2}
  FirstFiles = {0, 1, 2, 3, 4, 5}
INVARIANTS VersionVouches OpenIsCurrent
PROPERTY OpenSucceeds
