SPECIFICATION Spec
CONSTANTS
  Conns = {c1}
  FirstFiles = {1, 2, 3, 4}
INVARIANT Reopenable
