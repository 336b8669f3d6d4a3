SPECIFICATION Spec
CONSTANTS
  r1 = r1
  r2 = r2
  r3 = r3
  bad = bad
  NoReading = NoReading
  NoInstall = NoInstall
  Threads = {1, 2}
  Readings = {r1, r2, r3, bad}
  Rejected = {bad}
  MaxOutbox = 2
  MaxCrashes = 0
  MaxCopies = 2
INVARIANT
  NothingIsLost
CHECK_DEADLOCK FALSE
