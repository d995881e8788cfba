SPECIFICATION UsersSpec
CONSTANTS
  MaxStarts = 3
  Mtime <- MCDistinct
  Threads = {t1, t2}
INVARIANTS
  ReplacedStopsWorking
