SPECIFICATION ReadersSpec
CONSTANTS
  MaxStarts = 4
  Mtime <- MCMtime
  Tasks = {t1, t2}
  Threads = {t1, t2}
CONSTRAINT OneKind
INVARIANTS
  TypeOK
  TryLoadFresh
  DownMatchesNothing
  FreshUnlessReplacedMidCall
