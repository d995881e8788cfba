CONSTANTS
  Configs <- MCConfigs
  Settings <- MCSettings
  Lines <- MCLines
  MiB = 4
  UsizeMax = 15
  Unset = Unset
  Unreadable = Unreadable
SPECIFICATION Spec
INVARIANTS
  LastSourceWins
  CacheGrowsWithSetting
CHECK_DEADLOCK FALSE
