CONSTANTS
  Threads = {t1, t2}
  Tasks = {1, 2, 3}
  Watchers = {w1, w2, w3}
  MaxAlive = 2
  MaxFree = 2
  None = None
SPECIFICATION SnifferFairSpec
INVARIANTS  RegistrySound
PROPERTIES EntryIsRemoved
CHECK_DEADLOCK FALSE
