SPECIFICATION Spec
CONSTANTS
  m1 = m1
  m2 = m2
  e1 = e1
  e2 = e2
  s1 = s1
  s2 = s2
  master = master
  MasterNodes = {m1, m2}
  FirstLeader = m1
  Eids = {e1, e2}
  Gids = {master, s2}
  MasterGid = master
  Sids = {s1}
  slave_group_size = 2
  HEARTBEAT_DEAD_THRESHOLD = 2
  HEARTBEAT_BACKUP_VALUE = 1
  MaxRequest = 1
  MaxGen = 1
  MaxLog = 4
CHECK_DEADLOCK FALSE
INVARIANTS UnwrapsFind OneHome PublishedIsRunning ShutdownIsFinal
SYMMETRY Symmetry
