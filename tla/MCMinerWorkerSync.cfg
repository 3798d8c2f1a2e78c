CONSTANTS
  Work = {w1, w2}
  WID_MOD = 4
  WORK_HISTORY = 3
  RESYNC_AFTER = 2
  FOUND_DEPTH = 2
  MAX_FAULTS = 1
  SYNC = SYNC
  PARK = PARK
  OLD = OLD
  None = None
SPECIFICATION Spec
INVARIANT SyncLearnsItsId
