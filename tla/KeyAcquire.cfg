SPECIFICATION AcquireLiveSpec
CONSTANTS
  Callers = {a, b}
  Keys = {k1}
  PoolCap = 1
  NoKey = NoKey
  Nobody = Nobody
INVARIANTS WaitIsSound
PROPERTIES AcquireEnds FreedSlotWakes
