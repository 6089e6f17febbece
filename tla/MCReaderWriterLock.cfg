SPECIFICATION MCSpec
CONSTANTS
  Threads = {t1, t2, t3, t4}
  m_nbMaxReaders = 2
  MaxCalls = 2
INVARIANTS Bookkeeping WriterExclusion NoLostWakeup
PROPERTIES ImplementsSharedLock EveryCallServed
CHECK_DEADLOCK FALSE
