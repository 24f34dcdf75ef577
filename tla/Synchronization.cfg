SPECIFICATION FairSpec
CONSTANTS
  Threads = {t1, t2, t3}
  Callers = {t1, t2}
  Statics = {default_type, fixed_ranges}
  SharedLocking = FALSE
INVARIANTS StateCountsHolders ReadersFindAllFilled
PROPERTIES ImplementsReadersWriterLock FreeLockIsTaken CallOnceReturns
