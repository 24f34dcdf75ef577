SPECIFICATION FairSpec
CONSTANTS
  Msrs = {"synthetic"}
  CleanAtExit <- AllClean
  CpuIndices = {0, 64}
  ForcedExits = {"hlt", "mov_cr3"}
  FlushResults = {"success", "error"}
INVARIANTS NothingStale ShadowAgrees
PROPERTIES ImplementsBareCpu InsnRetires
