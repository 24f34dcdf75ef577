SPECIFICATION SSpec
CONSTANTS
  Fanout = 2
  MemoryTypes = {"wb"}
  Nodes = {n1, n2, n3, n4}
  null = null
  GuestAddrs <- TwoTablesGuests
  HostAddrs <- OneHost
  CommitFlags <- ReadWriteOnly
  Outcomes <- AllOutcomes
SYMMETRY NodeSymmetry
INVARIANTS PageEntrySplitable
