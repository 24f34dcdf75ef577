SPECIFICATION Spec
CONSTANTS
  Word = 24
  PointerSize = 1
  PoolAlignment = 2
  PageSize = 8
  Types <- KindsOfTypes
  Slots = {"s1", "s2"}
  Members = {"m1"}
  Counts = {2, 5, 12}
INVARIANTS FlagTellsMember ElementsApart OneOwnerEach HeapIntact
