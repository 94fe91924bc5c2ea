\* Blocks of three slots in a zone that has room for two of them and no more.
SPECIFICATION Spec
CONSTANTS
  ZoneSize = 9
  Header = 1
  MinFragment = 1
  Types <- MCTypes
  SlotSize <- MCSlotSize
  NumSlots = 3
  SpecialSize = 1
  MaxThinkers = 4
  MaxStatic = 1
VIEW MCView
CHECK_DEADLOCK FALSE
INVARIANTS
  TypeOK
  ZoneTiled
  NoFalsePanic
  ListIntact
  MemoryAgrees
  ChainSound
  LazyRemovalDone
PROPERTIES
  UsesZone
