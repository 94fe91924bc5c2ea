\* The chain of blocks with a free slot, in the firmware's order of clearing and
\* reading its link: blocks of three slots in a zone that has room for two of them and no more.
SPECIFICATION Spec
CONSTANTS
  ZoneSize = 9
  Header = 1
  MinFragment = 1
  Types <- MCTypes
  SlotSize <- MCSlotSize
  NumSlots = 3
  SpecialSize = 1
  MaxThinkers = 4
  MaxStatic = 1
VIEW MCView
CHECK_DEADLOCK FALSE
INVARIANT
  AllPartialLinked
