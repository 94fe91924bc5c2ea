\* Four columns over three index slots and every hash function into two
\* buckets; two tall columns over two tall slots; a clock that wraps.
SPECIFICATION Spec
VIEW MCView
CONSTANTS
  Keys <- MCKeys
  Buckets <- MCBuckets
  Hashes <- MCHashes
  Capacity = 3
  None = None
  Flats <- MCFlats
  TallSlots = 2
  ClockMod = 3
  Tall <- MCTall
  Huge <- MCHuge
  Undecodable <- MCUndecodable
INVARIANTS
  TypeOK
  PixelsRight
  CachesCoherent
  OneCopy
  ChainsWellFormed
  RecencyWellFormed
PROPERTIES
  ImplementsLRU
