\* Five buttons on an eight-slot ring; 3 and 5 s are 2 and 3 units of time.
SPECIFICATION Spec
VIEW MCView
CONSTANTS
  Bindings <- MCBindings
  PairingChord <- MCPairingChord
  ResetChord <- MCResetChord
  PairingHold = 2
  ResetHold = 3
  MaxEvents = 8
  None = None
  Holds <- MCHolds
  Delays <- MCDelays
INVARIANTS
  TypeOK
  NoStuckKey
  ChordSilent
  HoldMakesRequest
PROPERTIES
  OneRequestPerHold
