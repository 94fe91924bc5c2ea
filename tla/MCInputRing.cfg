\* The twelve bindings and the eight-slot ring of the firmware.
SPECIFICATION Spec
CONSTANTS
  Bindings <- MCAllBindings
  PairingChord <- MCPairingChord
  ResetChord <- MCResetChord
  PairingHold = 2
  ResetHold = 3
  MaxEvents = 8
  None = None
  Holds <- MCNineHolds
  Delays <- MCNoDelays
INVARIANTS
  NoStuckKey
