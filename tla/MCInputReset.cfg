\* As MCInputEvents.cfg, for the time the factory reset chord is held.
SPECIFICATION Spec
VIEW MCView
CONSTANTS
  Bindings <- MCBindings
  PairingChord <- MCPairingChord
  ResetChord <- MCResetChord
  PairingHold = 2
  ResetHold = 3
  MaxEvents = 8
  None = None
  Holds <- MCHolds
  Delays <- MCDelays
INVARIANTS
  ResetWasHeld
