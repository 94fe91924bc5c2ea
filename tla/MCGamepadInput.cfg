\* Three positions of the pad, two snapshots queued, 10 s and 5 s as 2 and 1.
SPECIFICATION Spec
CONSTANTS
  Buttons <- MCButtons
  Pads <- MCPads
  MaxQueue = 2
  GraceDelay = 2
  RetryDelay = 1
INVARIANTS
  TypeOK
  NoStuckAction
  NeutralFirst
PROPERTIES
  RetryPaced
  ResetHolds
  ReconnectComes
