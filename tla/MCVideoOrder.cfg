\* The finalizing build with nothing assumed of core1's speed.
SPECIFICATION Spec
CONSTANTS
  None = None
  Builds <- MCFinalizing
  Strips = 1
  FrameMod = 3
  Palettes = {0}
  MaxTics = 1
  PromptPoll = FALSE
INVARIANTS
  StreamsInOrder
