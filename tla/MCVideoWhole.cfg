\* The builds that hand frames to core1 complete: what each strip shows.
SPECIFICATION Spec
CONSTANTS
  None = None
  Builds <- MCOthers
  Strips = 2
  FrameMod = 3
  Palettes = {0, 1}
  MaxTics = 1
  PromptPoll = FALSE
INVARIANTS
  WholeFrames
