\* Every build, every interleaving of the two cores.  Which frame is which does
\* not matter to these properties: one frame number, one strip.
SPECIFICATION Spec
CONSTANTS
  None = None
  Builds <- MCAllBuilds
  Strips = 1
  FrameMod = 1
  Palettes = {0}
  MaxTics = 1
  PromptPoll = FALSE
INVARIANTS
  TypeOK
  RenderBufferPrivate
  Handover
  LevelChangeQuiescent
PROPERTIES
  FrameCompletes
  PreWipeFrameDrawn
