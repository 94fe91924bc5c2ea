\* Every build; the one that finalizes frames on core1, with core1 prompt.  Overlays and
\* palettes steer nothing and the property does not mention them: the view
\* leaves them out.
SPECIFICATION Spec
CONSTANTS
  None = None
  Builds <- MCAllBuilds
  Strips = 2
  FrameMod = 4
  Palettes = {0}
  MaxTics = 1
  PromptPoll = TRUE
PROPERTIES
  DeliverySpec
VIEW
  SceneView
