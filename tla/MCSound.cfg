\* Two channels; sounds of one, two and no blocks, the last one short, and one
\* that cannot be played; an interrupt may play a block to its end.
SPECIFICATION Spec
CONSTANTS
  shot = shot
  groan = groan
  hush = hush
  noise = noise
  imp = imp
  man = man
  None = None
  NumChannels = 2
  Sounds <- MCSounds
  Priority <- MCPriority
  Blocks <- MCBlocks
  BlockSamples = 3
  LastSamples <- MCLastSamples
  Unplayable <- MCUnplayable
  Steps <- MCSteps
  SampleCount = 2
  Origins <- MCOrigins
INVARIANTS
  TypeOK
  ReadsInLump
  NoOrphan
  OriginsLive
  OneChannelPerOrigin
PROPERTIES
  SoundsEnd
