SPECIFICATION Spec
CONSTANTS
  Screens <- MCScreens
  Sizes <- MCSizes
  FullHD <- MCFullHD
  Bits = 2048
  MaxEntries = 1
  Samples <- FewSamples
INVARIANTS BufferFormat
