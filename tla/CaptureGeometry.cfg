SPECIFICATION Spec
CONSTANTS
  Screens <- MCScreens
  Sizes <- MCSizes
  FullHD <- MCFullHD
  Bits = 2048
  MaxEntries = 3
  Samples <- MCSamples
INVARIANTS TypeOK DriftBound SameShapeShown FitsWhenClose ColourNearReference
